----------------------------- MODULE RedisMget ------------------------------
(***************************************************************************)
(* A redis MGET (src/proxy/redis_mget_command.cc): one subquery per        *)
(* backend, and the client's reply put together from the backends' replies *)
(* bulk by bulk in the order of the keys.  waiting_reply_queue_ lists the  *)
(* runs of consecutive keys of one backend.                                *)
(*                                                                         *)
(* A backend's reply to n keys is units 1 to 2n+1: unit 1 is the array's   *)
(* header, units 2k and 2k+1 are bulk k, whose length is known once unit   *)
(* 2k is there.  A read may end after any unit in Cuts(n).                 *)
(***************************************************************************)
EXTENDS Naturals, Sequences, FiniteSets

CONSTANTS
  Queries,    \* MGETs: the sequences of the backends that own their keys
  Cuts(_)     \* where a backend's reply to n keys may be cut

\* An MGET has keys; "none" stands for no backend.
ASSUME QueriesAssumption ==
  \A keys \in Queries :
    /\ keys \in Seq({keys[i] : i \in DOMAIN keys}) /\ keys # <<>>
    /\ \A i \in DOMAIN keys : keys[i] # "none"

VARIABLES
  owners,     \* the backend of every key of this MGET
  first,      \* client_conn_->IsFirstCommand(this)
  io,         \* operation outstanding on each backend
  rcv, par, pro,  \* units received, parsed, processed, by backend
  absent,     \* reply_absent_bulks_
  complete,   \* backends with reply_recv_complete_
  bad,        \* backends with no_recycle_: their buffer holds nil bulks
  prefix,     \* the reply's own header: "no", "writing" or "done"
  writing,    \* the write of a backend's units: [from, lo, hi]
  replying_backend,
  waiting_reply_queue,   \* sequence of runs [b, n]
  lock,       \* this command's part of the client buffer's lock count
  over,       \* "no", "done" (rotated away) or "aborted"
  failed,     \* an assert of the code has failed
  out         \* units the client has got: [b, unit, nil]

vars == <<owners, first, io, rcv, par, pro, absent, complete, bad, prefix,
          writing, replying_backend, waiting_reply_queue, lock, over, failed,
          out>>

NoWrite == [from |-> "none", lo |-> 1, hi |-> 0]

Backends == {owners[i] : i \in DOMAIN owners}

key_count(b) == Cardinality({i \in DOMAIN owners : owners[i] = b})

Full(b) == 2 * key_count(b) + 1

\* A round of the constructor's loop: the next key, of backend b, is queued.
Queued(runs, b) ==
  IF runs # <<>> /\ runs[Len(runs)].b = b
  THEN [runs EXCEPT ![Len(runs)].n = @ + 1]
  ELSE Append(runs, [b |-> b, n |-> 1])

\* The constructor's waiting_reply_queue_.
Runs(keys) ==
  LET after[i \in 0..Len(keys)] ==
        IF i = 0 THEN <<>> ELSE Queued(after[i - 1], keys[i])
  IN after[Len(keys)]

\* The constructor and StartWriteQuery, which starts the reply if the
\* command is the first.
Init ==
  /\ owners \in Queries
  /\ first \in BOOLEAN
  /\ io = [b \in Backends |-> "query"] /\ lock = Cardinality(Backends)
  /\ rcv = [b \in Backends |-> 0] /\ par = [b \in Backends |-> 0]
  /\ pro = [b \in Backends |-> 0] /\ absent = [b \in Backends |-> 0]
  /\ complete = {} /\ bad = {}
  /\ prefix = (IF first THEN "writing" ELSE "no") /\ writing = NoWrite
  /\ replying_backend = "none" /\ waiting_reply_queue = Runs(owners)
  /\ over = "no" /\ failed = FALSE /\ out = <<>>

World ==
  [io |-> io, rcv |-> rcv, par |-> par, pro |-> pro, absent |-> absent,
   complete |-> complete, bad |-> bad, writing |-> writing,
   replying |-> replying_backend, waiting |-> waiting_reply_queue,
   over |-> over, failed |-> failed]

Become(w) ==
  /\ io' = w.io /\ rcv' = w.rcv /\ par' = w.par /\ pro' = w.pro
  /\ absent' = w.absent /\ complete' = w.complete /\ bad' = w.bad
  /\ writing' = w.writing /\ replying_backend' = w.replying
  /\ waiting_reply_queue' = w.waiting /\ over' = w.over /\ failed' = w.failed

Abort(w) == [w EXCEPT !.over = "aborted"]

Check(w, assertion) == [w EXCEPT !.failed = @ \/ ~assertion]

Lower(m, n) == IF m < n THEN m ELSE n

unprocessed(w, b) == Lower(w.rcv[b], w.par[b]) - w.pro[b]

TryReadMoreReply(w, b) ==
  IF b \in w.complete \/ w.io[b] = "read" THEN w ELSE [w EXCEPT !.io[b] = "read"]

TryWriteReply(w, b) ==
  IF w.writing # NoWrite \/ unprocessed(w, b) = 0
  THEN w
  ELSE [w EXCEPT !.writing = [from |-> b, lo |-> w.pro[b] + 1,
                              hi |-> Lower(w.rcv[b], w.par[b])],
                 !.pro[b] = Lower(w.rcv[b], w.par[b])]

\* At most the bulks of the run at the front are parsed.
Due(w, n) == Lower(w.waiting[1].n, n)

\* Mutant of AllReceived: the last bulk's length is taken for the bulk.
AllParsed(w, b, parsed) == parsed = Full(b)

AllReceived(w, b, parsed) == parsed = Full(b) /\ w.rcv[b] = parsed

\* Mutant of SkipHeader: the backend's header is left for the client.
KeepHeader(w, b) == w.pro[b]

SkipHeader(w, b) == IF w.par[b] = 0 THEN 1 ELSE w.pro[b]

\* The loop of ParseReply: as many bulks as have their length in the buffer
\* and are due; the assert is reached with the first of them, whether one is
\* due or not.  The array's header is skipped with the first of them.
ParseBulks(w, b) ==
  LET parsed == w.par[b] \div 2            \* bulks parsed so far
      present == (w.rcv[b] \div 2) - parsed
      new == Due(w, present)
      par1 == 2 * (parsed + new) + 1
  IN IF present = 0 THEN w
     ELSE [Check(w, w.waiting[1].n > 0) EXCEPT
             !.par[b] = par1,
             !.pro[b] = SkipHeader(w, b),
             !.absent[b] = key_count(b) - parsed - new,
             !.complete = IF AllReceived(w, b, par1) THEN @ \cup {b} ELSE @,
             !.waiting[1].n = @ - new]

\* ParseReply; an array where a bulk is due is an error.
ParseReply(w, b) ==
  IF unprocessed(w, b) > 0
  THEN [w EXCEPT !.complete = IF w.par[b] <= w.rcv[b] /\ w.absent[b] = 0
                              THEN @ \cup {b} ELSE @]
  ELSE IF w.rcv[b] > w.par[b] /\ w.par[b] = 0 /\ w.absent[b] > 0
  THEN Abort(w)
  ELSE IF w.rcv[b] > w.par[b] THEN ParseBulks(w, b) ELSE w

\* Mutant of IsTurnOf: backends reply as their data come.
IsTurnOfAny(w, b) == TRUE

IsTurnOf(w, b) == b = w.waiting[1].b

\* "isFirst" and "ready" are IsFirstCommand and reply_prefix_complete().
BackendReadyToReply(w, b, isFirst, ready) ==
  IF ~isFirst THEN w
  ELSE IF w.waiting = <<>> THEN Abort(w)
  ELSE IF ~ready \/ ~IsTurnOf(w, b) THEN w
  ELSE LET w1 == ParseReply([w EXCEPT !.replying = b], b) IN
       IF w1.over = "aborted" THEN w1
       ELSE IF unprocessed(w1, b) = 0 THEN TryReadMoreReply(w1, b)
       ELSE TryWriteReply(w1, b)

\* Mutant of NextBackendStartReply: what has come early is not looked at.
NextBackendWaits(w) == w

NextBackendStartReply(w) ==
  LET b == w.waiting[1].b IN
  IF w.rcv[b] > w.par[b] THEN BackendReadyToReply(w, b, first, TRUE) ELSE w

RotateReplyingBackend(w) ==
  IF w.waiting = <<>> THEN [w EXCEPT !.over = "done"]
                      ELSE NextBackendStartReply(w)

\* SetReplyData with an array of nil bulks, not yet parsed.
OnBackendRecoverableError(w, b) ==
  BackendReadyToReply(
    [w EXCEPT !.rcv[b] = Full(b), !.par[b] = 0, !.pro[b] = 0,
              !.bad = @ \cup {b}],
    b, first, prefix = "done")

-----------------------------------------------------------------------------

\* OnWriteQueryFinished, success, for the last segment.
QueryWritten(b) ==
  /\ io[b] = "query"
  /\ lock' = lock - 1
  /\ Become([World EXCEPT !.io[b] = "read"])
  /\ UNCHANGED <<owners, first, prefix, out>>

\* OnWriteQueryFinished, E_CONNECT.
ConnectFailed(b) ==
  /\ io[b] = "query"
  /\ lock' = lock - 1
  /\ Become(OnBackendRecoverableError([World EXCEPT !.io[b] = "none"], b))
  /\ UNCHANGED <<owners, first, prefix, out>>

\* OnWriteQueryFinished with any other error, timeouts included.
WriteFailed(b) ==
  /\ io[b] = "query"
  /\ Become(Abort(World))
  /\ UNCHANGED <<owners, first, prefix, lock, out>>

\* OnBackendReplyReceived, success: the reply is there up to unit u.
ReplyReceived(b, u) ==
  /\ io[b] = "read"
  /\ u > rcv[b] /\ u \in Cuts(key_count(b)) \cup {Full(b)}
  /\ Become(BackendReadyToReply([World EXCEPT !.io[b] = "none", !.rcv[b] = u],
                                b, first, prefix = "done"))
  /\ UNCHANGED <<owners, first, prefix, lock, out>>

\* OnBackendReplyReceived with an error or a timeout.
ReadFailed(b) ==
  /\ io[b] = "read"
  /\ LET w == [World EXCEPT !.io[b] = "none"] IN
     Become(IF b = replying_backend THEN Abort(w)
                                    ELSE OnBackendRecoverableError(w, b))
  /\ UNCHANGED <<owners, first, prefix, lock, out>>

\* OnWriteReplyFinished of the reply's header.
PrefixWritten ==
  /\ prefix = "writing" /\ prefix' = "done"
  /\ Become(NextBackendStartReply(Check(World, waiting_reply_queue # <<>>)))
  /\ UNCHANGED <<owners, first, lock, out>>

\* OnWriteReplyFinished of a backend's units.
OnWriteReplyFinished ==
  /\ writing # NoWrite
  /\ LET b == writing.from
         w == [Check(World, /\ waiting_reply_queue # <<>>
                            /\ b = waiting_reply_queue[1].b
                            /\ b = replying_backend)
               EXCEPT !.writing = NoWrite]
         pop == [w EXCEPT !.waiting = IF w.waiting[1].n = 0 THEN Tail(@) ELSE @]
     IN /\ out' = out \o [i \in 1..(writing.hi - writing.lo + 1) |->
                            [b |-> b, unit |-> writing.lo + i - 1,
                             nil |-> b \in bad]]
        /\ Become(IF par[b] <= rcv[b] THEN RotateReplyingBackend(pop)
                                      ELSE TryReadMoreReply(w, b))
  /\ UNCHANGED <<owners, first, prefix, lock>>

\* A write to the client fails or times out.
WriteReplyFailed ==
  /\ prefix = "writing" \/ writing # NoWrite
  /\ Become(Abort(World))
  /\ UNCHANGED <<owners, first, prefix, lock, out>>

\* A read from the client fails or times out.
ClientFails ==
  /\ Become(Abort(World))
  /\ UNCHANGED <<owners, first, prefix, lock, out>>

\* RotateReplyingCommand makes this command the first.
StartWriteReply ==
  /\ ~first /\ first' = TRUE
  /\ prefix' = "writing"
  /\ Become(World)
  /\ UNCHANGED <<owners, lock, out>>

Next ==
  /\ over = "no"
  /\ \/ \E b \in Backends : QueryWritten(b)
     \/ \E b \in Backends : ConnectFailed(b)
     \/ \E b \in Backends : WriteFailed(b)
     \/ \E b \in Backends : \E u \in 1..Full(b) : ReplyReceived(b, u)
     \/ \E b \in Backends : ReadFailed(b)
     \/ PrefixWritten
     \/ OnWriteReplyFinished
     \/ WriteReplyFailed
     \/ ClientFails
     \/ StartWriteReply

Spec == Init /\ [][Next]_vars

\* A timer ends every operation on a backend and every write to the client;
\* the commands ahead end too.
Timeout ==
  /\ over = "no"
  /\ \/ \E b \in Backends : WriteFailed(b)
     \/ \E b \in Backends : ReadFailed(b)
     \/ WriteReplyFailed

FairSpec ==
  Spec /\ WF_vars(Timeout) /\ WF_vars(over = "no" /\ StartWriteReply)

-----------------------------------------------------------------------------
(* Properties.                                                             *)

\* The variables' types and bounds.
TypeOK ==
  /\ owners \in Queries /\ first \in BOOLEAN /\ failed \in BOOLEAN
  /\ io \in [Backends -> {"query", "read", "none"}]
  /\ \A b \in Backends :
       /\ rcv[b] \in 0..Full(b) /\ par[b] \in 0..Full(b)
       /\ pro[b] \in 0..Lower(rcv[b], par[b]) /\ absent[b] \in 0..key_count(b)
  /\ complete \subseteq Backends /\ bad \subseteq Backends
  /\ prefix \in {"no", "writing", "done"}
  /\ writing.from \in Backends \cup {"none"}
  /\ replying_backend \in Backends \cup {"none"}
  /\ \A i \in DOMAIN waiting_reply_queue :
       waiting_reply_queue[i] \in [b : Backends, n : 0..Len(owners)]
  /\ lock \in 0..Cardinality(Backends) /\ over \in {"no", "done", "aborted"}

\* The asserts on the queue hold: the backend whose units have been written
\* is the one at the front and the one that is replying
\* (OnWriteReplyFinished, NextBackendStartReply, ParseReply).
NoAssertFails == ~failed

\* Key i, the j-th of its backend, is answered with units 2j and 2j+1.
Expected ==
  [k \in 1..(2 * Len(owners)) |->
     LET i == (k + 1) \div 2
         j == Cardinality({h \in 1..i : owners[h] = owners[i]})
     IN <<owners[i], 2 * j + ((k + 1) % 2)>>]

\* The client gets the values in the order of its keys, each from the
\* backend that owns the key, whatever order the replies come in and
\* wherever they are cut; a value is never half a backend's and half a nil
\* bulk of the proxy's; and a command that is rotated away has answered every
\* key.
ValuesInKeyOrder ==
  /\ Len(out) <= Len(Expected)
  /\ over = "done" => Len(out) = Len(Expected)
  /\ \A k \in DOMAIN out :
       /\ <<out[k].b, out[k].unit>> = Expected[k]
       /\ k % 2 = 0 => out[k].nil = out[k - 1].nil

\* A backend counts as completely received only with its last unit, and
\* then always when the command is over: otherwise BackendConnPool would
\* reuse a connection with a reply in flight, or close a sound one.
CompleteIsExact ==
  \A b \in Backends \ bad :
    /\ b \in complete => rcv[b] = Full(b)
    /\ over = "done" => b \in complete

\* A read of the backend's reply has ended exactly between two bulks.
BetweenBulks(b) == rcv[b] \in 2..(Full(b) - 1) /\ rcv[b] % 2 = 1

\* Unless a read ends exactly between two bulks (see ReplyMovesOn), the
\* command ends, with its reply or with the connection, even if the client's
\* own timer never fires.
CommandEnds == [](\A b \in Backends : ~BetweenBulks(b)) => <>(over # "no")

\* "if [ $count -ne 9 ]" (test/redis/mget2.sh: header and eight values): an
\* unfinished reply always has an operation outstanding that continues it.
ReplyMovesOn ==
  over = "no" =>
    \/ ~first \/ prefix = "writing" \/ writing # NoWrite
    \/ io[waiting_reply_queue[1].b] # "none"
=============================================================================
