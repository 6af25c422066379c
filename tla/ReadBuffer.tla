----------------------------- MODULE ReadBuffer -----------------------------
(***************************************************************************)
(* The window buffer of src/proxy/read_buffer.{h,cc}.  A connection        *)
(* receives bytes at received_offset_, a parser advances parsed_offset_    *)
(* (which may run ahead of what has been received: a bulk's size is known  *)
(* from its header) and the bytes handed to the other side advance         *)
(* processed_offset_.  recycle_lock_count_ counts the asynchronous         *)
(* operations that still use the memory; while it is not zero the buffer   *)
(* must not be compacted.                                                  *)
(*                                                                         *)
(* The payload is abstracted to positions: field "base" is a history       *)
(* field, the position in the byte stream of data_[0], so data_[k] holds   *)
(* stream byte base + k for every k < received.                            *)
(***************************************************************************)
EXTENDS Integers

CONSTANT BufferSize    \* buffer_size_

ASSUME BufferSizeAssumption == BufferSize \in Nat \ {0}

ReadBuffers ==
  [processed : Nat, received : Nat, parsed : Nat, lock : Nat, base : Nat]

\* The order of the offsets that every handler keeps.
WellFormed(b) ==
  /\ b \in ReadBuffers
  /\ b.processed <= b.received /\ b.received <= BufferSize
  /\ b.processed <= b.parsed

\* A new buffer, and what Reset() makes of any buffer.
EmptyBuffer ==
  [processed |-> 0, received |-> 0, parsed |-> 0, lock |-> 0, base |-> 0]

\* Mutant of has_much_free_space: two thirds must be free, not one.
has_most_free_space(b) == b.received * 3 < BufferSize

\* "there is more than 1/3 free space"
has_much_free_space(b) == b.received * 3 < BufferSize * 2

free_space_size(b) == BufferSize - b.received

received_bytes(b) == b.received - b.processed

\* Received, parsed and not yet handed on.
unprocessed_bytes(b) ==
  (IF b.received <= b.parsed THEN b.received ELSE b.parsed) - b.processed

parsed_unprocessed_bytes(b) == b.parsed - b.processed

parsed_unreceived_bytes(b) ==
  IF b.parsed > b.received THEN b.parsed - b.received ELSE 0

unparsed_received_bytes(b) ==
  IF b.received > b.parsed THEN b.received - b.parsed ELSE 0

recycle_locked(b) == b.lock > 0

\* Mutant of try_recycle_buffer: the lock count is not consulted.
recycle_ignores_lock(b) ==
  IF b.processed = b.received \/ b.processed > BufferSize - b.received
  THEN [processed |-> 0, received |-> b.received - b.processed,
        parsed |-> b.parsed - b.processed, lock |-> b.lock,
        base |-> b.base + b.processed]
  ELSE b

\* Drop the processed prefix, by resetting the offsets when nothing is left
\* or by a memmove when the free tail has become smaller than the prefix.
try_recycle_buffer(b) ==
  IF /\ b.lock = 0
     /\ b.processed = b.received \/ b.processed > BufferSize - b.received
  THEN [processed |-> 0, received |-> b.received - b.processed,
        parsed |-> b.parsed - b.processed, lock |-> b.lock,
        base |-> b.base + b.processed]
  ELSE b

update_received_bytes(b, n) == [b EXCEPT !.received = b.received + n]

update_parsed_bytes(b, n) == [b EXCEPT !.parsed = b.parsed + n]

update_processed_bytes(b, n) ==
  try_recycle_buffer([b EXCEPT !.processed = b.processed + n])

inc_recycle_lock(b) == [b EXCEPT !.lock = b.lock + 1]

\* Mutant of dec_recycle_lock: the lock is given up twice.
dec_recycle_lock_twice(b) == try_recycle_buffer([b EXCEPT !.lock = b.lock - 2])

\* Guarded by assert(recycle_lock_count_ > 0) in the code.
dec_recycle_lock(b) == try_recycle_buffer([b EXCEPT !.lock = b.lock - 1])

\* Reset() followed by push_reply_data(data, n, parsed = true).
SetReplyData(n) ==
  [processed |-> 0, received |-> n, parsed |-> n, lock |-> 0, base |-> 0]
=============================================================================
