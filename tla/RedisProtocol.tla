--------------------------- MODULE RedisProtocol ---------------------------
(***************************************************************************)
(* The parser of redis data (src/proxy/redis_protocol.h) and of the lines  *)
(* of memcached, as functions of memory.  mem is the memory from the first *)
(* unparsed byte of a buffer on: a sequence of byte values, longer than    *)
(* what has been received, because the loop over the length of a bulk      *)
(* looks at the byte behind the received ones before it tests the bound.   *)
(* Positions count from 1.                                                 *)
(***************************************************************************)
EXTENDS Integers, SequencesExt

LF == 10
CR == 13
Space == 32
Dollar == 36
Star == 42
Plus == 43
Minus == 45
Zero == 48
Colon == 58

SIZE_PARSE_ERROR == -10001

\* Where a byte is found first, from a position on (memchr and while loops).
Find(mem, from, bytes) == Min({i \in from..Len(mem) : mem[i] \in bytes})
Found(mem, from, to, bytes) == \E i \in from..to : mem[i] \in bytes

\* total = total * 10 + (*p - '0'), over the bytes from i to j.
Decimal(mem, i, j) ==
  FoldLeft(LAMBDA n, b : 10 * n + (b - Zero), 0, SubSeq(mem, i, j))

\* std::stoi and std::atoi of a number that is not negative; 0 otherwise.
ToInt(mem, at) ==
  LET digits == {j \in at..Len(mem) : \A i \in at..j : mem[i] \in Zero..(Zero + 9)}
  IN Decimal(mem, at, Max(digits \union {at - 1}))

\* Where the loop over the length of a bulk ends.
LengthEnd(mem, at, bytes) ==
  Min({i \in (at + 1)..(at + bytes) : mem[i] = CR \/ i = at + bytes})

\* The constructor of Bulk.
PresentSize(mem, at, bytes) ==
  LET p == LengthEnd(mem, at, bytes) IN
  CASE bytes < 4 -> 0
    [] bytes >= 4 /\ mem[at] # Dollar -> SIZE_PARSE_ERROR
    [] bytes >= 4 /\ mem[at] = Dollar /\ mem[at + 1] = Minus ->
         IF mem[at + 2] # Zero + 1 THEN SIZE_PARSE_ERROR
         ELSE IF bytes < 5 THEN 0
         ELSE IF mem[at + 3] = CR /\ mem[at + 4] = LF THEN 5
         ELSE SIZE_PARSE_ERROR
    [] OTHER ->
         IF mem[p] = CR /\ p + 1 < at + bytes /\ mem[p + 1] = LF
         THEN Min({bytes, (p - at) + Decimal(mem, at + 1, p - 1) + 4})
         ELSE 0

total_size(mem, at) ==
  LET p == Find(mem, at + 1, {CR})
  IN IF mem[at + 1] = Minus THEN 5
     ELSE Decimal(mem, at + 1, p - 1) + (p - at) + 4

payload_data(mem, at) == Find(mem, at + 2, {LF}) + 1

payload_size(mem, at) == ToInt(mem, at + 1)

Bulk(mem, at, bytes) ==
  LET present == PresentSize(mem, at, bytes)
  IN [at |-> at, present_size |-> present,
      total_size |-> IF present = 0 THEN 0 ELSE total_size(mem, at)]

\* absent_size() > 0: a negative present_size_ is converted to a huge size_t.
absent(b) == b.present_size \in 0..(b.total_size - 1)

completed(b) == b.present_size > 0 /\ ~absent(b)

\* One round of the loop of ParseBulkItems, over the bytes before end.
ParseBulkItem(mem, end, s) ==
  LET b == Bulk(mem, s.at, end - s.at) IN
  IF s.stop \/ s.at >= end THEN s
  ELSE IF b.present_size < 0
       THEN [s EXCEPT !.items = Append(@, b), !.stop = TRUE, !.error = TRUE]
  ELSE IF b.present_size = 0 THEN [s EXCEPT !.stop = TRUE]
  ELSE [s EXCEPT !.items = Append(@, b), !.at = @ + b.total_size]

\* ParseBulkItems: the bulks found, and how many bytes they take, also those
\* of the last one that have not come yet.
ParseBulkItems(mem, at, bytes, max_bulks) ==
  LET s == FoldLeft(LAMBDA r, i : ParseBulkItem(mem, at + bytes, r),
                    [items |-> <<>>, at |-> at, stop |-> FALSE, error |-> FALSE],
                    [i \in 1..max_bulks |-> i])
  IN [items |-> s.items, bytes |-> IF s.error THEN -1 ELSE s.at - at]

\* The constructor of BulkArray, over the first bytes of mem.
BulkArray(mem, bytes) ==
  LET p == Min({i \in 2..(bytes + 1) : i = bytes + 1 \/ mem[i] \notin Zero..(Zero + 9)})
      found == ParseBulkItems(mem, p + 2, bytes - (p + 1), Decimal(mem, 2, p - 1))
      none(size) == [parsed_size |-> size, items |-> <<>>]
  IN CASE bytes < 4 -> none(0)
       [] bytes >= 4 /\ mem[1] # Star -> none(SIZE_PARSE_ERROR)
       [] bytes >= 4 /\ mem[1] = Star /\ p > bytes - 1 -> none(0)
       [] OTHER ->
            IF p = 2 \/ mem[p] # CR \/ mem[p + 1] # LF THEN none(SIZE_PARSE_ERROR)
            ELSE [items |-> found.items,
                  parsed_size |-> IF found.bytes < 0 THEN SIZE_PARSE_ERROR
                                  ELSE p + 1 + found.bytes]

total_bulks(mem) == ToInt(mem, 2)

absent_bulks(mem, ba) == total_bulks(mem) - Len(ba.items)

\* BulkArray::completed
ArrayCompleted(mem, ba) ==
  /\ Len(ba.items) = total_bulks(mem)
  /\ Len(ba.items) > 0 => ~absent(Last(ba.items))

\* BulkArray::total_size
ArraySize(mem, ba) ==
  CASE Len(ba.items) < total_bulks(mem) -> 0
    [] total_bulks(mem) = 0 -> 4
    [] OTHER -> FoldLeft(LAMBDA n, b : n + b.total_size,
                         Head(ba.items).at - 1, ba.items)
=============================================================================
