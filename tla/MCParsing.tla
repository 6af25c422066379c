----------------------------- MODULE MCParsing -----------------------------
(***************************************************************************)
(* Messages of module Parsing for TLC, encoded as clients and backends do, *)
(* with the places of their parts.                                         *)
(***************************************************************************)
EXTENDS Parsing

CRLF == <<CR, LF>>

\* Payloads that look like the end of a line and the start of a bulk.
Payload(n) == [i \in 1..n |-> <<CR, LF, Dollar>>[((i - 1) % 3) + 1]]

Decimals(n) ==
  IF n < 10 THEN <<Zero + n>> ELSE <<Zero + (n \div 10), Zero + (n % 10)>>

BulkHead(p) == <<Dollar>> \o Decimals(Len(p)) \o CRLF
BulkBytes(p) == BulkHead(p) \o p \o CRLF

\* The parts of a message, and where they are behind the first bytes.
Places(start, heads, bodies) ==
  LET end[k \in 0..Len(heads)] ==
        IF k = 0 THEN start ELSE end[k - 1] + heads[k] + bodies[k]
  IN [k \in 1..Len(heads) |-> [head |-> end[k - 1] + heads[k], end |-> end[k]]]

\* The numbers of the parts that are keys, the name left out.
Chosen(n, keyAt(_)) == SelectSeq([i \in 1..n |-> i], LAMBDA i : i > 1 /\ keyAt(i))

\* A redis query: the letter of its name, and the sizes of its arguments.
RedisQuery(type, name, sizes, keyAt(_)) ==
  LET payloads == <<<<name>>>> \o [i \in DOMAIN sizes |-> Payload(sizes[i])]
      first == <<Star>> \o Decimals(Len(payloads)) \o CRLF
      bytes == first \o FlattenSeq([i \in DOMAIN payloads |-> BulkBytes(payloads[i])])
      bulks == Places(Len(first), [i \in DOMAIN payloads |-> Len(BulkHead(payloads[i]))],
                      [i \in DOMAIN payloads |-> Len(payloads[i]) + 2])
      key(k) == [at |-> bulks[k].head + 1, size |-> Len(payloads[k])]
  IN [role |-> "query", type |-> type, bytes |-> bytes \o <<Star, Zero + 1, CR, LF>>,
      size |-> Len(bytes), bulks |-> bulks,
      keys |-> [k \in DOMAIN bulks |->
                  LET of == Chosen(k, keyAt)
                  IN [i \in DOMAIN of |-> key(of[i])]]]

Every(i) == TRUE
FirstOnly(i) == i = 2
Pairs(i) == i % 2 = 0
NoKey(i) == FALSE

Set(name, sizes) == RedisQuery("set", name, sizes, FirstOnly)
Del(sizes) == RedisQuery("del", 100, sizes, Every)
Mset(sizes) == RedisQuery("mset", 109, sizes, Pairs)

RedisQueries ==
  {RedisQuery("basic", 103, <<1>>, FirstOnly), RedisQuery("basic", 71, <<0, 12>>, FirstOnly),
   RedisQuery("mget", 113, <<0, 10, 2>>, Every), RedisQuery("stats", 121, <<>>, NoKey),
   Set(115, <<1, 11>>), Set(83, <<3, 0>>), Set(115, <<10, 2, 0, 1>>),
   Mset(<<1, 4>>), Mset(<<0, 0, 3, 2, 1, 10>>), Mset(<<2, 10, 1, 0>>),
   Del(<<3>>), Del(<<0, 1, 10>>), Del(<<1, 0, 0, 2, 0, 0, 1, 0, 0, 4>>),
   RedisQuery("unserved", 120, <<3>>, NoKey)}

\* A memcached query: its words, and the size of the value that follows.
MemcQuery(type, words, keyAt(_), body) ==
  LET text(i) == (IF i = 1 THEN <<>> ELSE <<Space>>) \o words[i]
      line == FlattenSeq([i \in DOMAIN words |-> text(i)]) \o CRLF
      before(i) == Len(FlattenSeq([j \in 1..(i - 1) |-> text(j)]))
      of == Chosen(Len(words), keyAt)
      value == IF body < 0 THEN <<>> ELSE Payload(body) \o CRLF
  IN [role |-> "query", type |-> type,
      bytes |-> line \o value \o <<103>>, size |-> Len(line) + Len(value),
      bulks |-> <<[head |-> Len(line), end |-> Len(line) + Len(value)]>>,
      keys |-> <<[i \in DOMAIN of |-> [at |-> before(of[i]) + 2, size |-> Len(words[of[i]])]]>>]

GET == <<103, 101, 116>>
Word1(n) == [i \in 1..n |-> 107]

MemcQueries ==
  {MemcQuery("get", <<GET, Word1(1)>>, Every, -1),
   MemcQuery("get", <<GET, Word1(2), Word1(1), Word1(3)>>, Every, -1),
   MemcQuery("get", <<GET, Word1(12), Word1(12)>>, Every, -1),
   MemcQuery("memcset", <<<<115>>, Word1(1), Decimals(0), Decimals(60), Decimals(1)>>, FirstOnly, 1),
   MemcQuery("memcset", <<<<115>>, Word1(3), Decimals(0), Decimals(0), Decimals(12)>>, FirstOnly, 12),
   MemcQuery("unserved", <<<<115>>, Word1(3), Decimals(0), Decimals(0), Decimals(0)>>, FirstOnly, 0),
   MemcQuery("memcbasic", <<<<100>>, Word1(2)>>, FirstOnly, -1),
   MemcQuery("memcbasic", <<<<100>>, Word1(1), Decimals(10)>>, FirstOnly, -1),
   MemcQuery("unserved", <<<<120>>, Word1(1)>>, NoKey, -1)}

\* Queries of src/README.md and src/test/memcached/yarmstats.sh: gets with one
\* key, and yarmstats alone on its line.
GetsOnly == {MemcQuery("get", <<GET \o <<115>>, Word1(1)>>, Every, -1)}
StatsLine == {MemcQuery("stats", <<<<121>>>>, NoKey, -1)}

Reply(role, bytes, bulks) ==
  [role |-> role, type |-> "reply", bytes |-> bytes, size |-> Len(bytes),
   whole |-> Len(bytes), bulks |-> bulks, keys |-> <<>>]
BulkReply(n) ==
  Reply("redis_reply", BulkBytes(Payload(n)),
        Places(0, <<Len(BulkHead(Payload(n)))>>, <<n + 2>>))
LineReply(role, bytes) == Reply(role, bytes \o CRLF, <<>>)

\* VALUE k 0 n, for every block.
ValueLine(n) ==
  <<86, 65, 76, 85, 69, Space, 107, Space, Zero, Space>> \o Decimals(n) \o CRLF
Values(sizes, last) ==
  LET blocks == [i \in DOMAIN sizes |-> ValueLine(sizes[i]) \o Payload(sizes[i]) \o CRLF]
      bytes == FlattenSeq(blocks) \o End
  IN [Reply("memc_values", bytes,
            Places(0, [i \in DOMAIN sizes |-> Len(ValueLine(sizes[i]))],
                   [i \in DOMAIN sizes |-> sizes[i] + 2]))
      EXCEPT !.size = IF last THEN @ ELSE @ - Len(End)] @@ [last |-> last]

Replies ==
  {BulkReply(0), BulkReply(1), BulkReply(13),
   LineReply("redis_reply", <<Dollar, Minus, Zero + 1>>),
   LineReply("redis_reply", <<Colon, Zero + 1>>), LineReply("redis_reply", <<Minus, 69, 69>>),
   LineReply("memc_reply", <<83, 84>>), Values(<<>>, TRUE), Values(<<>>, FALSE),
   Values(<<1, 0, 12>>, TRUE), Values(<<5, 3>>, FALSE)}

MCMessages == RedisQueries \union MemcQueries \union Replies
MCStale == {CR, LF, Zero + 1}
=============================================================================
