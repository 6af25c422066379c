------------------------------ MODULE Parsing ------------------------------
(***************************************************************************)
(* How queries of a client and replies of a backend are recognised while   *)
(* they come in pieces: Command::CreateCommand and what the constructors   *)
(* of the commands find (src/proxy/command.cc and the *_command.cc files), *)
(* the parsing of the rest of a large redis query, and the parsing of      *)
(* replies.                                                                *)
(*                                                                         *)
(* A message is the bytes of one query or one reply.  Reads cut it         *)
(* anywhere; the reads of a query may also bring the first bytes of the    *)
(* next one.  Behind the received bytes the buffer holds whatever an       *)
(* earlier use has left there: every read meets any byte of Stale.         *)
(*                                                                         *)
(* One letter stands for all names of the same command type; get and gets  *)
(* are spelled out, because the loop over the keys starts behind "get ".   *)
(* When a read may start, and what is written to the backends, is left to  *)
(* modules Pipeline, RedisDel, RedisMset, RedisMget and MemcGet.  They     *)
(* count bulks and bytes by the headers received; that the code finds      *)
(* those counts is checked here.  Queries and replies are well formed, and *)
(* a query with a key type has a key.                                      *)
(***************************************************************************)
EXTENDS RedisProtocol

CONSTANTS
  Messages,      \* the queries and replies, see MessageOK
  Stale,         \* bytes that may lie behind the received ones
  buffer_size    \* Config::buffer_size

\* What is sent: bytes, and how many of them are the message; the rest is
\* the beginning of the next one.
MessageOK(m) ==
  /\ m.role \in {"query", "redis_reply", "memc_reply", "memc_values"}
  /\ m.size \in 0..Len(m.bytes)
  /\ \A i \in DOMAIN m.bytes : m.bytes[i] \in 0..255

ASSUME MessagesAssumption ==
  /\ \A m \in Messages : MessageOK(m)
  /\ Stale # {} /\ Stale \subseteq 0..255
  /\ buffer_size \in Nat

VARIABLES
  message,
  received,      \* bytes received, and
  parsed,        \* bytes parsed, which may be more
  cmd            \* the command, or what is known of the reply

vars == <<message, received, parsed, cmd>>

\* state: "none", "query" (a command was made), "error" (ErrorCommand, or the
\* connection was aborted), "reply" or "complete" (reply_recv_complete_).
\* keys: where the keys that were looked up with Locate are.
NoCommand == [state |-> "none", type |-> "none", unparsed_bulks_ |-> 0, keys |-> <<>>]

Init ==
  /\ message \in Messages
  /\ received = 0 /\ parsed = 0
  /\ cmd = [NoCommand EXCEPT !.state =
              IF message.role = "query" THEN "none" ELSE "reply"]

\* The memory from the first unparsed byte on, with a byte behind it.
Memory(n, stale) == SubSeq(message.bytes, parsed + 1, n) \o <<stale, stale>>

\* What comes of CreateCommand: too little data, a command, or a refusal.  The
\* bytes are those it returns.
NotYet == UNCHANGED <<parsed, cmd>>
Made(bytes, type, unparsed_bulks, keys) ==
  /\ parsed' = bytes
  /\ cmd' = [state |-> "query", type |-> type, unparsed_bulks_ |-> unparsed_bulks,
             keys |-> keys]
ErrorCommand(bytes) ==
  parsed' = bytes /\ cmd' = [NoCommand EXCEPT !.state = "error"]

----------------------------------------------------------------------------
(***************************************************************************)
(* Redis queries                                                           *)
(***************************************************************************)

tolower(b) == IF b \in 65..90 THEN b + 32 ELSE b

\* kCommandNameType: g for get, ttl, incr and the like, s for set, append,
\* setex and the like, m for mset, q for mget, d for del, exists and touch,
\* y for yarmstats.
GetRedisCommandType(mem, b) ==
  LET name == [i \in 1..payload_size(mem, b.at) |->
                 tolower(mem[payload_data(mem, b.at) + i - 1])]
  IN CASE name = <<103>> -> "basic" [] name = <<115>> -> "set"
       [] name = <<109>> -> "mset"  [] name = <<113>> -> "mget"
       [] name = <<100>> -> "del"   [] name = <<121>> -> "stats"
       [] OTHER -> "unsupported"

\* The key in a bulk, at its place in the stream.
Key(mem, b) ==
  [at |-> parsed + payload_data(mem, b.at), size |-> payload_size(mem, b.at)]
Keys(mem, items) == [i \in DOMAIN items |-> Key(mem, items[i])]

\* The keys of an MSET are every other bulk, as far as a value follows.
KeysOfPairs(mem, items) ==
  [i \in 1..(Len(items) \div 2) |-> Key(mem, items[2 * i - 1])]

\* Without its last bulk, if that is incomplete.
CompleteItems(items) ==
  IF items # <<>> /\ ~completed(Last(items)) THEN Front(items) ELSE items

\* Without its last bulk, if that is a key without value.
PairedItems(items) == IF Len(items) % 2 = 1 THEN Front(items) ELSE items

SizeOf(items) == FoldLeft(LAMBDA n, b : n + b.total_size, 0, items)

\* Mutant: the last key is dropped but not counted as unparsed.
NewDelForgetful(mem, ba) ==
  LET taken == CompleteItems(Tail(ba.items)) IN
  Made(ba.parsed_size - (SizeOf(Tail(ba.items)) - SizeOf(taken)), "del",
       absent_bulks(mem, ba), Keys(mem, taken))

\* RedisDelCommand's constructor and the bytes returned for it: a last key
\* that is incomplete is parsed again later.
NewDel(mem, ba) ==
  LET taken == CompleteItems(Tail(ba.items)) IN
  Made(IF completed(Last(ba.items)) THEN ba.parsed_size
       ELSE ba.parsed_size - Last(ba.items).total_size,
       "del",
       absent_bulks(mem, ba) + (Len(ba.items) - 1 - Len(taken)),
       Keys(mem, taken))

\* RedisMsetCommand's constructor and the bytes returned for it.
NewMset(mem, ba) ==
  Made(IF Len(ba.items) % 2 = 0 THEN ba.parsed_size - Last(ba.items).total_size
       ELSE ba.parsed_size,
       "mset",
       absent_bulks(mem, ba) + (absent_bulks(mem, ba) % 2),
       KeysOfPairs(mem, Tail(ba.items)))

\* RedisSetCommand's constructor: the other bulks may come later.
NewSet(mem, ba) ==
  Made(ba.parsed_size, "set", absent_bulks(mem, ba), <<Key(mem, ba.items[2])>>)

\* The commands that are made when all of the query is there.
NewWhole(mem, ba, type) ==
  Made(ArraySize(mem, ba), type, 0,
       CASE type = "basic" -> <<Key(mem, ba.items[2])>>
         [] type = "mget" -> Keys(mem, Tail(ba.items))
         [] type = "stats" -> <<>>)

NameIsThere(ba) == ba.items # <<>> /\ ~absent(ba.items[1])

CreateRedisCommand(mem, size) ==
  \E ba \in {BulkArray(mem, size)} :
    \/ total_bulks(mem) = 0 /\ ErrorCommand(size)
    \/ total_bulks(mem) # 0 /\ ~NameIsThere(ba) /\ NotYet
    \/ /\ total_bulks(mem) # 0 /\ NameIsThere(ba)
       /\ \E type \in {GetRedisCommandType(mem, ba.items[1])} :
            \/ /\ type \in {"basic", "mget", "stats"}
               /\ IF ArrayCompleted(mem, ba) THEN NewWhole(mem, ba, type) ELSE NotYet
            \/ /\ type = "set"
               /\ IF Len(ba.items) < 2 \/ ~completed(ba.items[2]) THEN NotYet
                  ELSE NewSet(mem, ba)
            \/ /\ type = "mset"
               /\ IF Len(ba.items) < 3 THEN NotYet ELSE NewMset(mem, ba)
            \/ /\ type = "del"
               /\ IF Len(ba.items) < 2 \/ ~completed(ba.items[2]) THEN NotYet
                  ELSE NewDel(mem, ba)
            \/ type = "unsupported" /\ ErrorCommand(size)

----------------------------------------------------------------------------
(***************************************************************************)
(* Memcached queries                                                       *)
(***************************************************************************)

Blank == {Space, CR}

\* kCommandNameType: s for set, add, cas and the like, d for delete, incr,
\* decr and touch, y for yarmstats.  The name ends at the first blank of the
\* line; without one, it is the line with its CR and LF.
GetMemcCommandType(mem, size) ==
  LET p == Find(mem \o <<Space>>, 1, {Space})
      name == SubSeq(mem, 1, Min({p - 1, size}))
  IN CASE name \in {<<103, 101, 116>>, <<103, 101, 116, 115>>} -> "get"
       [] name = <<115>> -> "memcset"
       [] name = <<100>> -> "memcbasic"
       [] name = <<121>> -> "stats"
       [] OTHER -> "unsupported"

\* The word from p to before q.
Word(p, q) == [at |-> parsed + p, size |-> q - p]

\* The loop of MemcGetCommand's constructor: the words of the line, from
\* behind "get " on.  What would start at the end of the line is none.
GetKeys(mem, size) ==
  LET ends == SelectSeq([i \in 1..(size - 1) |-> i], LAMBDA i : i > 4 /\ mem[i] \in Blank)
      start(i) == IF i = 1 THEN 5 ELSE ends[i - 1] + 1
  IN [i \in {j \in DOMAIN ends : start(j) < size - 1} |-> Word(start(i), ends[i])]

\* The first word behind the name: MemcSetCommand::ParseQuery ends it at a
\* blank, MemcBasicCommand's constructor also at the end of the line.
SetKey(mem) ==
  LET p == Find(mem, 1, {Space}) + 1 IN Word(p, Find(mem, p + 1, {Space}))
BasicKey(mem) ==
  LET p == Find(mem, 1, {Space}) + 1 IN Word(p, Find(mem, p + 1, Blank))

\* MemcSetCommand::ParseQuery: the number at the end of the line, and 2 for
\* the CR and LF behind the value.
BodyBytes(mem, size) ==
  LET p == Max({i \in 1..(size - 1) : i > 1 /\ mem[i - 1] = Space})
  IN ToInt(mem, p) + 2

CreateMemcCommand(mem, size) ==
  \E cmd_line_bytes \in {Find(mem, 1, {LF})} :
    \E type \in {GetMemcCommandType(mem, cmd_line_bytes)} :
      \/ type = "get" /\ Made(cmd_line_bytes, type, 0, GetKeys(mem, cmd_line_bytes))
      \/ /\ type = "memcset"
         /\ \E body_bytes \in {BodyBytes(mem, cmd_line_bytes)} :
              IF body_bytes <= 2 THEN ErrorCommand(cmd_line_bytes)
              ELSE Made(cmd_line_bytes + body_bytes, type, 0, <<SetKey(mem)>>)
      \/ type = "memcbasic" /\ Made(cmd_line_bytes, type, 0, <<BasicKey(mem)>>)
      \/ type = "stats" /\ Made(cmd_line_bytes, type, 0, <<>>)
      \/ type = "unsupported" /\ ErrorCommand(size)

\* Command::CreateCommand, for the received bytes in mem.
CreateCommand(mem, size) ==
  IF ~Found(mem, 1, size, {LF})
  THEN IF size > buffer_size \div 2 THEN ErrorCommand(size) ELSE NotYet
  ELSE IF mem[1] = Star THEN CreateRedisCommand(mem, size)
  ELSE CreateMemcCommand(mem, size)

----------------------------------------------------------------------------
(***************************************************************************)
(* ClientConnection::HandleRead, as far as it parses                       *)
(***************************************************************************)

\* The bulks in "items", out of those found, are taken, with their keys.
Take(found, items, keys) ==
  IF found.bytes < 0
  THEN cmd' = [cmd EXCEPT !.state = "error"] /\ UNCHANGED parsed
  ELSE /\ cmd' = [cmd EXCEPT !.unparsed_bulks_ = @ - Len(items), !.keys = @ \o keys]
       /\ parsed' = parsed + (found.bytes - (SizeOf(found.items) - SizeOf(items)))

\* RedisDelCommand::ProcessUnparsedPart
ProcessUnparsedKeys(mem, bytes) ==
  \E found \in {ParseBulkItems(mem, 1, bytes, cmd.unparsed_bulks_)} :
    \E items \in {CompleteItems(found.items)} :
      Take(found, items, Keys(mem, items))

\* RedisMsetCommand::ProcessUnparsedPart
ProcessUnparsedPairs(mem, bytes) ==
  \E found \in {ParseBulkItems(mem, 1, bytes, cmd.unparsed_bulks_)} :
    \E items \in {PairedItems(found.items)} :
      Take(found, items, KeysOfPairs(mem, items))

\* RedisSetCommand::ParseUnparsedPart: the loop of ParseBulkItems, one bulk
\* at a time.
ParseUnparsedPart(mem, bytes) ==
  \E found \in {ParseBulkItems(mem, 1, bytes, cmd.unparsed_bulks_)} :
    Take(found, found.items, <<>>)

\* A read that ends at byte n: the first bytes of a query,
HandleFirstRead(n, stale) ==
  /\ cmd.state = "none" /\ n > received
  /\ received' = n
  /\ \E mem \in {Memory(n, stale)} : CreateCommand(mem, n)
  /\ UNCHANGED message

\* or more of a query whose command is there.  Commands that are not large
\* arrays parse nothing; the rest of an MSET waits for the value before it.
HandleRead(n, stale) ==
  /\ cmd.state = "query" /\ n > received
  /\ received' = n
  /\ \E mem \in {Memory(n, stale)} :
       LET bytes == Max({n - parsed, 0})
           waits == cmd.unparsed_bulks_ = 0 \/ n < parsed
       IN \/ cmd.type = "set" /\ ParseUnparsedPart(mem, bytes)
          \/ cmd.type = "del" /\ ~waits /\ ProcessUnparsedKeys(mem, bytes)
          \/ cmd.type = "mset" /\ ~waits /\ ProcessUnparsedPairs(mem, bytes)
          \/ /\ cmd.type # "set" /\ (cmd.type \in {"del", "mset"} => waits)
             /\ UNCHANGED <<parsed, cmd>>
  /\ UNCHANGED message

----------------------------------------------------------------------------
(***************************************************************************)
(* Replies: ParseReply of Command and of MemcGetCommand                    *)
(***************************************************************************)

Parse(bytes, complete) ==
  /\ parsed' = parsed + bytes
  /\ cmd' = [cmd EXCEPT !.state = IF complete THEN "complete" ELSE @]
Refuse == cmd' = [cmd EXCEPT !.state = "error"] /\ UNCHANGED parsed

ParseRedisSimpleReply(mem, unparsed, n) ==
  LET b == Bulk(mem, 1, unparsed) IN
  IF unparsed = 0 THEN Parse(0, parsed = n)
  ELSE IF mem[1] \notin {Colon, Plus, Minus, Dollar} THEN Refuse
  ELSE IF ~Found(mem, 1, unparsed, {LF}) THEN Parse(0, FALSE)
  ELSE IF mem[1] # Dollar THEN Parse(Find(mem, 1, {LF}), TRUE)
  ELSE IF b.present_size < 0 THEN Refuse
  ELSE IF b.present_size = 0 THEN Parse(0, FALSE)
  ELSE Parse(b.total_size, completed(b))

ParseMemcSimpleReply(mem, unparsed) ==
  IF Found(mem, 1, unparsed, {LF}) THEN Parse(Find(mem, 1, {LF}), TRUE)
  ELSE Parse(0, FALSE)

\* MemcGetCommand::ParseReplyBodySize, of the line from at to before p: the
\* number behind the second blank, counted from the second byte of the key.
ParseReplyBodySize(at, p) ==
  LET blanks == {i \in (at + 7)..(p - 1) : message.bytes[i] = Space}
  IN IF Cardinality(blanks) < 2 THEN 0
     ELSE ToInt(message.bytes, Min(blanks \ {Min(blanks)}) + 1)

End == <<69, 78, 68, CR, LF>>

\* One round of the loop of MemcGetCommand::ParseReply.  Only the last backend
\* to reply keeps its END.
ParseEntry(s) ==
  LET entry == s.parsed + 1
      p == Find(message.bytes, entry, {LF})
  IN IF s.stop \/ s.received <= s.parsed THEN s
     ELSE IF ~Found(message.bytes, entry, s.received, {LF})
          THEN [s EXCEPT !.stop = TRUE]
     ELSE IF message.bytes[entry] = 86
          THEN [s EXCEPT !.parsed = p + ParseReplyBodySize(entry, p) + 2]
     ELSE IF SubSeq(message.bytes, entry, s.received) = End
          THEN [s EXCEPT !.stop = TRUE, !.state = "complete",
                         !.parsed = IF message.last THEN @ + Len(End) ELSE @,
                         !.received = IF message.last THEN @ ELSE @ - Len(End)]
     ELSE [s EXCEPT !.stop = TRUE, !.state = "error"]

\* MemcGetCommand::ParseReply.  Every round but the last passes a line end.
ParseValues(n) ==
  LET s == FoldLeft(LAMBDA r, i : ParseEntry(r),
                    [parsed |-> parsed, received |-> n, state |-> cmd.state,
                     stop |-> FALSE],
                    SelectSeq(SubSeq(message.bytes, parsed + 1, n), LAMBDA b : b = LF))
  IN /\ parsed' = s.parsed /\ received' = s.received
     /\ cmd' = [cmd EXCEPT !.state = s.state]

\* More of a reply is received.
HandleReplyRead(n, stale) ==
  /\ cmd.state = "reply" /\ n > received
  /\ \E mem \in {Memory(n, stale)} :
       LET unparsed == Max({n - parsed, 0}) IN
       \/ /\ message.role = "redis_reply"
          /\ received' = n /\ ParseRedisSimpleReply(mem, unparsed, n)
       \/ /\ message.role = "memc_reply"
          /\ received' = n /\ ParseMemcSimpleReply(mem, unparsed)
       \/ message.role = "memc_values" /\ ParseValues(n)
  /\ UNCHANGED message

Next ==
  \/ \E n \in DOMAIN message.bytes, stale \in Stale : HandleFirstRead(n, stale)
  \/ \E n \in DOMAIN message.bytes, stale \in Stale : HandleRead(n, stale)
  \/ \E n \in DOMAIN message.bytes, stale \in Stale : HandleReplyRead(n, stale)

Spec == Init /\ [][Next]_vars

----------------------------------------------------------------------------
(***************************************************************************)
(* Properties.  message.bulks says where the parts of the message are: its *)
(* bulks, its line with the body, or its VALUE blocks.  head is the last   *)
(* byte of a length or a line, end the last byte of the part.              *)
(***************************************************************************)

Heads(n) == Cardinality({k \in DOMAIN message.bulks : message.bulks[k].head <= n})
Wholes(n) == Cardinality({k \in DOMAIN message.bulks : message.bulks[k].end <= n})

\* The parts that can be taken once n bytes are there: those whose length is
\* known if it is the backend's business to wait for the rest, in pairs for
\* MSET, whole keys for DEL, and all or nothing for the others.
Takable(n) ==
  LET h == Heads(n) w == Wholes(n) IN
  CASE message.type = "set" -> IF w >= 2 THEN h ELSE 0
    [] message.type = "mset" -> IF h >= 3 THEN h - ((h + 1) % 2) ELSE 0
    [] message.type = "del" -> IF w >= 2 THEN w ELSE 0
    [] message.type \in {"get", "memcset", "memcbasic"} -> h
    [] OTHER -> IF w = Len(message.bulks) THEN w ELSE 0

QueryAsSent ==
  LET k == Takable(received) IN
  /\ (cmd.state = "query") <=> (k > 0)
  /\ k > 0 => /\ cmd.type = message.type
              /\ parsed = message.bulks[k].end
              /\ cmd.unparsed_bulks_ = Len(message.bulks) - k
              /\ cmd.keys = message.keys[k]
  /\ k = 0 => parsed = 0

\* A query is refused only if it is not one the proxy serves, or if half of
\* the buffer holds no line end.
RefusedRightly ==
  \/ message.type = "unserved"
  \/ /\ received > buffer_size \div 2
     /\ \A i \in 1..received : message.bytes[i] # LF

ReplyAsSent ==
  /\ cmd.state # "error"
  /\ cmd.state = "complete" =>
       received = parsed /\ parsed = message.size
  /\ cmd.state = "reply" =>
       /\ received < message.whole
       /\ parsed \in {0} \union {message.bulks[k].end : k \in 1..Heads(received)}
       /\ Heads(received) > 0 => parsed = message.bulks[Heads(received)].end

\* However the reads cut a message, and whatever lies behind the received
\* bytes, the code finds exactly what the sender has put there: a command is
\* made as soon as it can be, never later; keys, sizes and the number of bulks
\* to come are the ones sent; payloads with CR, LF or $ in them mislead
\* nothing, and no byte of the next query is taken.  A reply is complete
\* exactly when its last byte has come (CreateCommand, ProcessUnparsedPart,
\* ParseUnparsedPart, ParseReply).
ParsedAsSent ==
  IF message.role # "query" THEN ReplyAsSent
  ELSE IF cmd.state = "error" THEN RefusedRightly
  ELSE IF message.type = "unserved" THEN cmd.state = "none" /\ Wholes(received) = 0
  ELSE QueryAsSent
=============================================================================
