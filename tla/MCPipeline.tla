----------------------------- MODULE MCPipeline -----------------------------
(***************************************************************************)
(* Scripts of module Pipeline for TLC.                                     *)
(***************************************************************************)
EXTENDS Pipeline

Line(k, n) == [kind |-> k, nl |-> n, head |-> n, bulks |-> <<>>]
Array(k, n) == [kind |-> k, nl |-> 1, head |-> n, bulks |-> <<>>]

\* SET with a value that ends at byte n, found from its header's last byte.
SetTo(n) == [kind |-> "set", nl |-> 1, head |-> 2,
             bulks |-> <<[hdr |-> 3, end |-> n]>>]
MemcSet(n) == [kind |-> "memcset", nl |-> 2, head |-> 2,
               bulks |-> <<[hdr |-> 2, end |-> n]>>]

\* Requests whose head is at most a third of the buffer.
SmallHeads ==
  {<<Array("basic", 2), SetTo(5), Array("basic", 3)>>,
   <<SetTo(12), Array("stats", 2), Array("basic", 2)>>,
   <<Array("basic", 1), Array("basic", 1), SetTo(6), Array("basic", 1)>>,
   <<Line("stats", 2), MemcSet(8), Line("basic", 2)>>,
   <<MemcSet(4), Line("reject", 2), Line("basic", 2)>>,
   <<Array("basic", 2), Array("error", 2), Array("basic", 2)>>,
   <<SetTo(5), SetTo(6), Array("basic", 1), SetTo(4)>>,
   <<Array("stats", 1), SetTo(9), Array("stats", 1), Array("basic", 2)>>,
   <<MemcSet(6), MemcSet(9), Line("stats", 1), Line("error", 2)>>,
   <<Line("basic", 8)>>}

\* A SET whose value header takes three bytes.
LongHeader ==
  {<<[kind |-> "set", nl |-> 1, head |-> 2,
      bulks |-> <<[hdr |-> 5, end |-> 7]>>]>>}

\* A command that must be complete and needs more than a third.
LongHead == {<<Array("basic", 3), Array("basic", 5)>>}

OneSet == {<<SetTo(6)>>}

AtRequestEnds(s) == {Start(i) : i \in 1..(Len(s) + 1)}
Anywhere(s) == 0..Total
Never(s) == {}
=============================================================================
