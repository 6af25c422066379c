---------------------------- MODULE FifoReplies -----------------------------
(***************************************************************************)
(* What a client may rely on when it pipelines its requests: they are      *)
(* taken in order, at most Limit at a time, and answered in that order,    *)
(* each with one complete reply, until the connection closes.  A reply is  *)
(* complete with a number of pieces in Sizes.                              *)
(***************************************************************************)
EXTENDS Naturals, Sequences

CONSTANTS Limit, Sizes

VARIABLES
  pending,   \* numbers of the requests taken and not yet answered
  done,      \* requests answered
  to, sent,  \* the request whose reply was delivered last, and how many
             \* pieces of that reply
  open

MaxSize == CHOOSE m \in Sizes : \A n \in Sizes : n <= m

vars == <<pending, done, to, sent, open>>

Init == pending = <<>> /\ done = 0 /\ to = 0 /\ sent = 0 /\ open = TRUE

\* Take n more requests behind the sequence p, or close.
TakeOrClose(p) ==
  \/ /\ open' = FALSE /\ pending' = <<>>
  \/ /\ open' = TRUE
     /\ \E n \in 0..(Limit - Len(p)) :
          pending' = p \o [k \in 1..n |-> done' + Len(p) + k]

Advance == TakeOrClose(pending) /\ UNCHANGED <<done, to, sent>>

\* n more pieces of the reply to the first request.
Pieces(n) ==
  /\ pending # <<>>
  /\ to' = Head(pending)
  /\ sent' = n + (IF to = Head(pending) THEN sent ELSE 0)

Deliver(n) == Pieces(n) /\ UNCHANGED <<pending, done, open>>

Complete(n) ==
  /\ Pieces(n) /\ sent' \in Sizes
  /\ done' = Head(pending)
  /\ TakeOrClose(Tail(pending))

Next == 
  /\ open
  /\ \/ Advance
     \/ \E n \in 1..MaxSize : Deliver(n)
     \/ \E n \in 1..MaxSize : Complete(n)

Spec == Init /\ [][Next]_vars
=============================================================================
