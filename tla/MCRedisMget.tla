---------------------------- MODULE MCRedisMget -----------------------------
(***************************************************************************)
(* Instances of module RedisMget for TLC.                                  *)
(***************************************************************************)
EXTENDS RedisMget

\* Runs of one and two keys, and backends that come up again.
MCQueries ==
  {<<"a">>, <<"a", "a", "b">>, <<"a", "b", "a">>, <<"b", "a", "a", "b">>,
   <<"a", "b", "c">>}

\* A read ends inside a bulk, or after the header.
InsideBulks(n) == {1} \cup {2 * k : k \in 1..n}

\* A read ends anywhere.
Anywhere(n) == 1..(2 * n + 1)
=============================================================================
