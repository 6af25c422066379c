----------------------------- MODULE MCRedisDel -----------------------------
(***************************************************************************)
(* Queries of module RedisDel for TLC.                                     *)
(***************************************************************************)
EXTENDS RedisDel

\* One key, two backends in turn, and a backend whose keys come in
\* different reads.
MCQueries == {<<"a">>, <<"a", "b">>, <<"a", "a", "b">>, <<"a", "b", "a", "b">>}
=============================================================================
