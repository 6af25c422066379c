---------------------------- MODULE MCRedisMset -----------------------------
(***************************************************************************)
(* Queries of module RedisMset for TLC.                                    *)
(***************************************************************************)
EXTENDS RedisMset

\* One pair, two backends in turn, and a tail whose backend has other pairs.
MCQueries == {<<"a">>, <<"a", "b">>, <<"a", "b", "a">>}
=============================================================================
