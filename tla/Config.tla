------------------------------- MODULE Config -------------------------------
(***************************************************************************)
(* The configuration file (src/proxy/config.cc): the lines are applied one *)
(* by one in the context that "{" and "}" build up.  A file is a sequence  *)
(* of lines, a line a sequence of tokens.  A parser is [context, clusters, *)
(* ok, undefined]: context_ and clusters_ outlive a load, and a line that  *)
(* is refused ends it.                                                     *)
(*                                                                         *)
(* The global and worker directives that set one value each are "option"   *)
(* lines, those with a bad value or an unknown name are "bad" lines; a     *)
(* backend is bad if its address, port or weight is, which is weight 0.    *)
(***************************************************************************)
EXTENDS Naturals, Sequences

CONSTANT TooLong   \* the namespaces longer than max_namespace_length

\* A file that cannot be opened.
Unreadable == <<<<"unreadable">>>>

NewCluster == [protocol |-> "none", namespaces |-> <<>>, backends |-> <<>>]

Refuse(p) == [p EXCEPT !.ok = FALSE]
PushSubcontext(p, name) == [p EXCEPT !.context = Append(@, name)]
PopSubcontext(p) == [p EXCEPT !.context = SubSeq(@, 1, Len(@) - 1)]

ApplyGlobalTokens(p, tokens) ==
  CASE tokens = <<"option">> -> p
    [] tokens = <<"cluster", "{">> ->
         PushSubcontext([p EXCEPT !.clusters = Append(@, NewCluster)], "cluster")
    [] tokens = <<"worker", "{">> -> PushSubcontext(p, "worker")
    [] OTHER -> Refuse(p)

ApplyWorkerTokens(p, tokens) ==
  CASE tokens = <<"}">> -> PopSubcontext(p)
    [] tokens = <<"option">> -> p
    [] OTHER -> Refuse(p)

\* clusters_.back() is changed.  It is undefined where a reload has emptied
\* clusters_ and goes on in the cluster that an earlier load has not closed;
\* whatever the build makes of it, the model follows the load no further.
Back(p) == p.clusters[Len(p.clusters)]
UpdateBack(p, cluster) ==
  IF p.clusters = <<>> THEN [p EXCEPT !.ok = FALSE, !.undefined = TRUE]
  ELSE [p EXCEPT !.clusters[Len(p.clusters)] = cluster]

ApplyClusterTokens(p, tokens) ==
  CASE tokens = <<"}">> -> PopSubcontext(p)
    [] tokens[1] = "protocol" /\ Len(tokens) = 2 ->
         IF tokens[2] \in {"redis", "memcached"}
         THEN UpdateBack(p, [Back(p) EXCEPT !.protocol = tokens[2]])
         ELSE Refuse(p)
    [] tokens[1] = "namespace" /\ Len(tokens) >= 2 ->
         IF \E i \in 2..Len(tokens) : tokens[i] \in TooLong THEN Refuse(p)
         ELSE UpdateBack(p, [Back(p) EXCEPT !.namespaces = @ \o Tail(tokens)])
    [] tokens = <<"backends", "{">> -> PushSubcontext(p, "backends")
    [] tokens[1] = "backend" /\ Len(tokens) = 3 ->
         IF p.context = <<"cluster", "backends">> /\ tokens[3] > 0
         THEN UpdateBack(p, [Back(p) EXCEPT !.backends =
                Append(@, [endpoint |-> tokens[2], weight |-> tokens[3]])])
         ELSE Refuse(p)
    [] OTHER -> Refuse(p)

InCluster(context) == context # <<>> /\ context[1] = "cluster"

ApplyTokens(p, tokens) ==
  CASE p.context = <<>> -> ApplyGlobalTokens(p, tokens)
    [] InCluster(p.context) -> ApplyClusterTokens(p, tokens)
    [] p.context = <<"worker">> -> ApplyWorkerTokens(p, tokens)
    [] OTHER -> Refuse(p)

\* Mutant of ReloadTokens: the context is compared with all of "/cluster".
ReloadTokensShallow(p, tokens) ==
  IF tokens[1] # "cluster" /\ p.context # <<"cluster">>
  THEN p ELSE ApplyTokens(p, tokens)

\* Mutant of ReloadTokens: lines that no cluster knows are passed over.
ReloadTokensLax(p, tokens) ==
  IF IF p.context = <<>> THEN tokens[1] # "cluster"
     ELSE \/ ~InCluster(p.context)
          \/ tokens[1] \notin {"}", "protocol", "namespace", "backends", "backend"}
  THEN p ELSE ApplyTokens(p, tokens)

\* The handler of ReloadCulsters: only clusters are looked at.
ReloadTokens(p, tokens) ==
  IF IF p.context = <<>> THEN tokens[1] # "cluster" ELSE ~InCluster(p.context)
  THEN p ELSE ApplyTokens(p, tokens)

\* The lines go to a handler: that of Initialize or, for a reload, the one
\* that passes over everything but clusters.
TraverseConfFile(p, file, reload) ==
  LET Handler(q, tokens) ==
        IF reload THEN ReloadTokens(q, tokens) ELSE ApplyTokens(q, tokens)
      after[i \in 0..Len(file)] ==
        IF i = 0 THEN p
        ELSE LET q == after[i - 1] IN IF q.ok THEN Handler(q, file[i]) ELSE q
  IN IF file = Unreadable THEN Refuse(p) ELSE after[Len(file)]

\* Config::Initialize, on a new Config.
InitializeConfig(file) ==
  TraverseConfFile([context |-> <<>>, clusters |-> <<>>, ok |-> TRUE,
                    undefined |-> FALSE], file, FALSE)

\* Mutant of Cleared: the clusters of the last load stay.
Kept(clusters) == clusters

\* The first step of ReloadCulsters.
Cleared(clusters) == <<>>

\* What ReloadCulsters makes of a file in the context that the last load has
\* left.
ReloadCulsters(context, file) ==
  TraverseConfFile([context |-> context, clusters |-> <<>>, ok |-> TRUE,
                    undefined |-> FALSE], file, TRUE)
=============================================================================
