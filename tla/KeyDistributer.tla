--------------------------- MODULE KeyDistributer ---------------------------
(***************************************************************************)
(* The consistent-hash continuum of a cluster                              *)
(* (src/proxy/key_distributer.cc): every backend has as many points on the *)
(* circle as its weight, and a key belongs to the first point at or after  *)
(* the key's own hash, or to the first point of all.                       *)
(*                                                                         *)
(* doobs_hash is abstracted to the values it gives: PointHash[e][k] for    *)
(* the k-th point of endpoint e.  Points of several endpoints may have the *)
(* same hash; std::sort compares nothing else, and which of them comes     *)
(* first is unspecified.  Equal points of one endpoint count once.         *)
(***************************************************************************)
EXTENDS Naturals, Sequences, FiniteSets
LOCAL INSTANCE FiniteSetsExt
LOCAL INSTANCE TLC

CONSTANTS Endpoints, PointHash, NoEndpoint

\* The hashes are numbers.
ASSUME PointHashAssumption ==
  /\ NoEndpoint \notin Endpoints
  /\ \A e \in Endpoints : PointHash[e] \in Seq(Nat)

CachePoint == [hash_point : Nat, endpoint : Endpoints]

\* The constructor: the first weight given for an endpoint counts.
weighted_nodes(backends) ==
  [e \in {backends[i].endpoint : i \in DOMAIN backends} |->
     backends[Min({i \in DOMAIN backends : backends[i].endpoint = e})].weight]

\* All points, and then the sort by their hashes.
BuildCachePoints(backends) ==
  LET nodes == weighted_nodes(backends)
      points == UNION {{[hash_point |-> PointHash[e][k], endpoint |-> e] :
                          k \in 1..nodes[e]} : e \in DOMAIN nodes}
  IN SortSeq(FoldSet(LAMBDA p, s : Append(s, p), <<>>, points),
             LAMBDA p, q : p.hash_point < q.hash_point)

\* std::lower_bound: where the points at or after hash start.
IsLowerBound(cache_points, hash, i) ==
  /\ i \in DOMAIN cache_points
  /\ cache_points[i].hash_point >= hash
  /\ \A j \in DOMAIN cache_points : j < i => cache_points[j].hash_point < hash

\* Mutant of LocateCacheNode: the hash modulo the number of points.
LocateModulo(cache_points, hash) ==
  IF cache_points = <<>> THEN NoEndpoint
  ELSE cache_points[1 + (hash % Len(cache_points))].endpoint

LocateCacheNode(cache_points, hash) ==
  IF \E i \in DOMAIN cache_points : IsLowerBound(cache_points, hash, i)
  THEN cache_points[CHOOSE i \in DOMAIN cache_points :
                      IsLowerBound(cache_points, hash, i)].endpoint
  ELSE IF cache_points # <<>> THEN cache_points[1].endpoint ELSE NoEndpoint

-----------------------------------------------------------------------------

Sorted(cache_points) ==
  \A i, j \in DOMAIN cache_points :
    i < j => cache_points[i].hash_point <= cache_points[j].hash_point

PointsOf(cache_points) == {cache_points[i] : i \in DOMAIN cache_points}

\* The point that owns a hash: at the lower bound, or the first of all when
\* all are before the hash.
Owns(cache_points, hash, i) ==
  /\ i \in DOMAIN cache_points
  /\ LocateCacheNode(cache_points, hash) = cache_points[i].endpoint
  /\ \/ IsLowerBound(cache_points, hash, i)
     \/ /\ i = 1
        /\ \A j \in DOMAIN cache_points : cache_points[j].hash_point < hash

\* If two continuums send a hash to different endpoints, the point that owned
\* it is gone, the point that owns it now is new, or the two points are at the
\* same place, where the sort may put either first.
Explained(old, new, hash) ==
  \/ LocateCacheNode(old, hash) = LocateCacheNode(new, hash)
  \/ \E i \in DOMAIN old : Owns(old, hash, i) /\ old[i] \notin PointsOf(new)
  \/ \E j \in DOMAIN new : Owns(new, hash, j) /\ new[j] \notin PointsOf(old)
  \/ \E i \in DOMAIN old, j \in DOMAIN new :
       /\ Owns(old, hash, i) /\ Owns(new, hash, j)
       /\ old[i].endpoint # new[j].endpoint
       /\ old[i].hash_point = new[j].hash_point
=============================================================================
