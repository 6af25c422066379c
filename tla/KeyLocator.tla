----------------------------- MODULE KeyLocator -----------------------------
(***************************************************************************)
(* The map from the namespaces of the configuration to the continuums of   *)
(* the clusters, and the lookup of a key (src/proxy/key_locator.cc).       *)
(*                                                                         *)
(* A namespace is looked up as <<protocol, name>>, the name being empty    *)
(* for the default namespace.  A key is abstracted to its protocol, what   *)
(* stands before its first colon ("" if there is none), the length of that *)
(* prefix and its hash.                                                    *)
(***************************************************************************)
EXTENDS KeyDistributer
LOCAL INSTANCE FiniteSetsExt
LOCAL INSTANCE Functions

CONSTANT max_namespace_length

ASSUME NamespaceLengthAssumption == max_namespace_length \in Nat \ {0}

ProtocolNs(protocol) ==
  CASE protocol = "memcached" -> "m"
    [] protocol = "redis" -> "r"
    [] OTHER -> ""

NamespaceName(ns) == IF ns = "_" THEN "" ELSE ns

\* Initialize: emplace keeps the first continuum of a namespace.
Initialize(clusters) ==
  LET Names(c) == {<<ProtocolNs(clusters[c].protocol), NamespaceName(ns)>> :
                     ns \in Range(clusters[c].namespaces)}
  IN [n \in UNION {Names(c) : c \in DOMAIN clusters} |->
        BuildCachePoints(
          clusters[Min({c \in DOMAIN clusters : n \in Names(c)})].backends)]

DefaultNamespace(protocol) ==
  IF protocol = "redis" THEN <<"0", "">> ELSE <<"1", "">>

KeyNamespace(key) ==
  <<ProtocolNs(key.protocol),
    IF key.prefix_length <= max_namespace_length THEN key.prefix ELSE "">>

\* namespace_continum_[DefaultNamespace()] makes an empty pointer for a
\* namespace that is not there, and the call through it ends the process:
\* "null".
Locate(namespace_continum, key) ==
  LET ns == IF KeyNamespace(key) \in DOMAIN namespace_continum
            THEN KeyNamespace(key) ELSE DefaultNamespace(key.protocol)
  IN IF ns \in DOMAIN namespace_continum
     THEN LocateCacheNode(namespace_continum[ns], key.hash)
     ELSE "null"
=============================================================================
