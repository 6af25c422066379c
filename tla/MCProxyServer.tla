--------------------------- MODULE MCProxyServer ---------------------------
EXTENDS ProxyServer

\* Two points are at the same place.
MCPointHash == [b1 |-> <<2, 7>>, b2 |-> <<4, 9>>, b3 |-> <<4, 1>>]

\* Two clusters, and the options that a reload passes over.
ClusterOf(protocol, namespaces, backends) ==
  <<<<"cluster", "{">>, <<"protocol", protocol>>,
    <<"namespace">> \o namespaces, <<"backends", "{">>>>
    \o backends \o <<<<"}">>, <<"}">>>>

Options == <<<<"option">>, <<"worker", "{">>, <<"option">>, <<"}">>>>
Memcached == ClusterOf("memcached", <<"_">>, <<<<"backend", "b3", 1>>>>)

Before == Options \o
  ClusterOf("redis", <<"_", "u">>, <<<<"backend", "b1", 2>>, <<"backend", "b2", 1>>>>)
  \o Memcached

\* A restart would refuse the first line; a reload does not look at it.  One
\* backend gets a second point, another is added, and a namespace gets a
\* cluster of its own.
BadOption == <<<<"bad">>>> \o Options \o
  ClusterOf("redis", <<"_">>, <<<<"backend", "b1", 1>>, <<"backend", "b2", 2>>,
                                <<"backend", "b3", 1>>>>)
  \o ClusterOf("redis", <<"u", "_">>, <<<<"backend", "b2", 1>>>>) \o Memcached

\* Refused outside of every cluster, without or after clusters.
BadCluster == Memcached \o <<<<"cluster">>>>

NoCluster == Options

\* Refused inside of a cluster, or of its backends.
BadNamespace == ClusterOf("redis", <<"long">>, <<>>) \o Memcached
BadBackend == ClusterOf("redis", <<"_">>, <<<<"backend", "b1", 0>>>>)

\* The last block is not closed, which a start does not mind.
OpenWorker ==
  ClusterOf("redis", <<"_", "u">>, <<<<"backend", "b2", 2>>>>)
  \o Memcached \o <<<<"worker", "{">>>>

\* The first line of a cluster has been lost.
Headless == Tail(Memcached)

MCFiles == {Before, BadOption, BadCluster, NoCluster, Unreadable,
            BadNamespace, BadBackend, OpenWorker, Headless}
MCFilesInside == {Before, BadNamespace}

Key(protocol, prefix, prefix_length, hash) ==
  [protocol |-> protocol, prefix |-> prefix, prefix_length |-> prefix_length,
   hash |-> hash]

MCKeys ==
  {Key("redis", "", 0, h) : h \in {0, 3, 4, 8}}
    \cup {Key("redis", "u", 1, 8), Key("redis", "long", 4, 7),
          Key("memcached", "", 0, 6)}

\* A key with a prefix that no cluster names.
MCKeysOther == {Key("redis", "", 0, 3), Key("redis", "v", 1, 3)}
=============================================================================
