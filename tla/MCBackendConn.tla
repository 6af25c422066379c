--------------------------- MODULE MCBackendConn ----------------------------
EXTENDS BackendConn

\* A one-line reply, a bulk that fits the buffer, and one that does not.
MCReplies ==
  {[len |-> 1, head |-> 1], [len |-> 5, head |-> 2], [len |-> 13, head |-> 4]}
=============================================================================
