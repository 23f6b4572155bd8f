-------------------------- MODULE MCRaftTransport ---------------------------
EXTENDS RaftTransport
CONSTANTS s, p, q, r
MCMsg == {<<p, 1>>, <<p, 2>>}
MCDevices == <<s>>
=============================================================================
