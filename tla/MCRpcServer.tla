---------------------------- MODULE MCRpcServer ----------------------------
\* One link and one HTTP request for TLC, under a server that asks for a token
\* and refuses writes, and under one that does neither.
EXTENDS RpcServer

MCConfigs ==
    {[token |-> TRUE, restricted |-> TRUE, urlImport |-> TRUE],
     [token |-> FALSE, restricted |-> FALSE, urlImport |-> FALSE]}
=============================================================================
