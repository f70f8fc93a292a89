------------------------------ MODULE MCUpgrader ------------------------------
EXTENDS Upgrader

\* An outbound dial with a peer ID, and one without.
MCPeers == {"", "p1"}
=============================================================================
