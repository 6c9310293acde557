-------------------------- MODULE MCKeeperProcess ---------------------------
EXTENDS KeeperProcess

CONSTANTS p1, p2, e1
=============================================================================
