---------------------------- MODULE MCSessionTree ----------------------------
EXTENDS SessionTree
==============================================================================
