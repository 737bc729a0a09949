-------------------------- MODULE MCDevHostRegistry --------------------------
EXTENDS DevHostRegistry
=============================================================================
