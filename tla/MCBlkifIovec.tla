---------------------------- MODULE MCBlkifIovec ----------------------------
EXTENDS BlkifIovec

MCMapFaults == {"map_fail"}
=============================================================================
