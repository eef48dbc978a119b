----------------------------- MODULE MCCiArray -----------------------------
EXTENDS CiArray
=============================================================================
