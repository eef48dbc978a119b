------------------------------ MODULE MCTgMem ------------------------------
EXTENDS TgMem
=============================================================================
