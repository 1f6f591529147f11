------------------------------ MODULE MCEvmSigner ------------------------------
EXTENDS EvmSigner

CONSTANTS p1, p2, k1, k2
=============================================================================
