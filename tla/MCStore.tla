------------------------------ MODULE MCStore ------------------------------
EXTENDS Store
=============================================================================
