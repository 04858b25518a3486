------------------------------ MODULE MCMalloc ------------------------------
EXTENDS Malloc

SmallLimits == <<1, 2>>
=============================================================================
