------------------------------- MODULE MCLayout -------------------------------
EXTENDS Layout, TLC

CONSTANTS bit, u32

Sizes == bit :> 1 @@ u32 :> 4
=============================================================================
