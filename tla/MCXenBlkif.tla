------------------------------ MODULE MCXenBlkif ------------------------------
(* Model-checking instance of XenBlkif: small rings, a few requests.       *)
EXTENDS XenBlkif

\* RING_IDX is a 32-bit unsigned counter; any modulus far above the indices
\* reached behaves the same for the differences the ring macros take.
MCIdxMod == 1024

\* The connection has carried all but two of the 2^32 indices: every index
\* wraps to 0 within the first requests of the behaviour.
MCStartIdx == MCIdxMod - 2

\* Failure sets for the runs.
NoFaults == {}
AllFaults == FaultKinds
====
