---------------------------- MODULE MCXenblkifCtx ----------------------------
(* Model-checking instance of XenblkifCtx.                                 *)
EXTENDS XenblkifCtx, TLC

CONSTANTS k1, k2, k3, gold

MCKeys == {k1, k2, k3}
NoNamedPools == {}
GoldPool == {gold}
AllCtxFaults == {"open_fail", "map_fail", "bind_fail", "alloc_fail"}
\* No ring-page-order (one page), and 16 pages: more than a blkif can map.
MCRingOrders == {0, 4}
NoCtxFaults == {}

\* Blkifs are interchangeable: nothing in the code orders (domid, devid).
KeySymmetry == Permutations(MCKeys)
====
