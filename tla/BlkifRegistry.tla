----------------------------- MODULE BlkifRegistry -----------------------------
(***************************************************************************)
(* What a tapdisk promises its control plane about block interfaces       *)
(* (spec: XENBLKIF_CONNECT / XENBLKIF_DISCONNECT): a set of connected     *)
(* (domid, devid) keys.  A connect of a connected key fails with EEXIST,   *)
(* a disconnect of an unknown key with ESRCH; a connect may fail for want *)
(* of resources and a disconnect may be refused while requests are in    *)
(* flight, and neither then changes the set.  last records the last call  *)
(* and its result, as the reply carries it.  A connect of an unknown key  *)
(* may instead kill the process (up becomes FALSE): no reply is sent, every*)
(* key is lost, and nothing is served afterwards.                         *)
(***************************************************************************)
CONSTANTS
  Keys,        \* (domid, devid) pairs
  NoKey,       \* key of the record before any call
  NoPool,      \* pool of the record before any call and of a disconnect
  Pools,       \* pool arguments a connect may carry
  ConnectErrs  \* errors a connect of an unknown key may fail with

VARIABLES connected, last, up

Reply(op, k, pool, err) == last' = [op |-> op, key |-> k, pool |-> pool, err |-> err]

Init ==
  /\ connected = {}
  /\ up = TRUE
  /\ last = [op |-> "none", key |-> NoKey, pool |-> NoPool, err |-> "ok"]

Connect(k, pool) ==
  \/ /\ k \in connected
     /\ Reply("connect", k, pool, "EEXIST")
     /\ UNCHANGED connected
  \/ /\ k \notin connected
     /\ connected' = connected \cup {k}
     /\ Reply("connect", k, pool, "ok")
  \/ /\ k \notin connected
     /\ \E e \in ConnectErrs : Reply("connect", k, pool, e)
     /\ UNCHANGED connected

\* A connect of an unknown key kills the process before it replies.
Crash(k) ==
  /\ k \notin connected
  /\ up' = FALSE
  /\ connected' = {}
  /\ UNCHANGED last

Disconnect(k) ==
  \/ /\ k \notin connected
     /\ Reply("disconnect", k, NoPool, "ESRCH")
     /\ UNCHANGED connected
  \/ /\ k \in connected
     /\ connected' = connected \ {k}
     /\ Reply("disconnect", k, NoPool, "ok")
  \/ /\ k \in connected
     /\ Reply("disconnect", k, NoPool, "EBUSY")
     /\ UNCHANGED connected

Next ==
  /\ up
  /\ \E k \in Keys :
       \/ \E pool \in Pools : Connect(k, pool) /\ UNCHANGED up
       \/ Disconnect(k) /\ UNCHANGED up
       \/ Crash(k)

Spec == Init /\ [][Next]_<<connected, last, up>>

=============================================================================
