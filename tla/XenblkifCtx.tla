------------------------------ MODULE XenblkifCtx ------------------------------
(***************************************************************************)
(* The life cycle of block interfaces and of the transport contexts they  *)
(* share inside one tapdisk process (tapdisk-xenblkif.c, xenio-blkif.c    *)
(* connect/disconnect).                                                    *)
(*                                                                         *)
(* A context (td_xenio_ctx) owns a xenio handle pair and the scheduler    *)
(* event polling its event-channel fd; it is found by pool name.  A blkif *)
(* is identified by (domid, devid), a member of Keys.  XENBLKIF_CONNECT   *)
(* and XENBLKIF_DISCONNECT control messages are handled one at a time by  *)
(* the single-threaded server, so each is one step.  The request traffic  *)
(* of a connected blkif (module XenBlkif) is abstracted to whether some    *)
(* request is in flight (n_reqs_free # ring_size).                         *)
(***************************************************************************)
EXTENDS Integers, Sequences, FiniteSetsExt, Functions

CONSTANTS
  Keys,         \* (domid, devid) pairs the control plane may name
  NamedPools,   \* pool names other than the default one
  DefaultPool,  \* TD_XENBLKIF_DEFAULT_POOL
  NullPool,     \* the pool argument is NULL
  EmptyPool,    \* the pool argument is ""
  MaxHandles,   \* bound: xenio contexts the process can hold open (fds)
  RingOrders,   \* ring-page-order values a connect may carry
  Faults        \* subset of {"open_fail", "map_fail", "bind_fail", "alloc_fail"}

PoolArgs == NamedPools \cup {DefaultPool, NullPool, EmptyPool}
CtxIds == 1 .. MaxHandles + 1          \* td_xenio_ctx_t allocations
NoCtx == 0

ASSUME MaxHandles \in Nat \ {0}
ASSUME RingOrders \subseteq Nat

\* ARRAY_SIZE(blkif->ring_ref): the ring pages a xenio blkif can map.
MaxRingPages == 8

Errors == {"ok", "EINVAL", "EEXIST", "ESRCH", "EBUSY", "EMFILE", "EFAULT", "ENOMEM"}

VARIABLES
  ctxs,       \* [list: _td_xenio_ctxs in order, pool: ctx->pool, open: handles held]
  ctxBlkifs,  \* ctxBlkifs[c]: the blkifs on ctx->blkifs
  xenioIfs,   \* xenioIfs[c]: the xenio blkifs on ctx->xenio->ifs (port lookup)
  blkCtx,     \* blkCtx[k]: the ctx of the connected blkif k, or NoCtx
  busy,       \* busy[k]: blkif k has requests in flight
  last,       \* the last control call and its result
  grants,     \* grants[c]: the blkifs whose ring pages c's gnttab handle maps
  ports,      \* ports[c]: the blkifs whose event port c's evtchn handle binds
  alive       \* the tapdisk process is running

vars == <<ctxs, ctxBlkifs, xenioIfs, blkCtx, busy, last, grants, ports, alive>>

-----------------------------------------------------------------------------
(* Contexts.                                                               *)

\* Mutant: ctx_close forgets to unlink the context.
CtxCloseKeepListed(w, c) == [w EXCEPT !.open = @ \ {c}]

\* tapdisk_xenio_ctx_close: unregister the event, xenio_close, unlink.
CtxClose(w, c) ==
  [w EXCEPT !.list = SelectSeq(@, LAMBDA x : x # c), !.open = @ \ {c}]

\* The name tapdisk_xenio_ctx_open records for a new context.  The code
\* stores TD_XENBLKIF_DEFAULT_POOL whatever pool was asked for.
CtxPoolName(pool) == DefaultPool

\* tapdisk_xenio_ctx_open: <<contexts after, result>> for each outcome.
\* The context is linked at the head before xenio_open; a failure of
\* xenio_open (or of registering its fd) unlinks it again.
CtxOpen(w, pool) ==
  LET c      == Min(CtxIds \ Range(w.list))
      linked == [list |-> <<c>> \o w.list,
                 pool |-> [w.pool EXCEPT ![c] = CtxPoolName(pool)],
                 open |-> w.open \cup {c}]
      full   == Cardinality(w.open) >= MaxHandles
  IN  IF pool = EmptyPool THEN {[w |-> w, err |-> "EINVAL"]}
      ELSE (IF full THEN {[w |-> w, err |-> "EMFILE"]}
            ELSE {[w |-> linked, err |-> "ok"]})
           \cup (IF "open_fail" \in Faults
                 THEN {[w |-> w, err |-> "EMFILE"]} ELSE {})

\* __td_xenio_ctx_match: NULL stands for the default pool.
CtxMatch(w, c, pool) ==
  IF pool = NullPool THEN w.pool[c] = DefaultPool ELSE w.pool[c] = pool

\* tapdisk_xenio_find_ctx: the first matching context from the head.
FindCtx(w, pool) ==
  LET hits == {i \in DOMAIN w.list : CtxMatch(w, w.list[i], pool)}
  IN  IF hits = {} THEN NoCtx ELSE w.list[Min(hits)]

\* tapdisk_xenio_ctx_get: look up, else open and look up again, until the
\* lookup succeeds or an open fails.
RECURSIVE CtxGet(_, _)
CtxGet(w, pool) ==
  IF FindCtx(w, pool) # NoCtx
  THEN {[w |-> w, ctx |-> FindCtx(w, pool), err |-> "ok"]}
  ELSE UNION {IF o.err = "ok" THEN CtxGet(o.w, pool)
              ELSE {[w |-> o.w, ctx |-> NoCtx, err |-> o.err]}
              : o \in CtxOpen(w, pool)}

\* Mutant: ctx_put closes the context whether or not blkifs remain.
CtxPutAlways(w, remaining, c) == CtxClose(w, c)

\* tapdisk_xenio_ctx_put: close the context once its blkif list is empty.
CtxPut(w, remaining, c) == IF remaining = {} THEN CtxClose(w, c) ELSE w

-----------------------------------------------------------------------------
(* xenio blkifs (xenio-blkif.c): what a blkif holds through its context's  *)
(* handles, a subset of {"ring", "port"}.                                  *)

\* Mutant: disconnect unbinds the port but leaves the ring mapped.
XenioBlkifDisconnectKeepRing(held) == held \ {"port"}

\* xenio_blkif_disconnect of a blkif still on its context: unlink from
\* ctx->ifs, evt_unbind, ring_unmap, free.
XenioBlkifDisconnect(held) == held \ {"port", "ring"}

\* xenio_blkif_ring_map: more than MaxRingPages pages are refused before
\* anything is mapped; the grant map may fail.  (The ABI switch after the
\* map cannot fail: xenio_blkif_connect checked the ABI.)
RingMapResults(order) ==
  IF 2^order > MaxRingPages THEN {"EINVAL"}
  ELSE {"ok"} \cup (IF "map_fail" \in Faults THEN {"EFAULT"} ELSE {})

\* xenio_blkif_evt_bind: xc_evtchn_bind_interdomain may fail.
EvtBindResults == {"ok"} \cup (IF "bind_fail" \in Faults THEN {"EFAULT"} ELSE {})

\* xenio_blkif_connect with ring order `order': its error, and whether the
\* process dies in it.  The broker only sends the ABIs
\* blkback_read_otherend_proto accepts, so the ABI check passes.  A failed
\* calloc returns ENOMEM with nothing to clean up.  A failure of ring_map or
\* evt_bind sets blkif->ctx = NULL and calls xenio_blkif_disconnect, whose
\* evt_unbind tests the unsigned port >= 0 (always true) and reads
\* ctx->xce_handle through the NULL ctx: tapdisk is killed by SIGSEGV
\* before it can reply.
XenioBlkifConnect(order) ==
  (IF "alloc_fail" \in Faults THEN {[err |-> "ENOMEM", crash |-> FALSE]} ELSE {})
  \cup { [err |-> IF m # "ok" THEN m ELSE e, crash |-> m # "ok" \/ e # "ok"]
         : m \in RingMapResults(order), e \in EvtBindResults }

\* Outcome of tapdisk_xenblkif_reqs_init.
ReqsInitResults == {"ok"} \cup (IF "alloc_fail" \in Faults THEN {"ENOMEM"} ELSE {})

\* xenio_pending_blkif on context c when k's port is pending: the blkifs
\* on ctx->ifs bound to that port (found, its port is unmasked), or none.
PendingBlkif(c, k) == {b \in xenioIfs[c] : b = k}

-----------------------------------------------------------------------------

\* A tapdisk process with no context and no blkif.
NoCtxs == [list |-> <<>>, pool |-> [c \in CtxIds |-> NullPool], open |-> {}]
NoneByCtx == [c \in CtxIds |-> {}]

Init ==
  /\ ctxs = NoCtxs
  /\ ctxBlkifs = NoneByCtx /\ xenioIfs = NoneByCtx
  /\ blkCtx = [k \in Keys |-> NoCtx]
  /\ busy = [k \in Keys |-> FALSE]
  /\ grants = NoneByCtx /\ ports = NoneByCtx
  /\ alive = TRUE
  /\ last = [op |-> "none", key |-> NoCtx, pool |-> NullPool, err |-> "ok"]

\* The process is killed: its memory is gone, and its exit closes the
\* gnttab and evtchn handles, which unmaps every ring and unbinds every
\* port.  No reply is sent.
Die ==
  /\ alive' = FALSE
  /\ ctxs' = NoCtxs
  /\ ctxBlkifs' = NoneByCtx /\ xenioIfs' = NoneByCtx
  /\ blkCtx' = [k \in Keys |-> NoCtx]
  /\ busy' = [k \in Keys |-> FALSE]
  /\ grants' = NoneByCtx /\ ports' = NoneByCtx
  /\ UNCHANGED last

Record(op, k, pool, err) ==
  last' = [op |-> op, key |-> k, pool |-> pool, err |-> err]

\* What the handles of c hold for k once k's xenio blkif is gone, leaving
\* `left'.
Release(h, k, c, left, r) == [h EXCEPT ![c] = (@ \ {k}) \cup (IF r \in left THEN {k} ELSE {})]

Destroy(k, c, w, left) ==
  /\ grants' = Release(grants, k, c, left, "ring")
  /\ ports' = Release(ports, k, c, left, "port")
  /\ xenioIfs' = [xenioIfs EXCEPT ![c] = @ \ {k}]
  /\ ctxBlkifs' = [ctxBlkifs EXCEPT ![c] = @ \ {k}]
  /\ ctxs' = CtxPut(w, ctxBlkifs[c] \ {k}, c)
  /\ blkCtx' = [blkCtx EXCEPT ![k] = NoCtx]
  /\ busy' = [busy EXCEPT ![k] = FALSE]

\* Mutant: the lookup never finds a blkif.
BlkifFindNone(k) == NoCtx

\* tapdisk_xenblkif_find: the context of the connected blkif k, or NoCtx.
BlkifFind(k) == blkCtx[k]

\* tapdisk_xenblkif_connect: the blkif joins its context's list before
\* xenio_blkif_connect; on a failure reported back, tapdisk_xenblkif_destroy
\* undoes what was done (the xenio blkif only if it was connected).
Connect(k, pool) ==
  /\ alive
  /\ \/ /\ BlkifFind(k) # NoCtx
        /\ Record("connect", k, pool, "EEXIST")
        /\ UNCHANGED <<ctxs, ctxBlkifs, xenioIfs, blkCtx, busy, grants, ports, alive>>
     \/ /\ BlkifFind(k) = NoCtx
        /\ \E o \in CtxGet(ctxs, pool) :
             \/ /\ o.err # "ok"
                /\ ctxs' = o.w
                /\ Record("connect", k, pool, o.err)
                /\ UNCHANGED <<ctxBlkifs, xenioIfs, blkCtx, busy, grants, ports, alive>>
             \/ /\ o.err = "ok"
                /\ \E order \in RingOrders, r \in ReqsInitResults :
                   \E x \in XenioBlkifConnect(order) :
                     LET c == o.ctx IN
                     \/ /\ x.crash
                        /\ Die
                     \/ /\ ~x.crash /\ x.err # "ok"
                        /\ Destroy(k, c, o.w, {})
                        /\ Record("connect", k, pool, x.err)
                        /\ UNCHANGED alive
                     \/ /\ x.err = "ok" /\ r # "ok"
                        /\ Destroy(k, c, o.w, XenioBlkifDisconnect({"ring", "port"}))
                        /\ Record("connect", k, pool, r)
                        /\ UNCHANGED alive
                     \/ /\ x.err = "ok" /\ r = "ok"
                        /\ ctxs' = o.w
                        /\ grants' = [grants EXCEPT ![c] = @ \cup {k}]
                        /\ ports' = [ports EXCEPT ![c] = @ \cup {k}]
                        /\ ctxBlkifs' = [ctxBlkifs EXCEPT ![c] = @ \cup {k}]
                        /\ xenioIfs' = [xenioIfs EXCEPT ![c] = @ \cup {k}]
                        /\ blkCtx' = [blkCtx EXCEPT ![k] = c]
                        /\ Record("connect", k, pool, "ok")
                        /\ UNCHANGED <<busy, alive>>

\* tapdisk_xenblkif_disconnect.
Disconnect(k) ==
  /\ alive
  /\ \/ /\ BlkifFind(k) = NoCtx
        /\ Record("disconnect", k, NullPool, "ESRCH")
        /\ UNCHANGED <<ctxs, ctxBlkifs, xenioIfs, blkCtx, busy, grants, ports>>
     \/ /\ BlkifFind(k) # NoCtx
        /\ busy[k]
        /\ Record("disconnect", k, NullPool, "EBUSY")
        /\ UNCHANGED <<ctxs, ctxBlkifs, xenioIfs, blkCtx, busy, grants, ports>>
     \/ /\ BlkifFind(k) # NoCtx
        /\ ~busy[k]
        /\ Destroy(k, BlkifFind(k), ctxs, XenioBlkifDisconnect({"ring", "port"}))
        /\ Record("disconnect", k, NullPool, "ok")
  /\ UNCHANGED alive

\* The guest's requests take slots of a connected blkif, and are answered.
RequestsInFlight(k, b) ==
  /\ alive
  /\ blkCtx[k] # NoCtx
  /\ busy' = [busy EXCEPT ![k] = b]
  /\ UNCHANGED <<ctxs, ctxBlkifs, xenioIfs, blkCtx, last, grants, ports, alive>>

\* A dead tapdisk takes no further step: nothing in this repository
\* restarts it.
Next ==
  \/ \E k \in Keys, pool \in PoolArgs : Connect(k, pool)
  \/ \E k \in Keys : Disconnect(k)
  \/ \E k \in Keys, b \in BOOLEAN : RequestsInFlight(k, b)

Spec == Init /\ [][Next]_vars

-----------------------------------------------------------------------------
(* Properties.                                                             *)

\* Contexts and blkifs are well formed: the context list has no repeats and
\* holds only contexts with open handles, at most MaxHandles of them.
TypeOK ==
  /\ ctxs.list \in Seq(CtxIds) /\ IsInjective(ctxs.list)
  /\ Range(ctxs.list) \subseteq ctxs.open
  /\ ctxs.open \subseteq CtxIds /\ Cardinality(ctxs.open) <= MaxHandles
  /\ ctxBlkifs \in [CtxIds -> SUBSET Keys]
  /\ xenioIfs \in [CtxIds -> SUBSET Keys]
  /\ blkCtx \in [Keys -> CtxIds \cup {NoCtx}]
  /\ busy \in [Keys -> BOOLEAN]
  /\ last.err \in Errors
  /\ grants \in [CtxIds -> SUBSET Keys] /\ ports \in [CtxIds -> SUBSET Keys]
  /\ alive \in BOOLEAN

\* Every connected blkif can be woken: its context is listed, its fd is
\* polled, and xenio_pending_blkif finds it by its port in the context's
\* ifs list -- through any sequence of connects, failed connects and
\* disconnects of blkifs sharing the context.
Deliverable ==
  \A k \in Keys : blkCtx[k] # NoCtx =>
    LET c == blkCtx[k]
    IN  /\ c \in Range(ctxs.list) /\ c \in ctxs.open
        /\ PendingBlkif(c, k) = {k} /\ k \in ctxBlkifs[c]

HeldByListed ==
  \A c \in CtxIds : grants[c] = xenioIfs[c] /\ ports[c] = xenioIfs[c]

-----------------------------------------------------------------------------
(* Refinement: the connect/disconnect handlers implement the registry of   *)
(* module BlkifRegistry.  A key is connected when it has a context; the     *)
(* request traffic (RequestsInFlight) is a stutter of the registry.        *)

Reg == INSTANCE BlkifRegistry
         WITH connected   <- {k \in Keys : blkCtx[k] # NoCtx},
              last        <- last,
              up          <- alive,
              NoKey       <- NoCtx,
              NoPool      <- NullPool,
              Pools       <- PoolArgs,
              ConnectErrs <- {"EINVAL", "EMFILE", "ENOMEM"}

\* Every reply of XENBLKIF_CONNECT / XENBLKIF_DISCONNECT is one the registry
\* allows for the set of blkifs connected at that moment (EEXIST exactly
\* for a connected key, ESRCH exactly for an unknown one); a connect that
\* replies with an error -- whose tapdisk_xenblkif_destroy tears down a
\* half-built blkif on a shared context -- leaves the other blkifs
\* connected; and blkifs are lost without a disconnect only when the
\* process dies in xenio_blkif_connect's cleanup, which loses all of them.
Registry == Reg!Spec

=============================================================================
