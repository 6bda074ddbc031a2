------------------------------- MODULE XenBlkif -------------------------------
(***************************************************************************)
(* One connected block interface of a tapdisk worker: the shared request  *)
(* ring it consumes (xenio-blkif.c), the request slots, ring-event and     *)
(* completion handling of tapdisk-xenblkif.c, and the environment it      *)
(* talks to: the guest frontend on the other side of the ring and the     *)
(* VBD request engine that accepts and completes requests.                 *)
(*                                                                         *)
(* The worker is single threaded: the scheduler runs the ring-event       *)
(* callback and the VBD completion callbacks one at a time, and one       *)
(* iteration of the queue_requests loop is one step.  The guest runs in   *)
(* another domain, so its steps interleave with every backend step.       *)
(*                                                                         *)
(* Ring indices are RING_IDX values, unsigned and wrapping: arithmetic on *)
(* them is done modulo IdxMod, which stands for 2^32 (TLC integers are    *)
(* 32-bit signed).  The connection starts idle at index StartIdx, as after *)
(* StartIdx requests answered; the request written at position i (index  *)
(* StartIdx + i) carries id i.                                             *)
(***************************************************************************)
EXTENDS Integers, FiniteSetsExt, Functions

CONSTANTS
  RingSize,     \* RING_SIZE of the mapped shared ring
  MaxReqs,      \* bound: requests the guest frontend writes in a behaviour
  GuestDepth,   \* most requests the frontend keeps outstanding
  GuestHonest,  \* FALSE: the frontend may publish past a full ring
  Faults,       \* failures the environment may produce, a subset of FaultKinds
  IdxMod,       \* modulus of RING_IDX arithmetic
  StartIdx      \* the ring indices when the behaviour starts

FaultKinds == {"bad_seg", "bad_op", "map_fail", "vbd_busy"}

ASSUME
  /\ RingSize \in Nat \ {0}
  /\ MaxReqs \in Nat \ {0}
  /\ GuestDepth \in 1 .. RingSize
  /\ GuestHonest \in BOOLEAN
  /\ Faults \subseteq FaultKinds
  /\ IdxMod \in Nat /\ IdxMod > 4 * (MaxReqs + RingSize)
  /\ StartIdx \in 0 .. IdxMod - 1

Slots == 0 .. RingSize - 1          \* td_xenblkif_req_t reqs[ring_size]
Ids == 0 .. MaxReqs - 1             \* positions since StartIdx, and request ids
RspPos == 0 .. MaxReqs              \* response positions (one spare)

\* What a request written by the frontend decodes to: a well-formed read or
\* write, a segment the parser rejects, or an operation that is neither.
ReqKinds == {"rw"} \cup (Faults \cap {"bad_seg", "bad_op"})

NoReq == "none"      \* kind of a ring entry not yet written
NoId == -1          \* id of a response or slot not yet written

VARIABLES
  \* shared ring page (struct blkif_sring) and frontend-private index
  reqProdPvt, reqProd, reqEvent, rspProd, rspEvent, rspCons,
  reqKind,      \* reqKind[i]: decoded kind of the request at position i
  rspLog,       \* rspLog[j]: id carried by the response at position j
  \* event channel: pending towards the backend / towards the frontend
  evtBack, evtFront,
  \* blkif_back_ring_t private indices
  reqCons, rspProdPvt,
  \* td_xenblkif request slots: n_reqs_free, reqs_free[], per-slot state
  nFree, reqsFree, slotMsg, mapped,
  \* slots whose VBD request the engine has accepted and not completed
  vbd,
  \* the worker: idle in the scheduler, or inside queue_requests
  bpc, qbase, qi, qn, qerrors

front == <<reqProdPvt, reqProd, rspEvent, rspCons, reqKind>>
vars == <<reqProdPvt, reqProd, reqEvent, rspProd, rspEvent, rspCons, reqKind,
          rspLog, evtBack, evtFront, reqCons, rspProdPvt, nFree, reqsFree,
          slotMsg, mapped, vbd, bpc, qbase, qi, qn, qerrors>>

-----------------------------------------------------------------------------
(* Ring macros (xen/io/ring.h) as used by xenio-blkif.c.                   *)

\* RING_IDX arithmetic: idx + n, and the position of idx since StartIdx.
Add(idx, n) == (idx + n) % IdxMod
Pos(idx) == (idx - StartIdx) % IdxMod

\* Unsigned "new - event < new - old": the other end asked to be notified
\* at an index in (old, new].
Notify(new, old, event) == (new - event) % IdxMod < (new - old) % IdxMod

\* RING_HAS_UNCONSUMED_REQUESTS with consumer index cons.
Unconsumed(cons) ==
  LET req == (reqProd - cons) % IdxMod
      rsp == (RingSize - (cons - rspProdPvt)) % IdxMod
  IN  IF req < rsp THEN req ELSE rsp

-----------------------------------------------------------------------------
(* Request retrieval (xenio-blkif.c).                                      *)

\* __xenio_blkif_get_requests: copy up to count requests from req_cons on;
\* <<value returned, new req_cons>>.  The loop bumps n before its bound test,
\* so when more than count requests are waiting it returns count + 1.
GetRequestsRaw(cons, count) ==
  LET avail == (reqProd - cons) % IdxMod
  IN  IF count = 0 THEN <<0, cons>>
      ELSE IF avail <= count THEN <<avail, Add(cons, avail)>>
      ELSE <<count + 1, Add(cons, count)>>

\* Mutant: the final check re-arms req_event one index too late.
RECURSIVE GetRequests(_, _, _, _, _)
GetRequestsArmLate(cons, n, count, final, event) ==
  LET event1 == IF final /\ Unconsumed(cons) = 0 THEN Add(cons, 2)
                ELSE event
  IN  IF Unconsumed(cons) = 0 \/ n >= count
      THEN [n |-> n, cons |-> cons, event |-> event1]
      ELSE LET r == GetRequestsRaw(cons, count - n)
           IN  GetRequests(r[2], n + r[1], count, final, event1)

\* xenio_blkif_get_requests: with final, RING_FINAL_CHECK_FOR_REQUESTS
\* re-arms req_event when the ring is empty.
GetRequests(cons, n, count, final, event) ==
  LET event1 == IF final /\ Unconsumed(cons) = 0 THEN Add(cons, 1)
                ELSE event
  IN  IF Unconsumed(cons) = 0 \/ n >= count
      THEN [n |-> n, cons |-> cons, event |-> event1]
      ELSE LET r == GetRequestsRaw(cons, count - n)
           IN  GetRequests(r[2], n + r[1], count, final, event1)

RECURSIVE DrainRing(_, _, _, _)
\* The do-loop of tapdisk_xenblkif_ring_event: fetch into the free slots
\* until a call returns nothing; every call after the first is final.
DrainRing(cons, free, final, event) ==
  LET r == GetRequests(cons, 0, free, final, event)
  IN  IF r.n = 0 THEN [free |-> free, cons |-> cons, event |-> r.event]
      ELSE DrainRing(r.cons, free - r.n, TRUE, r.event)

-----------------------------------------------------------------------------
(* Response submission and slot release.                                   *)

\* RING_PUSH_RESPONSES_AND_CHECK_NOTIFY, then xenio_blkif_notify.
PushResponses(pvt) ==
  LET kick == Notify(pvt, rspProd, rspEvent)
  IN  /\ rspProd' = pvt
      /\ evtFront' = (evtFront \/ kick)

\* xenio_blkif_put_responses for the responses up to pvt.
PutResponses(pvt, final) ==
  IF final THEN PushResponses(pvt)
  ELSE UNCHANGED <<rspProd, evtFront>>

\* Mutant: the stack index is taken before n_reqs_free is incremented.
FreeRequestIndexEarly(s) ==
  /\ nFree' = nFree + 1
  /\ reqsFree' = [reqsFree EXCEPT ![RingSize - nFree] = s]

\* Mutant: the slot is pushed but n_reqs_free is not incremented.
FreeRequestNoCount(s) ==
  /\ nFree' = nFree
  /\ reqsFree' = [reqsFree EXCEPT ![RingSize - (nFree + 1)] = s]

\* tapdisk_xenblkif_free_request: push the slot back on the free stack.
FreeRequest(s) ==
  /\ nFree' = nFree + 1
  /\ reqsFree' = [reqsFree EXCEPT ![RingSize - (nFree + 1)] = s]

CompleteRequestAtRspProd(s, final) ==
  /\ mapped' = [mapped EXCEPT ![s] = FALSE]
  /\ rspLog' = [rspLog EXCEPT ![Pos(rspProd)] = slotMsg[s]]
  /\ rspProdPvt' = Add(rspProdPvt, 1)
  /\ PutResponses(Add(rspProdPvt, 1), final)
  /\ FreeRequest(s)

\* tapdisk_xenblkif_complete_request: unmap the grant pages, write one
\* response with the request's id, publish it if final, free the slot.
CompleteRequest(s, final) ==
  /\ mapped' = [mapped EXCEPT ![s] = FALSE]
  /\ rspLog' = [rspLog EXCEPT ![Pos(rspProdPvt)] = slotMsg[s]]
  /\ rspProdPvt' = Add(rspProdPvt, 1)
  /\ PutResponses(Add(rspProdPvt, 1), final)
  /\ FreeRequest(s)

-----------------------------------------------------------------------------
(* Initial state: an idle ring whose indices all stand at StartIdx, each  *)
(* end having re-armed its event one past it (StartIdx = 0: as set up by   *)
(* SHARED_RING_INIT and BACK_RING_INIT); slots as left by                  *)
(* tapdisk_xenblkif_reqs_init (reqs[i] pushed in order).                   *)

Init ==
  /\ reqProdPvt = StartIdx /\ reqProd = StartIdx /\ reqEvent = Add(StartIdx, 1)
  /\ rspProd = StartIdx /\ rspEvent = Add(StartIdx, 1) /\ rspCons = StartIdx
  /\ reqKind = [i \in Ids |-> NoReq]
  /\ rspLog = [j \in RspPos |-> NoId]
  /\ evtBack = FALSE /\ evtFront = FALSE
  /\ reqCons = StartIdx /\ rspProdPvt = StartIdx
  /\ nFree = RingSize
  /\ reqsFree = [k \in Slots |-> RingSize - 1 - k]
  /\ slotMsg = [s \in Slots |-> NoId]
  /\ mapped = [s \in Slots |-> FALSE]
  /\ vbd = {}
  /\ bpc = "idle" /\ qbase = 0 /\ qi = 0 /\ qn = 0 /\ qerrors = 0

-----------------------------------------------------------------------------
(* The worker.                                                             *)

\* The event fd is readable: tapdisk_xenio_ctx_ring_event takes the pending
\* port (xenio_pending_blkif clears and unmasks it) and runs
\* tapdisk_xenblkif_ring_event, which copies the waiting requests into the
\* slots on top of the free stack and hands them to queue_requests.
RingEvent ==
  /\ bpc = "idle"
  /\ evtBack
  /\ LET r    == DrainRing(reqCons, nFree, FALSE, reqEvent)
         top  == RingSize - nFree
         got  == Pos(r.cons) - Pos(reqCons)
         n    == nFree - r.free
         CopiedTo(s) == {j \in 0 .. got - 1 : reqsFree[top + j] = s}
     IN  /\ evtBack' = FALSE
         /\ reqCons' = r.cons
         /\ reqEvent' = r.event
         /\ nFree' = r.free
         /\ slotMsg' = [s \in Slots |->
                          IF CopiedTo(s) = {} THEN slotMsg[s]
                          ELSE Pos(reqCons) + Max(CopiedTo(s))]
         /\ bpc' = IF n = 0 THEN "idle" ELSE "queue"
         /\ qbase' = top
         /\ qi' = 0
         /\ qn' = n
         /\ qerrors' = 0
  /\ UNCHANGED <<reqProdPvt, reqProd, rspProd, rspEvent, rspCons, reqKind,
                 rspLog, evtFront, rspProdPvt, reqsFree, mapped, vbd>>

\* xenio_blkif_parse_request: a segment out of range fails with -EINVAL.
ParseRequestOk(kind) == kind # "bad_seg"

\* tapdisk_xenblkif_make_vbd_request: an operation other than read or write
\* fails with -EOPNOTSUPP; otherwise the outcome of mapping the grants.
MakeVbdRequestResults(kind) ==
  IF kind = "bad_op" THEN {FALSE}
  ELSE {TRUE} \cup (IF "map_fail" \in Faults THEN {FALSE} ELSE {})

\* tapdisk_vbd_queue_request: the engine accepts, or rejects a request it
\* cannot queue (a dead or closed VBD).
VbdQueueResults == {TRUE} \cup (IF "vbd_busy" \in Faults THEN {FALSE} ELSE {})

\* One iteration of tapdisk_xenblkif_queue_requests on reqs[qi]: the slot
\* pointer is read from the free stack now, then parse, map and queue.  A
\* failure answers the request at once with a final response.
QueueRequest ==
  /\ bpc = "queue"
  /\ qi < qn
  /\ LET s    == reqsFree[qbase + qi]
         kind == reqKind[slotMsg[s]]
         Fail == /\ CompleteRequest(s, TRUE)
                 /\ qerrors' = qerrors + 1
                 /\ UNCHANGED vbd
     IN  \/ /\ ~ParseRequestOk(kind)
            /\ Fail
         \/ /\ ParseRequestOk(kind)
            /\ FALSE \in MakeVbdRequestResults(kind)
            /\ Fail
         \/ /\ ParseRequestOk(kind)
            /\ TRUE \in MakeVbdRequestResults(kind)
            /\ FALSE \in VbdQueueResults
            /\ Fail
         \/ /\ ParseRequestOk(kind)
            /\ TRUE \in MakeVbdRequestResults(kind)
            /\ TRUE \in VbdQueueResults
            /\ mapped' = [mapped EXCEPT ![s] = TRUE]
            /\ vbd' = vbd \cup {s}
            /\ UNCHANGED <<rspLog, rspProdPvt, rspProd, evtFront,
                           nFree, reqsFree, qerrors>>
  /\ qi' = qi + 1
  /\ UNCHANGED <<reqProdPvt, reqProd, reqEvent, rspEvent, rspCons, reqKind,
                 evtBack, reqCons, slotMsg, bpc, qbase, qn>>

\* End of queue_requests: if any request failed, publish once more.
QueueDone ==
  /\ bpc = "queue"
  /\ qi = qn
  /\ IF qerrors > 0 THEN PushResponses(rspProdPvt)
     ELSE UNCHANGED <<rspProd, evtFront>>
  /\ bpc' = "idle"
  /\ UNCHANGED <<reqProdPvt, reqProd, reqEvent, rspEvent, rspCons, reqKind,
                 rspLog, evtBack, reqCons, rspProdPvt, nFree, reqsFree,
                 slotMsg, mapped, vbd, qbase, qi, qn, qerrors>>

\* The VBD completes an accepted request: __tapdisk_xenblkif_request_cb.
\* The engine flags the last completion of its batch final, so the last
\* outstanding request always completes final.
VbdComplete(s, final) ==
  /\ bpc = "idle"
  /\ s \in vbd
  /\ vbd = {s} => final
  /\ vbd' = vbd \ {s}
  /\ CompleteRequest(s, final)
  /\ UNCHANGED <<reqProdPvt, reqProd, reqEvent, rspEvent, rspCons, reqKind,
                 evtBack, reqCons, slotMsg, bpc, qbase, qi, qn, qerrors>>

-----------------------------------------------------------------------------
(* The guest frontend (the other end of the ring protocol).                *)

\* Write one request at req_prod_pvt; an honest frontend keeps at most
\* GuestDepth requests outstanding, and never more than the ring holds.
FrontQueue(kind) ==
  /\ Pos(reqProdPvt) < MaxReqs
  /\ GuestHonest => (reqProdPvt - rspCons) % IdxMod < GuestDepth
  /\ reqKind' = [reqKind EXCEPT ![Pos(reqProdPvt)] = kind]
  /\ reqProdPvt' = Add(reqProdPvt, 1)
  /\ UNCHANGED <<reqProd, reqEvent, rspProd, rspEvent, rspCons, rspLog,
                 evtBack, evtFront, reqCons, rspProdPvt, nFree, reqsFree,
                 slotMsg, mapped, vbd, bpc, qbase, qi, qn, qerrors>>

\* RING_PUSH_REQUESTS_AND_CHECK_NOTIFY and the notify it asks for.
FrontPush ==
  /\ reqProd # reqProdPvt
  /\ reqProd' = reqProdPvt
  /\ evtBack' = (evtBack \/ Notify(reqProdPvt, reqProd, reqEvent))
  /\ UNCHANGED <<reqProdPvt, reqEvent, rspProd, rspEvent, rspCons, reqKind,
                 rspLog, evtFront, reqCons, rspProdPvt, nFree, reqsFree,
                 slotMsg, mapped, vbd, bpc, qbase, qi, qn, qerrors>>

\* Interrupt handler: consume every published response, then
\* RING_FINAL_CHECK_FOR_RESPONSES re-arms rsp_event.
FrontInterrupt ==
  /\ evtFront
  /\ evtFront' = FALSE
  /\ rspCons' = rspProd
  /\ rspEvent' = Add(rspProd, 1)
  /\ UNCHANGED <<reqProdPvt, reqProd, reqEvent, rspProd, reqKind, rspLog,
                 evtBack, reqCons, rspProdPvt, nFree, reqsFree, slotMsg,
                 mapped, vbd, bpc, qbase, qi, qn, qerrors>>

\* The guest has written all its requests and seen every answer.
Finished ==
  /\ Pos(reqProdPvt) = MaxReqs
  /\ Pos(rspCons) = MaxReqs
  /\ UNCHANGED vars

Next ==
  \/ RingEvent
  \/ QueueRequest
  \/ QueueDone
  \/ \E s \in Slots, final \in BOOLEAN : VbdComplete(s, final)
  \/ \E kind \in ReqKinds : FrontQueue(kind)
  \/ FrontPush
  \/ FrontInterrupt
  \/ Finished

\* The scheduler serves a readable event fd and due callbacks; the engine
\* completes what it accepted; blkfront flushes what it queued and runs its
\* interrupt handler.  Writing new requests is up to the guest.
Fairness ==
  /\ WF_vars(RingEvent)
  /\ WF_vars(QueueRequest)
  /\ WF_vars(QueueDone)
  /\ \A s \in Slots : WF_vars(\E final \in BOOLEAN : VbdComplete(s, final))
  /\ WF_vars(FrontPush)
  /\ WF_vars(FrontInterrupt)

Spec == Init /\ [][Next]_vars /\ Fairness

-----------------------------------------------------------------------------
(* Properties.                                                             *)

TypeOK ==
  /\ \A idx \in {reqProdPvt, reqProd, reqCons, rspProdPvt, rspProd, rspCons} :
       idx \in 0 .. IdxMod - 1 /\ Pos(idx) \in 0 .. MaxReqs + 1
  /\ Pos(reqEvent) \in 1 .. MaxReqs + 1 /\ Pos(rspEvent) \in 1 .. MaxReqs + 1
  /\ reqKind \in [Ids -> ReqKinds \cup {NoReq}]
  /\ rspLog \in [RspPos -> Ids \cup {NoId}]
  /\ evtBack \in BOOLEAN /\ evtFront \in BOOLEAN
  /\ nFree \in Int
  /\ reqsFree \in [Slots -> Slots]
  /\ slotMsg \in [Slots -> Ids \cup {NoId}]
  /\ mapped \in [Slots -> BOOLEAN]
  /\ vbd \subseteq Slots
  /\ bpc \in {"idle", "queue"}
  /\ qerrors \in Nat

FreeSlots == {reqsFree[k] : k \in RingSize - nFree .. RingSize - 1}

\* The free stack of tapdisk_xenblkif_free_request / ring_event holds
\* n_reqs_free distinct slots, none of them owned by a request the VBD
\* still has: a slot is never handed out twice.
SlotsExclusive ==
  /\ Cardinality(FreeSlots) = nFree
  /\ FreeSlots \cap vbd = {}

NoOverrun == (reqProd - reqCons) % IdxMod <= nFree

\* n_reqs_free never goes negative (the spec's free <= ring_size bound).
SlotCountInRange == nFree \in 0 .. RingSize

\* No request id is answered twice.
UniqueResponses ==
  \A j1, j2 \in 0 .. Pos(rspProdPvt) - 1 : j1 # j2 => rspLog[j1] # rspLog[j2]

\* The worker implements the request service of BlkifRequests: responses
\* are published only for issued requests, never retracted, and -- under
\* the fairness of the worker, the engine and the frontend -- every request
\* the guest publishes is eventually answered and the answer seen (no lost
\* request, no lost wake-up).
Abs == INSTANCE BlkifRequests WITH
         issued  <- Pos(reqProd),
         answers <- [j \in 1 .. Pos(rspProd) |-> rspLog[j - 1]],
         seen    <- Pos(rspCons)

Refinement == Abs!Spec

=============================================================================
