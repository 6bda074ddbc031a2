------------------------------ MODULE XenioBroker ------------------------------
(***************************************************************************)
(* The xenio broker (xenio.c with the blkback ops) driving the tapdisk    *)
(* control plane (tap-ctl-xen.c and tap-ctl-list.c; XenblkifCtx for the   *)
(* tapdisk side).                                                          *)
(*                                                                         *)
(* The broker is a single-threaded loop: xenio_backend_read_watch takes   *)
(* one xenstore watch event and handles it inside a transaction, retrying *)
(* the whole handler on EAGAIN.  A backend event for backend/xenio/<d>    *)
(* probes device d (create, remove or fast recycle); the event for        *)
(* backend/xenio itself, queued when the broker starts and registers its  *)
(* watch, scans every device; an otherend event for <frontend>/state runs *)
(* blkback_frontend_changed.  The toolstack, the frontend driver and the  *)
(* guest's I/O run concurrently with it, and the broker may be restarted. *)
(*                                                                         *)
(* One handler is one step, except where it calls tapdisk over the        *)
(* control socket: connect_tap and disconnect_tap block on the RPC, the   *)
(* tapdisk serves it as a separate step, and xenstore may change in the   *)
(* meantime (which makes the commit conflict: EAGAIN).                     *)
(***************************************************************************)
EXTENDS Integers, Sequences, FiniteSets, TapCtlList

CONSTANTS
  Devs,           \* (domid, name) keys of the devices the toolstack may create
  MaxEnv,         \* bound: toolstack and frontend xenstore writes in a behaviour
  MaxAgain,       \* bound: commits that fail with EAGAIN without a modelled conflict
  MaxRestarts,    \* bound: broker restarts in a behaviour
  ForcedRemoval,  \* the toolstack may remove a device whatever its state
  BrokerFaults,   \* subset of {"xs_write_fail", "list_fail", "glob_fail", "tap_fail"}
  SysMinors,      \* blktap minors in /sys/class/blktap3, in glob order
  TapPids,        \* pids of the live tapdisks' control sockets, in glob order
  TapFrames,      \* pid -> the VBD minors it reports to LIST, in send order
  ServingPid,     \* the tapdisk modelled by XenblkifCtx
  DevMinor,       \* d -> the minor of the VBD the toolstack set up for d
  FrontProtos     \* values a frontend may leave in its protocol node

\* Only the modelled tapdisk has VBDs.
ASSUME \A p \in Range(TapPids) \ {ServingPid} : TapFrames[p] = <<>>

Absent == "absent"      \* a xenstore node that does not exist
NoSerial == -1          \* xenio-serial absent / device never created
NoDev == "none"         \* the event for backend/xenio names no device

\* XenbusState values written by the frontend and by the broker.
States == {"Initialising", "InitWait", "Initialised", "Connected", "Closing", "Closed"}

VARIABLES
  \* xenstore, the toolstack and the frontend
  xsDev,       \* backend/xenio/<d> exists
  xsSerial,    \* backend/xenio/<d>/xenio-serial, or NoSerial
  xsState,     \* backend/xenio/<d>/state, or Absent
  frontState,  \* <frontend of d>/state, or Absent
  events,      \* watch events queued on the broker's xenstore connection
  envLeft,     \* xenstore writes the environment may still make
  \* the broker
  devIn,       \* d is on backend->devices (and its frontend state is watched)
  devSerial,   \* device->serial of d
  devGref,     \* bdev->gref != NULL: the broker believes d is connected
  devTap,      \* bdev->tap: the tap_ctl_list entry found for d
  nextSerial,  \* backend->serial
  bpc,         \* where the handler of Head(events) is
  dirty,       \* xenstore nodes of the handled device changed during the handler
  againLeft,   \* spurious EAGAIN commits left
  restartsLeft,\* broker restarts left
  \* the tapdisk (module XenblkifCtx), and the VBD minor (the connect
  \* request's cookie) each key's blkif was attached to
  ctxs, ctxBlkifs, xenioIfs, blkCtx, busy, last, grants, ports, alive, tapVbd

xsVars == <<xsDev, xsSerial, xsState, frontState, envLeft>>
devVars == <<devIn, devSerial, devGref, devTap, nextSerial>>
tapVars == <<ctxs, ctxBlkifs, xenioIfs, blkCtx, busy, last, grants, ports, alive, tapVbd>>
vars == <<xsVars, events, devVars, bpc, dirty, againLeft, restartsLeft, tapVars>>

\* The tapdisk serving the devices: its blkif and transport-context state.
\* blkback_connect_tap passes pool "" when sm-data/frame-pool is absent;
\* the control server hands the engine a NULL pool (spec S1: the default).
TapPool == "NULL"
\* The frontend writes a one-page ring (ring-page-order absent or 0) and
\* grant refs tapdisk can map; a tapdisk that maps and binds the ring
\* stays alive.  Its clean failures (the calloc of the xenio blkif or of
\* the request slots, ENOMEM) are the "tap_fail" fault.
Tap == INSTANCE XenblkifCtx WITH Keys <- Devs, NamedPools <- {},
         DefaultPool <- "td-xenio-default", NullPool <- TapPool,
         EmptyPool <- "", MaxHandles <- 1, RingOrders <- {0},
         Faults <- IF "tap_fail" \in BrokerFaults THEN {"alloc_fail"} ELSE {}

Ev(token, d) == [token |-> token, dev |-> d]
Events == [token : {"backend", "otherend"}, dev : Devs] \cup {Ev("scan", NoDev)}

\* The device whose event the broker is handling.
Cur == Head(events).dev

WriteResults ==
  {"ok"} \cup (IF "xs_write_fail" \in BrokerFaults THEN {"EACCES"} ELSE {})

\* What a tapdisk may answer to LIST.
ListAnswers ==
  LET answers(p) == {Frames(TapFrames[p])} \cup (IF "list_fail" \in BrokerFaults THEN {ListFail} ELSE {})
  IN  { a \in [Range(TapPids) -> UNION { answers(p) : p \in Range(TapPids) }] :
          \A p \in Range(TapPids) : a[p] \in answers(p) }

\* minor(bdev->dev): bdev is calloc'ed by blkback_probe and dev is never
\* assigned, so blkback_find_tapdisk always looks for minor 0.
BdevMinor == 0

\* A glob in _tap_ctl_find_minors or _tap_ctl_find_tapdisks fails: the
\* fail label of tap_ctl_list frees the caller's list and vbds (and
\* tapdisks, when the first glob failed) before they were initialised.
\* The heads hold whatever the stack held: NULL (the frees do nothing and
\* the error is returned) or a stale pointer (free() aborts the broker).
ListCrash == Entry(NoId - 1, NoId - 1)
GlobFailResults ==
  IF "glob_fail" \in BrokerFaults THEN {NoTap, ListCrash} ELSE {}

\* blkback_find_tapdisk: the entry found in a fresh tap_ctl_list, NoTap
\* (none found, or tap_ctl_list failed), or ListCrash.
FindTapdiskResults ==
  { BlkbackFindTapdisk(TapCtlList(SysMinors, TapPids, a), BdevMinor) : a \in ListAnswers }
  \cup GlobFailResults

\* blkback_read_otherend_proto: no protocol node is the native ABI, the two
\* x86 ABIs are known by name, any other value is -EINVAL.
ProtoSupported(p) == p \in {Absent, "x86_32-abi", "x86_64-abi"}

\* xenio_device_watch_frontend_state: xs_watch fails as a write does.
WatchResults == WriteResults

-----------------------------------------------------------------------------
(* tap-ctl-xen.c: the client side of the two RPCs.                         *)

\* The tapdisk answers a request with the matching _RSP type (spec 6.2).
RspType(op) == IF op = "connect" THEN "XENBLKIF_CONNECT_RSP" ELSE "XENBLKIF_DISCONNECT_RSP"

\* tap_ctl_connect_xenblkif: the response error if the type is CONNECT_RSP.
TapCtlConnect(type, err) == IF type = "XENBLKIF_CONNECT_RSP" THEN err ELSE "EINVAL"

\* tap_ctl_disconnect_xenblkif compares the response type with CONNECT_RSP
\* too, so the DISCONNECT_RSP of a successful disconnect yields EINVAL.
TapCtlDisconnect(type, err) == IF type = "XENBLKIF_CONNECT_RSP" THEN err ELSE "EINVAL"

\* blkback_disconnect_tap gives up when "err && errno != -ESRCH"; errno is
\* never negative, so every error is fatal.
DisconnectTapFails(err) == err # "ok"

-----------------------------------------------------------------------------
(* xenio.c: the end of xenio_backend_read_watch.                           *)

\* Mutant: the commit succeeds although xenstore changed under it.
EndTransactionIgnoreConflict(err, xs, st, newEvs) ==
  /\ bpc' = "idle"
  /\ dirty' = FALSE
  /\ \/ /\ err # "ok"
        /\ events' = Tail(events) \o newEvs
        /\ UNCHANGED <<xsSerial, xsState, againLeft>>
     \/ /\ err = "ok"
        /\ xsSerial' = xs
        /\ xsState' = IF st = Absent THEN xsState ELSE [xsState EXCEPT ![Cur] = st]
        /\ events' = Tail(events) \o newEvs
        /\ UNCHANGED againLeft
     \/ /\ err = "ok" /\ againLeft > 0
        /\ events' = events \o newEvs
        /\ againLeft' = againLeft - 1
        /\ UNCHANGED <<xsSerial, xsState>>
  /\ UNCHANGED <<xsDev, frontState, envLeft, restartsLeft>>

\* The handler of Head(events) returned err, having made the transaction's
\* view of xenio-serial xs and written state st (Absent: not written), and
\* registered watches that queued newEvs.  An error aborts the transaction;
\* a commit that conflicts fails with EAGAIN and the handler runs again on
\* the same event.  Side effects outside xenstore (the device list, the
\* serial counter, watches, tapdisk RPCs) are never rolled back.
EndTransaction(err, xs, st, newEvs) ==
  /\ bpc' = "idle"
  /\ dirty' = FALSE
  /\ \/ /\ err # "ok"
        /\ events' = Tail(events) \o newEvs
        /\ UNCHANGED <<xsSerial, xsState, againLeft>>
     \/ /\ err = "ok" /\ ~dirty
        /\ xsSerial' = xs
        /\ xsState' = IF st = Absent THEN xsState ELSE [xsState EXCEPT ![Cur] = st]
        /\ events' = Tail(events) \o newEvs
        /\ UNCHANGED againLeft
     \/ /\ err = "ok" /\ (dirty \/ againLeft > 0)
        /\ events' = events \o newEvs
        /\ againLeft' = IF dirty THEN againLeft ELSE againLeft - 1
        /\ UNCHANGED <<xsSerial, xsState>>
  /\ UNCHANGED <<xsDev, frontState, envLeft, restartsLeft>>

-----------------------------------------------------------------------------
(* xenio.c: device discovery.  A probe maps the broker's device records   *)
(* and the transaction's view of xenio-serial to the set of its possible  *)
(* outcomes, so that one probe and a scan of many share it.               *)

\* The broker's records as the handler starts.
BState ==
  [in |-> devIn, serial |-> devSerial, gref |-> devGref, tap |-> devTap,
   next |-> nextSerial, xs |-> xsSerial, err |-> "ok", evs |-> <<>>,
   crash |-> FALSE]

\* Mutant: a missing xenio-serial is taken as matching (n != 1 unchecked).
CheckSerialMissingOk(s, d) ==
  IF s.xs[d] # NoSerial /\ s.xs[d] # s.serial[d] THEN "EXDEV" ELSE "ok"

\* xenio_device_check_serial.
CheckSerial(s, d) ==
  IF s.xs[d] = NoSerial THEN "EEXIST"
  ELSE IF s.xs[d] # s.serial[d] THEN "EXDEV" ELSE "ok"

\* Mutant: blkback_remove leaves bdev->gref set.
RemoveDeviceKeepGref(s, d) == [s EXCEPT !.in[d] = FALSE]

\* xenio_backend_remove_device: blkback_remove frees the bdev (its gref and
\* tap entry) without a tapdisk disconnect; destroy_device unlinks and
\* unwatches.
RemoveDevice(s, d) ==
  [s EXCEPT !.in[d] = FALSE, !.gref[d] = FALSE, !.tap[d] = NoTap]

\* xenio_backend_create_device: take the next serial, link the device, write
\* xenio-serial, find the serving tapdisk (blkback_probe; the tap_ctl_info
\* that follows has its result ignored) and watch the frontend state, whose
\* first event is queued at once.  A failure destroys the device again.
CreateDevice(s, d) ==
  LET s1 == [s EXCEPT !.next = @ + 1, !.gref[d] = FALSE, !.tap[d] = NoTap]
  IN  { IF w = "ok" /\ t = ListCrash THEN [s1 EXCEPT !.crash = TRUE]
        ELSE IF w = "ok" /\ t # NoTap /\ x = "ok"
        THEN [s1 EXCEPT !.in[d] = TRUE, !.serial[d] = s.next, !.tap[d] = t,
                        !.xs[d] = s.next, !.evs = @ \o <<Ev("otherend", d)>>]
        ELSE [s1 EXCEPT !.in[d] = FALSE,
                        !.xs[d] = IF w = "ok" THEN s.next ELSE @,
                        !.err = IF w # "ok" THEN w ELSE IF x # "ok" THEN x ELSE "ENOENT"]
        : w \in WriteResults, t \in FindTapdiskResults, x \in WatchResults }

\* xenio_backend_probe_device for d (nothing runs after the broker died).
ProbeDevice(s, d) ==
  LET exists  == xsDev[d]
      recycle == s.in[d] /\ exists /\ CheckSerial(s, d) # "ok"
  IN  IF s.crash THEN {s}
      ELSE IF (exists /\ ~s.in[d]) \/ recycle
      THEN CreateDevice(IF recycle THEN RemoveDevice(s, d) ELSE s, d)
      ELSE IF s.in[d] /\ ~exists THEN {RemoveDevice(s, d)}
      ELSE {s}

\* Probe the devices of ds in turn.
RECURSIVE ProbeAll(_, _)
ProbeAll(S, ds) ==
  IF ds = <<>> THEN S
  ELSE ProbeAll(UNION { ProbeDevice(s, Head(ds)) : s \in S }, Tail(ds))

\* xenio_backend_scan: probe every listed device, then every directory
\* under backend/xenio; the probes' errors are ignored and scan returns 0.
Scan ==
  ProbeAll({BState}, SetToSeq({d \in Devs : devIn[d]}) \o SetToSeq({d \in Devs : xsDev[d]}))

\* The broker's records become those of outcome o.
Apply(o) ==
  /\ devIn' = o.in /\ devSerial' = o.serial /\ devGref' = o.gref
  /\ devTap' = o.tap /\ nextSerial' = o.next

\* The records of a broker that has just run xenio_backend_create: no
\* devices, serial 0, and the backend/xenio watch registered, whose initial
\* event (for backend/xenio itself) is queued.
FreshBroker ==
  /\ devIn' = [d \in Devs |-> FALSE]
  /\ devSerial' = [d \in Devs |-> NoSerial]
  /\ devGref' = [d \in Devs |-> FALSE]
  /\ devTap' = [d \in Devs |-> NoTap]
  /\ nextSerial' = 0
  /\ events' = <<Ev("scan", NoDev)>>
  /\ bpc' = "idle"
  /\ dirty' = FALSE

\* The broker process dies and is started again: its transaction is lost,
\* its xenstore connection closed with the watches and queued events.
Die ==
  /\ restartsLeft > 0
  /\ restartsLeft' = restartsLeft - 1
  /\ FreshBroker
  /\ UNCHANGED <<xsVars, againLeft>>

\* The handler's outcome o: the broker died, or its records become o's and
\* the transaction ends with error err.
Outcome(o, err) ==
  \/ o.crash /\ Die
  \/ ~o.crash /\ Apply(o) /\ EndTransaction(err, o.xs, Absent, o.evs)

\* A backend event: xenio_backend_handle_backend_watch probes the device
\* of backend/xenio/<d>, or scans for backend/xenio itself.
HandleBackend ==
  /\ bpc = "idle" /\ events # <<>> /\ Head(events).token \in {"backend", "scan"}
  /\ \/ /\ Head(events).token = "backend"
        /\ \E o \in ProbeDevice(BState, Cur) : Outcome(o, o.err)
     \/ /\ Head(events).token = "scan"
        /\ \E o \in Scan : Outcome(o, "ok")
  /\ UNCHANGED tapVars

-----------------------------------------------------------------------------
(* xenio.c: blkback_frontend_changed and the tapdisk RPCs.                 *)

\* xenio_device_switch_state: write the backend state.
SwitchState(st) ==
  /\ \E w \in WriteResults : EndTransaction(w, xsSerial, st, <<>>)
  /\ UNCHANGED <<devVars, tapVars>>

\* blkback_connect_tap from label write_info on: sector-size, sectors, info
\* and state Connected are written; if one write fails and the device holds
\* a gref, the tapdisk is told to disconnect (next step) and gref is freed.
WriteInfo ==
  \E w \in WriteResults :
    \/ /\ w = "ok"
       /\ EndTransaction("ok", xsSerial, "Connected", <<>>)
    \/ /\ w # "ok" /\ devGref'[Cur]
       /\ bpc' = "fail_disconnect"
       /\ UNCHANGED <<xsVars, events, dirty, againLeft, restartsLeft>>
    \/ /\ w # "ok" /\ ~devGref'[Cur]
       /\ EndTransaction(w, xsSerial, Absent, <<>>)

\* blkback_frontend_changed for frontend state s of the device handled.
BlkbackFrontendChanged(s) ==
  \/ /\ s = "Initialising"
     /\ SwitchState("InitWait")
  \/ /\ s = "Closing"
     /\ SwitchState("Closing")
  \/ /\ s \in {"Initialised", "Connected"} /\ devGref[Cur]
     /\ UNCHANGED <<devVars, tapVars>>
     /\ WriteInfo
  \/ /\ s \in {"Initialised", "Connected"} /\ ~devGref[Cur]
     /\ bpc' = "connect"
     /\ UNCHANGED <<xsVars, events, devVars, dirty, againLeft, restartsLeft, tapVars>>
  \/ /\ s = "Closed" /\ ~devGref[Cur]
     \* blkback_disconnect_tap returns 0 at once, writing no state
     /\ EndTransaction("ok", xsSerial, Absent, <<>>)
     /\ UNCHANGED <<devVars, tapVars>>
  \/ /\ s = "Closed" /\ devGref[Cur]
     /\ bpc' = "disconnect"
     /\ UNCHANGED <<xsVars, events, devVars, dirty, againLeft, restartsLeft, tapVars>>

\* xenio_device_check_frontend_state: read the frontend state (the read
\* fails once the frontend directory is gone) and dispatch it.
CheckFrontendState(d) ==
  \/ /\ frontState[d] = Absent
     /\ EndTransaction("ENOENT", xsSerial, Absent, <<>>)
     /\ UNCHANGED <<devVars, tapVars>>
  \/ /\ frontState[d] # Absent
     /\ BlkbackFrontendChanged(frontState[d])

\* An otherend event: xenio_backend_handle_otherend_watch finds the device
\* watching that frontend path, and hits BUG() if there is none.
HandleOtherend ==
  /\ bpc = "idle" /\ events # <<>> /\ Head(events).token = "otherend"
  /\ \/ /\ ~devIn[Cur]
        /\ bpc' = "bug"
        /\ UNCHANGED <<xsVars, events, devVars, dirty, againLeft, restartsLeft, tapVars>>
     \/ /\ devIn[Cur]
        /\ CheckFrontendState(Cur)

\* blkback_connect_tap up to write_info: read the ring and protocol the
\* frontend published (an unknown protocol fails with ENOENT), then
\* tap_ctl_connect_xenblkif to the pid of bdev->tap with its minor as
\* cookie.  An entry with no pid (an orphan minor) names no control socket
\* and the RPC fails; the tapdisk attaches the blkif to the VBD the cookie
\* names.  On success the grant refs are kept and the info written.
ConnectTap ==
  /\ bpc = "connect"
  /\ \E p \in FrontProtos : LET t == devTap[Cur] IN
     \/ /\ ~ProtoSupported(p) \/ t.pid = NoId
        /\ EndTransaction("ENOENT", xsSerial, Absent, <<>>)
        /\ UNCHANGED <<devGref, tapVars>>
     \/ /\ ProtoSupported(p) /\ t.pid # NoId
        /\ Tap!Connect(Cur, TapPool)
        /\ LET err == TapCtlConnect(RspType("connect"), last'.err)
           IN  IF err = "ok"
               THEN /\ devGref' = [devGref EXCEPT ![Cur] = TRUE]
                    /\ tapVbd' = [tapVbd EXCEPT ![Cur] = t.minor]
                    /\ WriteInfo
               ELSE /\ UNCHANGED <<devGref, tapVbd>>
                    /\ EndTransaction(err, xsSerial, Absent, <<>>)
  /\ UNCHANGED <<devIn, devSerial, devTap, nextSerial>>

\* The fail label of blkback_connect_tap: tap_ctl_disconnect_xenblkif, whose
\* result is ignored, then gref is freed.
FailDisconnect ==
  /\ bpc = "fail_disconnect"
  /\ Tap!Disconnect(Cur)
  /\ devGref' = [devGref EXCEPT ![Cur] = FALSE]
  /\ EndTransaction("EACCES", xsSerial, Absent, <<>>)
  /\ UNCHANGED <<devIn, devSerial, devTap, nextSerial, tapVbd>>

\* blkback_disconnect_tap: tap_ctl_disconnect_xenblkif; on success gref is
\* freed and the state Closed written.
DisconnectTap ==
  /\ bpc = "disconnect"
  /\ Tap!Disconnect(Cur)
  /\ LET err == TapCtlDisconnect(RspType("disconnect"), last'.err)
     IN  IF DisconnectTapFails(err)
         THEN /\ UNCHANGED devGref
              /\ EndTransaction(err, xsSerial, Absent, <<>>)
         ELSE /\ devGref' = [devGref EXCEPT ![Cur] = FALSE]
              /\ \E w \in WriteResults : EndTransaction(w, xsSerial, "Closed", <<>>)
  /\ UNCHANGED <<devIn, devSerial, devTap, nextSerial, tapVbd>>

-----------------------------------------------------------------------------
(* The environment: toolstack, frontend driver, guest I/O, restarts.       *)

\* An environment write to the nodes of d conflicts with a transaction
\* that is handling d.
Touch(d) ==
  dirty' = (dirty \/ (bpc \in {"connect", "fail_disconnect", "disconnect"} /\ d = Cur))

\* The toolstack creates backend/xenio/<d> (and the frontend directory).
ToolstackAdd(d) ==
  /\ envLeft > 0 /\ ~xsDev[d]
  /\ envLeft' = envLeft - 1
  /\ xsDev' = [xsDev EXCEPT ![d] = TRUE]
  /\ xsState' = [xsState EXCEPT ![d] = "Initialising"]
  /\ frontState' = [frontState EXCEPT ![d] = "Initialising"]
  /\ events' = events \o <<Ev("backend", d)>>
  /\ Touch(d)
  /\ UNCHANGED <<xsSerial, devVars, bpc, againLeft, restartsLeft, tapVars>>

\* The toolstack removes both directories in one transaction; the backend
\* and the (watched) frontend state events are delivered in either order.
ToolstackRemove(d) ==
  /\ envLeft > 0 /\ xsDev[d]
  /\ ForcedRemoval \/ xsState[d] = "Closed"
  /\ envLeft' = envLeft - 1
  /\ xsDev' = [xsDev EXCEPT ![d] = FALSE]
  /\ xsSerial' = [xsSerial EXCEPT ![d] = NoSerial]
  /\ xsState' = [xsState EXCEPT ![d] = Absent]
  /\ frontState' = [frontState EXCEPT ![d] = Absent]
  /\ \E evs \in IF devIn[d]
                THEN {<<Ev("backend", d), Ev("otherend", d)>>,
                      <<Ev("otherend", d), Ev("backend", d)>>}
                ELSE {<<Ev("backend", d)>>} :
       events' = events \o evs
  /\ Touch(d)
  /\ UNCHANGED <<devVars, bpc, againLeft, restartsLeft, tapVars>>

\* Frontend state changes blkfront makes, given the backend state.
FrontNext(s, b) ==
  CASE s = "Initialising" -> (IF b = "InitWait" THEN {"Initialised"} ELSE {}) \cup {"Closing"}
    [] s = "Initialised"  -> (IF b = "Connected" THEN {"Connected"} ELSE {}) \cup {"Closing"}
    [] s = "Connected"    -> {"Closing"}
    [] s = "Closing"      -> IF b = "Closing" THEN {"Closed"} ELSE {}
    [] s = "Closed"       -> {"Initialising"}
    [] OTHER              -> {}

FrontendSet(d) ==
  /\ envLeft > 0
  /\ \E s \in FrontNext(frontState[d], xsState[d]) :
       frontState' = [frontState EXCEPT ![d] = s]
  /\ envLeft' = envLeft - 1
  /\ events' = IF devIn[d] THEN events \o <<Ev("otherend", d)>> ELSE events
  /\ Touch(d)
  /\ UNCHANGED <<xsDev, xsSerial, xsState, devVars, bpc, againLeft, restartsLeft, tapVars>>

\* The guest uses a ring it sees connected; requests in flight make the
\* tapdisk refuse a disconnect.
GuestIO(d) ==
  /\ \E b \in BOOLEAN :
       /\ b => frontState[d] = "Connected"
       /\ Tap!RequestsInFlight(d, b)
  /\ UNCHANGED <<xsVars, events, devVars, bpc, dirty, againLeft, restartsLeft, tapVbd>>

\* The broker is killed at any point of a handler (or dies in a BUG()) and
\* is started again.  A connect RPC already sent may or may not have been
\* served by the tapdisk.
Restart ==
  /\ Die
  /\ \/ UNCHANGED tapVars
     \/ /\ bpc = "connect" /\ devTap[Cur].pid # NoId
        /\ Tap!Connect(Cur, TapPool)
        /\ tapVbd' = IF last'.err = "ok" THEN [tapVbd EXCEPT ![Cur] = devTap[Cur].minor]
                     ELSE tapVbd

-----------------------------------------------------------------------------

\* The broker as started on a store with no xenio devices.
Init ==
  /\ xsDev = [d \in Devs |-> FALSE]
  /\ xsSerial = [d \in Devs |-> NoSerial]
  /\ xsState = [d \in Devs |-> Absent]
  /\ frontState = [d \in Devs |-> Absent]
  /\ events = <<Ev("scan", NoDev)>>
  /\ envLeft = MaxEnv
  /\ devIn = [d \in Devs |-> FALSE]
  /\ devSerial = [d \in Devs |-> NoSerial]
  /\ devGref = [d \in Devs |-> FALSE]
  /\ devTap = [d \in Devs |-> NoTap]
  /\ nextSerial = 0
  /\ bpc = "idle"
  /\ dirty = FALSE
  /\ againLeft = MaxAgain
  /\ restartsLeft = MaxRestarts
  /\ Tap!Init
  /\ tapVbd = [d \in Devs |-> NoId]

Next ==
  \/ HandleBackend \/ HandleOtherend
  \/ ConnectTap \/ FailDisconnect \/ DisconnectTap
  \/ \E d \in Devs : ToolstackAdd(d) \/ ToolstackRemove(d) \/ FrontendSet(d) \/ GuestIO(d)
  \/ Restart

Spec == Init /\ [][Next]_vars

-----------------------------------------------------------------------------
(* Properties.                                                             *)

\* The broker has handled every queued event and is waiting in select.
Quiescent == bpc = "idle" /\ events = <<>>

\* Types; and a device the broker freed holds no grant references.
TypeOK ==
  /\ xsDev \in [Devs -> BOOLEAN]
  /\ xsSerial \in [Devs -> Nat \cup {NoSerial}]
  /\ xsState \in [Devs -> States \cup {Absent}]
  /\ frontState \in [Devs -> States \cup {Absent}]
  /\ events \in Seq(Events)
  /\ devIn \in [Devs -> BOOLEAN] /\ devGref \in [Devs -> BOOLEAN]
  /\ devSerial \in [Devs -> Nat \cup {NoSerial}] /\ nextSerial \in Nat
  /\ devTap \in [Devs -> [pid : Int, minor : Int]]
  /\ bpc \in {"idle", "connect", "fail_disconnect", "disconnect", "bug"}
  /\ \A d \in Devs : devGref[d] => devIn[d]

\* Once the broker has caught up, its device list is exactly the set of
\* backend directories carrying a xenio-serial, and each carries the serial
\* of its listed device: fast remove/re-create cycles, failed creations,
\* restarts with their scan, and commits retried on EAGAIN (which keep the
\* device list but drop the serial write) all end with list and store in
\* step.
DeviceListSynced ==
  Quiescent =>
    \A d \in Devs :
      devIn[d] <=> (xsDev[d] /\ xsSerial[d] # NoSerial /\ xsSerial[d] = devSerial[d])

\* Whether tap_ctl_list returns the outer join for every answer the
\* tapdisks may give to LIST, and the entries of those joins.
ListsAreJoins == \A a \in ListAnswers : IsOuterJoin(SysMinors, TapPids, a)
JoinEntries == UNION { RefJoin(SysMinors, TapPids, a) : a \in ListAnswers }

\* tap_ctl_list, for every answer the tapdisks may give to LIST, returns
\* the 3-way outer join of sysfs minors, tapdisks and their VBDs, each
\* entry once; and the tap entry the broker keeps for each listed device is
\* an entry of such a join.
ListIsOuterJoin ==
  /\ ListsAreJoins
  /\ \A d \in Devs : devIn[d] => devTap[d] \in JoinEntries

\* The broker never reaches BUG() in handle_otherend_watch: every frontend
\* state event it reads belongs to a device on its list.
NoBug == bpc # "bug"

\* The broker advertises Connected only to a frontend that has published
\* its ring (Initialised or Connected): the frontend may move on while
\* blkback_connect_tap waits for tapdisk, and the conflict of the commit
\* (EAGAIN) then runs the handler again on the frontend's new state.
ConnectedOnlyToReadyFrontend ==
  [][\A d \in Devs :
       (xsState'[d] = "Connected" /\ xsState[d] # "Connected")
         => frontState[d] \in {"Initialised", "Connected"}]_vars

\* When the backend advertises Connected to the guest, a tapdisk blkif
\* serves the device (blkback_connect_tap skips the RPC when bdev->gref is
\* set and rewrites Connected).
BackendConnectedServed ==
  \A d \in Devs : (xsDev[d] /\ xsState[d] = "Connected") => Tap!BlkifFind(d) # Tap!NoCtx

\* The ring of a device is attached to the VBD the toolstack set up for
\* that device: blkback_find_tapdisk picked the tap_ctl_list entry of the
\* device's own minor, whose minor the connect sends as cookie.
ConnectedToOwnVbd ==
  \A d \in Devs : Tap!BlkifFind(d) # Tap!NoCtx => tapVbd[d] = DevMinor[d]

=============================================================================
