------------------------------ MODULE BlkifIovec ------------------------------
(***************************************************************************)
(* One request slot of a tapdisk blkif, from the request copied off the   *)
(* ring to the iovec view handed to the VBD: xenio_blkif_parse_request,   *)
(* xenio_blkif_mmap_one with xenio_blkif_vector_request, and             *)
(* tapdisk_xenblkif_vector_request.  The slot serves MaxRequests requests *)
(* in turn, so whatever one request leaves in it is seen by the next.     *)
(*                                                                         *)
(* Positions and lengths are in 512-byte sectors, relative to the start of *)
(* the request's mapping (req->vma): page i of the mapping starts at      *)
(* (i-1) * SectorsPerPage.  The request id, operation and sector number   *)
(* only travel through these steps and are left out.                      *)
(***************************************************************************)
EXTENDS Integers, Sequences, SequencesExt, FiniteSets

CONSTANTS
  MaxSegments,     \* BLKIF_MAX_SEGMENTS_PER_REQUEST
  SectorsPerPage,  \* XC_PAGE_SIZE >> 9
  MaxRequests,     \* bound: requests the slot serves in a behaviour
  MapFaults        \* {"map_fail"}: xc_gnttab_map_domain_grant_refs may fail

ASSUME MaxSegments \in Nat \ {0} /\ SectorsPerPage \in Nat \ {0}

\* Segment fields the guest may write: first_sect and last_sect are u8;
\* values up to SectorsPerPage reach every check of the parser.
SectorVals == 0 .. SectorsPerPage
Seg == [first : SectorVals, last : SectorVals]
ZeroSeg == [first |-> 0, last |-> 0]

\* Requests as read off the ring: nr_segments and the segment array (one
\* entry beyond the array's MaxSegments stands for the bytes after it).
\* Entries past nr_segments are zero: the parser never reads them.
Msgs ==
  UNION { { [nr |-> n, seg |-> [i \in 1 .. MaxSegments + 1 |->
                                  IF i <= n THEN segs[i] ELSE ZeroSeg]]
            : segs \in [1 .. n -> Seg] }
          : n \in 0 .. MaxSegments + 1 }

Iovec == [base : Int, len : Int]
NoIov == [base |-> 0, len |-> 0]   \* a td_iovec of the calloc'ed slot

VARIABLES
  msg,     \* the request in the slot (tapreq->msg)
  pc,      \* "free", "received", "parsed", "mapped", "queued", "failed"
  xiov,    \* req->iov[0 .. n_iov-1], computed by vector_request
  tdIov,   \* tapreq->iov[], the td_iovec array of the slot
  iovcnt,  \* vreq->iovcnt
  served   \* requests the slot has completed

vars == <<msg, pc, xiov, tdIov, iovcnt, served>>

-----------------------------------------------------------------------------
(* The algorithms.                                                         *)

\* Mutant: the segment count is checked with > MaxSegments + 1.
ParseRequestLoose(m) ==
  IF m.nr > MaxSegments + 1 THEN "EINVAL"
  ELSE IF \E i \in 1 .. m.nr : m.seg[i].last < m.seg[i].first \/ SectorsPerPage < m.seg[i].last
       THEN "EINVAL" ELSE "ok"

\* xenio_blkif_parse_request: n_segs within the array, and every segment
\* with first <= last and last not above sectors-per-page.
ParseRequest(m) ==
  IF m.nr > MaxSegments THEN "EINVAL"
  ELSE IF \E i \in 1 .. m.nr : m.seg[i].last < m.seg[i].first \/ SectorsPerPage < m.seg[i].last
       THEN "EINVAL" ELSE "ok"

\* Mutant: every segment starts a new iovec.
VectorRequestNoMerge(m) ==
  [i \in 1 .. m.nr |-> [base |-> (i - 1) * SectorsPerPage + m.seg[i].first,
                        len  |-> m.seg[i].last - m.seg[i].first + 1]]

\* xenio_blkif_vector_request: walk the segments page by page; a segment
\* starting where the current iovec ends extends it, any other starts a new
\* one.
VectorRequest(m) ==
  LET step(iov, i) ==
        LET next == (i - 1) * SectorsPerPage + m.seg[i].first
            size == m.seg[i].last - m.seg[i].first + 1
        IN  IF iov # <<>> /\ next = Last(iov).base + Last(iov).len
            THEN [iov EXCEPT ![Len(iov)].len = @ + size]
            ELSE Append(iov, [base |-> next, len |-> size])
  IN  FoldLeft(step, <<>>, [k \in 1 .. m.nr |-> k])

\* tapdisk_xenblkif_vector_request: the loop runs n_iov times but reads
\* req->iov and writes tapreq->iov through pointers that are never
\* advanced, so only element 0 is written, from xenio iovec 0.
TdVectorRequest(iov, td) ==
  IF iov = <<>> THEN td ELSE [td EXCEPT ![1] = iov[1]]

\* Outcomes of the grant mapping in xenio_blkif_mmap_one.
MapResults == {"ok"} \cup (IF "map_fail" \in MapFaults THEN {"EFAULT"} ELSE {})

-----------------------------------------------------------------------------
(* The slot.                                                               *)

Init ==
  /\ msg = [nr |-> 0, seg |-> [i \in 1 .. MaxSegments + 1 |-> ZeroSeg]]
  /\ pc = "free"
  /\ xiov = <<>>
  /\ tdIov = [i \in 1 .. MaxSegments |-> NoIov]
  /\ iovcnt = 0
  /\ served = 0

\* The guest's request is copied into a free slot.
Receive ==
  /\ pc = "free" /\ served < MaxRequests
  /\ \E m \in Msgs : msg' = m
  /\ pc' = "received"
  /\ UNCHANGED <<xiov, tdIov, iovcnt, served>>

Parse ==
  /\ pc = "received"
  /\ pc' = IF ParseRequest(msg) = "ok" THEN "parsed" ELSE "failed"
  /\ UNCHANGED <<msg, xiov, tdIov, iovcnt, served>>

\* xenio_blkif_mmap_one: map the grants, then compute the iovecs.
Map ==
  /\ pc = "parsed"
  /\ \E r \in MapResults :
       IF r = "ok" THEN /\ xiov' = VectorRequest(msg) /\ pc' = "mapped"
       ELSE /\ pc' = "failed" /\ UNCHANGED xiov
  /\ UNCHANGED <<msg, tdIov, iovcnt, served>>

\* tapdisk_xenblkif_make_vbd_request builds the VBD request's iovec view.
MakeVbd ==
  /\ pc = "mapped"
  /\ tdIov' = TdVectorRequest(xiov, tdIov)
  /\ iovcnt' = Len(xiov)
  /\ pc' = "queued"
  /\ UNCHANGED <<msg, xiov, served>>

\* The response is published and the slot freed.
Complete ==
  /\ pc \in {"queued", "failed"}
  /\ pc' = "free"
  /\ served' = served + 1
  /\ UNCHANGED <<msg, xiov, tdIov, iovcnt>>

Next == Receive \/ Parse \/ Map \/ MakeVbd \/ Complete

Spec == Init /\ [][Next]_vars

-----------------------------------------------------------------------------
(* Reference (spec 4.1, request parse and grant mapping).                  *)

\* A request the spec accepts: at most MaxSegments segments, each with
\* first <= last <= SectorsPerPage - 1.
SpecValid(m) ==
  /\ m.nr <= MaxSegments
  /\ \A i \in 1 .. m.nr : m.seg[i].first <= m.seg[i].last /\ m.seg[i].last < SectorsPerPage

\* The sectors of the mapping a request's segments name.
Covered(m) ==
  UNION { (i - 1) * SectorsPerPage + m.seg[i].first .. (i - 1) * SectorsPerPage + m.seg[i].last
          : i \in 1 .. m.nr }

\* The iovecs the spec asks for: one per maximal run of covered sectors,
\* in address order.
RefIovecs(m) ==
  LET S      == Covered(m)
      starts == SetToSortSeq({s \in S : s - 1 \notin S}, <)
      runLen(s) == CHOOSE k \in 1 .. Cardinality(S) : s + k \notin S /\ \A j \in 0 .. k - 1 : s + j \in S
  IN  [j \in 1 .. Len(starts) |-> [base |-> starts[j], len |-> runLen(starts[j])]]

-----------------------------------------------------------------------------
(* Properties.                                                             *)

\* Types; the iovec arrays (req->iov[], tapreq->iov[]) are never written
\* past their BLKIF_MAX_SEGMENTS_PER_REQUEST entries.
TypeOK ==
  /\ msg \in Msgs
  /\ pc \in {"free", "received", "parsed", "mapped", "queued", "failed"}
  /\ xiov \in Seq(Iovec) /\ Len(xiov) <= MaxSegments
  /\ tdIov \in [1 .. MaxSegments -> Iovec]
  /\ iovcnt \in 0 .. MaxSegments
  /\ served \in 0 .. MaxRequests

\* For every request the spec accepts, the mapped request's iovecs are
\* exactly the maximal runs of the sectors its segments name: adjacent
\* segments coalesce, nothing is lost or counted twice.
IovecMatchesSegments ==
  (pc \in {"mapped", "queued"} /\ SpecValid(msg)) => xiov = RefIovecs(msg)

\* Every iovec of a mapped request lies inside the request's mapping of
\* nr_segments pages (I/O never reaches past req->vma's pages).
IovecsWithinMapping ==
  pc \in {"mapped", "queued"} =>
    \A j \in 1 .. Len(xiov) : xiov[j].base + xiov[j].len <= msg.nr * SectorsPerPage

\* The VBD sees the request's data: its iovcnt td_iovecs are the xenio
\* iovecs (same base, same length).
TdIovecMatches ==
  pc = "queued" => iovcnt = Len(xiov) /\ \A j \in 1 .. iovcnt : tdIov[j] = xiov[j]

=============================================================================
