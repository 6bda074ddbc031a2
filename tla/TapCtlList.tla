------------------------------ MODULE TapCtlList ------------------------------
(***************************************************************************)
(* tap_ctl_list (control/tap-ctl-list.c): the list of tapdisks and blktap *)
(* minors, a 3-way outer join of the minors found in sysfs, the tapdisks  *)
(* found by their control sockets, and the VBD minors each tapdisk reports *)
(* to a LIST request; and blkback_find_tapdisk (xenio.c), which picks an  *)
(* entry of that list for a device.                                        *)
(*                                                                         *)
(* The state, type and path of an entry only travel through the join and  *)
(* are left out: an entry is its pid and minor, -1 where absent.           *)
(***************************************************************************)
EXTENDS Integers, Sequences, SequencesExt, FiniteSets

\* The pid and minor _tap_list_alloc gives a fresh entry.
NoId == -1

Entry(p, m) == [pid |-> p, minor |-> m]

\* The answer of a tapdisk to LIST: the minors of its VBDs, one frame each
\* in the order sent; or a failure of the connect, the write, a read or the
\* parse of a path.
Frames(ms) == [ok |-> TRUE, frames |-> ms]
ListFail == [ok |-> FALSE, frames |-> <<>>]

\* _tap_ctl_list_tapdisk: frames are inserted at the head, so the VBDs come
\* out in reverse order; on any failure the list is empty (freed, or never
\* initialised when the connect or the write failed: tap_ctl_list then tests
\* err first).
ListTapdisk(ans) == IF ans.ok THEN Reverse(ans.frames) ELSE <<>>

\* _tap_ctl_find_minors returns the sysfs minors in glob order;
\* _tap_ctl_find_tapdisks the pids of the control sockets whose process is
\* alive (tap_ctl_get_pid).  Both are inputs here.

\* Mutant: a VBD's minor is never taken off the minors list.
ClaimNone(ms, vs) == ms

\* The inner loop of tap_ctl_list: every VBD takes the first minor equal
\* to its own off the list of minors.
Claim(ms, vs) == FoldLeft(LAMBDA acc, v : RemoveFirst(acc, v), ms, vs)

\* tap_ctl_list: each tapdisk in turn contributes its VBDs, or itself alone
\* when it reported none; the minors no VBD claimed follow as orphans.
RECURSIVE Join(_, _, _, _)
Join(ts, ms, ans, out) ==
  IF ts = <<>>
  THEN out \o [i \in 1 .. Len(ms) |-> Entry(NoId, ms[i])]
  ELSE LET t  == Head(ts)
           vs == ListTapdisk(ans[t])
       IN  IF vs = <<>>
           THEN Join(Tail(ts), ms, ans, Append(out, Entry(t, NoId)))
           ELSE Join(Tail(ts), Claim(ms, vs), ans,
                     out \o [i \in 1 .. Len(vs) |-> Entry(t, vs[i])])

TapCtlList(minors, pids, ans) == Join(pids, minors, ans, <<>>)

\* blkback_find_tapdisk: the first entry whose minor is minor(bdev->dev),
\* or none (ENOENT).
NoTap == Entry(NoId, NoId)
BlkbackFindTapdisk(list, minor) ==
  IF \E i \in 1 .. Len(list) : list[i].minor = minor
  THEN list[SelectInSeq(list, LAMBDA e : e.minor = minor)]
  ELSE NoTap

-----------------------------------------------------------------------------
(* Reference (spec 4.4 and 6.4: list is a 3-way outer join).               *)

\* One entry per (tapdisk, VBD) pair, one per tapdisk without VBDs, one per
\* sysfs minor no tapdisk reported.
RefJoin(minors, pids, ans) ==
  LET attached == UNION { Range(ListTapdisk(ans[p])) : p \in Range(pids) }
  IN    UNION { { Entry(p, m) : m \in Range(ListTapdisk(ans[p])) } : p \in Range(pids) }
      \cup { Entry(p, NoId) : p \in { q \in Range(pids) : ListTapdisk(ans[q]) = <<>> } }
      \cup { Entry(NoId, m) : m \in Range(minors) \ attached }

\* The list tap_ctl_list returns is the outer join, each entry once.
IsOuterJoin(minors, pids, ans) ==
  LET l == TapCtlList(minors, pids, ans)
  IN  Range(l) = RefJoin(minors, pids, ans) /\ Len(l) = Cardinality(Range(l))

=============================================================================
