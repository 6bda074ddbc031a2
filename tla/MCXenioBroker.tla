---------------------------- MODULE MCXenioBroker ----------------------------
EXTENDS XenioBroker, TLC

CONSTANTS d1

MCDevs1 == {d1}
AllBrokerFaults == {"list_fail", "xs_write_fail", "glob_fail", "tap_fail"}
NoBrokerFaults == {}

\* Two blktap minors: 0 holds the VBD of another guest's disk, 1 the VBD of
\* d1; tapdisk 10 serves both, tapdisk 11 is idle.
MCSysMinors == <<0, 1>>
MCTapPids == <<10, 11>>
MCTapFrames == (10 :> <<0, 1>>) @@ (11 :> <<>>)
MCServingPid == 10
MCDevMinor == [d \in MCDevs1 |-> 1]

\* A frontend with no protocol node (native ABI), or one naming an ABI
\* the broker does not know.
MCFrontProtos == {Absent, "arm-abi"}
NativeOnly == {Absent}
=============================================================================
