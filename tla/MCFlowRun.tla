----------------------------- MODULE MCFlowRun -----------------------------
(* Small runs of a flow.  The participant uses one message per step of its   *)
(* own, and delivers it as often as there are deliveries.                    *)
EXTENDS FlowRun, TLC

CONSTANTS p1, p2, p3, c1, c2, s1, r1, h1, h2, h3

\* Message m is the participant's call for step m.
MCMsg == Step \ Ours
MCActionOf == [m \in MCMsg |-> m]

\* Callers of flow_proceed are interchangeable.
MCSymmetry == Permutations(ByFlow) \cup Permutations(ByTransaction)

\* Our step, the participant's, ours again.
Alternating == {1, 3}
\* The participant opens the flow.
TheirsFirst == {2}
\* Two steps of ours in a row.
OursTwice == {1, 2}
\* A flow of one kind of step only.
OursOnly == {1}
NoneOurs == {}
=============================================================================
