------------------------------- MODULE MCSrd -------------------------------
(***************************************************************************)
(* A small instance of Srd: two disks, with a unit restored on each.       *)
(***************************************************************************)
EXTENDS Srd

TwoDisks == {1, 2}
Space == [d \in Disk |-> 2]
MoreOrLess == {2, -1}
OnEach == << <<1, 1>>, <<2, 2>> >>

\* Once each, alone or with a round that times out; an upgrade begins and is
\* given up.
Times(kinds, n) == [k \in FaultKind |-> IF k \in kinds THEN n ELSE 0]
OneOrLate == {Times({"disk", "timeout"}, 1), Times({"recall"}, 1),
              Times({"space"}, 1), Times({"increase"}, 1), Times({"upgrade"}, 2)}

\* What a late verdict does to the units is not followed up.
InTime == ~overtaken

=============================================================================
