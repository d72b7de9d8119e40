-------------------------- MODULE MCScanScheduling --------------------------
(* Small instances of ScanScheduling for TLC. *)
EXTENDS ScanScheduling, TLC

Manual == [kind |-> "manual", every |-> 1, at |-> {}]
Interval == [kind |-> "interval", every |-> 2, at |-> {}]
EveryInstant == [kind |-> "clock", every |-> 1, at |-> {0}]
OddInstants == [kind |-> "clock", every |-> 2, at |-> {1}]

\* Two instants, and then none within the horizon.
Rare == [kind |-> "clock", every |-> 9, at |-> {1, 2}]

MCPlans == {Manual, Interval, OddInstants, Rare}
TickPlans == {EveryInstant, Rare}
=============================================================================
