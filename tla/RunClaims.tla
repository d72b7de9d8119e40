----------------------------- MODULE RunClaims -----------------------------
(***************************************************************************)
(* What job dispatch promises, whatever the order of transactions: a run   *)
(* is taken at most once, by one worker, an agent has one run at a time,   *)
(* and a run that is over stays over and keeps its taker.                  *)
(***************************************************************************)
CONSTANTS Runs, Agents, Takers, Nobody

VARIABLES phase, taker
vars == <<phase, taker>>

Phases == {"absent", "pending", "active", "over"}

TypeOK ==
    /\ phase \in [Runs -> Phases]
    /\ taker \in [Runs -> Takers \cup {Nobody}]

Init ==
    /\ phase = [r \in Runs |-> "absent"]
    /\ taker = [r \in Runs |-> Nobody]

Submit(r) ==
    /\ phase[r] = "absent"
    /\ phase' = [phase EXCEPT ![r] = "pending"]
    /\ UNCHANGED taker

\* A run is taken to be worked on, or taken and ended at once.
Take(r, t) ==
    /\ phase[r] = "pending"
    /\ taker[r] = Nobody
    /\ t \in Agents => \A other \in Runs : ~(phase[other] = "active" /\ taker[other] = t)
    /\ \E p \in {"active", "over"} : phase' = [phase EXCEPT ![r] = p]
    /\ taker' = [taker EXCEPT ![r] = t]

\* Some runs end, taken or not.
End(S) ==
    /\ \A r \in S : phase[r] # "absent"
    /\ phase' = [r \in Runs |-> IF r \in S THEN "over" ELSE phase[r]]
    /\ UNCHANGED taker

Next ==
    \/ \E r \in Runs : Submit(r) \/ \E t \in Takers : Take(r, t)
    \/ \E S \in SUBSET Runs : End(S)

Spec == Init /\ [][Next]_vars
=============================================================================
