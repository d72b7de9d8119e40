----------------------------- MODULE Correlation -----------------------------
(***************************************************************************)
(* Which asset a device report belongs to (correlation.py).  A candidate   *)
(* asset is reduced to the evidence score_candidate finds for it: a strong *)
(* identifier, a name, corroboration, the site.  The candidates are in the *)
(* order of their ids.                                                     *)
(***************************************************************************)
EXTENDS Integers, Sequences, FiniteSets

CONSTANTS Corroborations,    \* sums of the corroborating contributions
          MaxCandidates      \* bound: candidates of one report

ASSUME CorrelationAssumption == Corroborations \subseteq Nat /\ MaxCandidates \in Nat

VARIABLES lanScope, candidates

correlationVars == <<lanScope, candidates>>

Names == {"none", "host", "fqdn", "clash", "clash_fqdn"}
Candidate == [strong : BOOLEAN, blocked : BOOLEAN, name : Names,
              corroboration : Corroborations, site : BOOLEAN]

CorrelationTypeOK == lanScope \in BOOLEAN /\ candidates \in Seq(Candidate)

InitCorrelation == lanScope = TRUE /\ candidates = <<>>

\* _eligible: another or an unknown site needs a strong match.  A hostname
\* conflict counts only without one; a conflicting strong identifier blocks.
\* Of a blocked candidate nothing but its hostname is read.
Eligible(c) ==
    /\ (lanScope /\ ~c.strong) => c.site
    /\ ~lanScope => ~c.site
    /\ c.strong => c.name \notin {"clash", "clash_fqdn"}
    /\ c.blocked => ~c.strong /\ c.corroboration = 0

ChooseScope == candidates = <<>> /\ lanScope' = ~lanScope /\ UNCHANGED candidates

AddCandidate ==
    /\ Len(candidates) < MaxCandidates
    /\ \E c \in Candidate : Eligible(c) /\ candidates' = Append(candidates, c)
    /\ UNCHANGED lanScope

NextCorrelation == ChooseScope \/ AddCandidate

-----------------------------------------------------------------------------
Ids == DOMAIN candidates
UniqueHostname == Cardinality({i \in Ids : candidates[i].name = "host"}) = 1

\* score_candidate
NameScore(c) ==
    CASE c.name = "host" -> IF UniqueHostname THEN 55 ELSE 25
      [] c.name = "fqdn" -> 35
      [] c.name = "clash" -> -25
      [] c.name = "clash_fqdn" -> 10
      [] OTHER -> 0
ScoreOf(i) ==
    LET c == candidates[i] IN
    (IF c.strong THEN 70 ELSE 0) + NameScore(c) + c.corroboration + (IF c.site THEN 10 ELSE 0)

Named(i) == candidates[i].name \in {"host", "fqdn", "clash_fqdn"}

\* qualifies_for_auto_match
Qualifies(i) ==
    /\ ~candidates[i].blocked
    /\ candidates[i].strong \/ (Named(i) /\ candidates[i].corroboration > 0)

\* _competitor_blocks_auto
BlocksAuto(best, rival) ==
    /\ ScoreOf(best) - ScoreOf(rival) < 15
    /\ \/ ScoreOf(rival) >= 40
       \/ Named(best) /\ Named(rival)
       \/ candidates[best].strong /\ candidates[rival].strong

Viable == {i \in Ids : ~candidates[i].blocked}

\* The first of S by descending score, then ascending id.
First(S) ==
    CHOOSE i \in S : \A j \in S :
        ScoreOf(i) > ScoreOf(j) \/ (ScoreOf(i) = ScoreOf(j) /\ i <= j)

EligibleAuto == {i \in Viable : Qualifies(i) /\ ScoreOf(i) >= 50}

\* Mutated form: the rival is the runner-up of the eligible ones only.
Rivals_Eligible(best) == EligibleAuto \ {best}

Rivals(best) == Viable \ {best}

\* decide, which looks at the first rival only.  0: no asset is selected.
Selected ==
    IF EligibleAuto = {} THEN 0
    ELSE LET best == First(EligibleAuto) IN
         IF Rivals(best) # {} /\ BlocksAuto(best, First(Rivals(best))) THEN 0 ELSE best

-----------------------------------------------------------------------------
\* A report is linked only to an asset with a strong identifier or a
\* corroborated name, never by address alone.  decide looks at the first rival
\* only: a rival close enough to make the match ambiguous is overlooked only
\* below the review threshold, and only behind one that does not make it so.
LinkIsUnrivalled ==
    Selected # 0 =>
        /\ \/ candidates[Selected].strong
           \/ Named(Selected) /\ candidates[Selected].corroboration > 0
        /\ \A j \in Viable \ {Selected} :
               BlocksAuto(Selected, j) =>
                   /\ ScoreOf(j) < 40
                   /\ \E k \in Viable \ {Selected} :
                          ScoreOf(k) >= ScoreOf(j) /\ ~BlocksAuto(Selected, k)
=============================================================================
