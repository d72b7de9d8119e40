------------------------------ MODULE Policies ------------------------------
(***************************************************************************)
(* Policy rules and the handling of an asset by them (policy.py and        *)
(* routers/policies.py): staff create, change, enable, disable and archive *)
(* rules; a report, a move or a tag of an asset and the reconcile job      *)
(* apply the rules of the category asset_handling to it; staff may set its *)
(* disposition by hand.  A report speaks for the site that its scan was    *)
(* on, which for an asset found by a strong identifier need not be the     *)
(* asset's.                                                                *)
(*                                                                         *)
(* Bounds: requests on a rule, reports and moves are taken one at a time.  *)
(* Rules of other tenants, which never apply, are left out, and so are     *)
(* conditions on the host name and ports of an observation.                *)
(***************************************************************************)
EXTENDS Integers, Sequences, FiniteSets

CONSTANTS RuleCount,       \* rules, with ids in the order of creation
          MaxChanges,      \* bound: changes of rules
          Scopes,          \* SCOPE_RANK of the scopes used: 1 global .. 4 network
          Priorities,
          PolicySites,     \* sites of the asset's tenant
          Networked        \* those with a network that the asset's address is in

ASSUME PolicyAssumption ==
    /\ {RuleCount, MaxChanges} \subseteq Nat /\ Scopes \subseteq 1 .. 4 /\ Priorities \subseteq Int
    /\ Networked \subseteq PolicySites /\ "none" \notin PolicySites

VARIABLES
    rules,       \* PolicyRule rows, in the order of their ids
    asset,       \* its disposition, tag and site, and the site last seen on
    revisions,   \* rule and revision of the policy_changed events
    resolver     \* what the open reconcile job has decided for the asset

policyVars == <<rules, asset, revisions, resolver>>

Dispositions == {"unreviewed", "approved", "unauthorized"}

\* Where a scan is: on a site, or outside all of them.
Origins == PolicySites \cup {"none"}

\* validate_conditions: no condition, or one on the asset's row, of which its
\* tag stands for all.  The operator lacks is as has with the tag negated.
Conditions == {"none", "tag"}

\* A normalized rule of the tenant.  Site and network rules name a site.
RuleBody == {b \in [scope : Scopes, at : Origins, priority : Priorities,
                    condition : Conditions, action : {"approved", "unauthorized"}] :
               /\ b.scope \in {1, 2} <=> b.at = "none"
               /\ b.scope = 4 => b.at \in Networked}

RuleRow == [body : RuleBody, enabled : BOOLEAN, archived : BOOLEAN, revision : Nat \ {0}]
AssetRow == [disposition : Dispositions, tag : BOOLEAN, site : Origins, seen : Origins]

PolicyTypeOK ==
    /\ rules \in Seq(RuleRow)
    /\ asset \in AssetRow
    /\ revisions \subseteq (1 .. RuleCount) \X (Nat \ {0})
    /\ resolver \in Dispositions \cup {"idle", "keep"}

InitPolicies ==
    /\ rules = <<>>
    /\ \E p \in Origins : asset = [disposition |-> "unreviewed", tag |-> FALSE, site |-> p, seen |-> p]
    /\ revisions = {}
    /\ resolver = "idle"

-----------------------------------------------------------------------------
(* Evaluation *)

\* observation_context: a report is of the site of its scan, and of the network
\* there that its address is in.
ReportLocality(p) == [site |-> p, network |-> p \in Networked]

\* Mutated form: the last observation counts only for the site.
OwnLocality_SiteOnly(a) == [site |-> a.site, network |-> FALSE]

\* contexts_for_assets: the locality of the last observation if it is of the
\* asset's site, else that site alone.
OwnLocality(a) == IF a.seen = a.site THEN ReportLocality(a.seen) ELSE [site |-> a.site, network |-> FALSE]

\* _scope_applies
ScopeApplies(b, c) == b.scope \in {1, 2} \/ (b.at = c.site /\ (b.scope = 3 \/ c.network))

\* load_rules and evaluate, for an asset a in the locality c.
MatchesRule(r, a, c) ==
    /\ ~r.archived /\ r.enabled
    /\ ScopeApplies(r.body, c) /\ (r.body.condition = "tag" => a.tag)

\* _rule_sort_key, compared as a tuple.
Exceeds(bi, i, bj, j) ==
    \/ bi.scope > bj.scope
    \/ bi.scope = bj.scope /\ bi.priority > bj.priority
    \/ bi.scope = bj.scope /\ bi.priority = bj.priority /\ i < j

\* Mutated form: only the priorities are compared.
Replaces_Priority(rows, i, current) ==
    current = 0 \/ rows[i].body.priority > rows[current].body.priority

Replaces(rows, i, current) == current = 0 \/ Exceeds(rows[i].body, i, rows[current].body, current)

\* PolicyResolver.evaluate: the loop over the rules in the order of their ids.
Evaluate(rows, a, c) ==
    LET winner[i \in 0 .. Len(rows)] ==
            IF i = 0 THEN 0
            ELSE IF MatchesRule(rows[i], a, c) /\ Replaces(rows, i, winner[i - 1]) THEN i ELSE winner[i - 1]
    IN winner[Len(rows)]

\* apply_asset_handling: without a winner the asset stays as it is.
Handled(rows, a, c) ==
    LET winner == Evaluate(rows, a, c) IN
    IF winner = 0 THEN a ELSE [a EXCEPT !.disposition = rows[winner].body.action]

-----------------------------------------------------------------------------
(* Operations *)

\* The audit row and emit_policy_changed of a change.
Changes(i, row) ==
    /\ rules' = [rules EXCEPT ![i] = [row EXCEPT !.revision = row.revision + 1]]
    /\ revisions' = revisions \cup {<<i, row.revision + 1>>}
    /\ UNCHANGED <<asset, resolver>>

CreatePolicy(b) ==
    /\ Len(rules) < RuleCount
    /\ rules' = Append(rules, [body |-> b, enabled |-> TRUE, archived |-> FALSE, revision |-> 1])
    /\ revisions' = revisions \cup {<<Len(rules) + 1, 1>>}
    /\ UNCHANGED <<asset, resolver>>

MayChange(i) == ~rules[i].archived /\ Cardinality(revisions) < Len(rules) + MaxChanges

UpdatePolicy(i, b) ==
    /\ MayChange(i) /\ b # rules[i].body
    /\ Changes(i, [rules[i] EXCEPT !.body = b])

SetPolicyEnabled(i) == MayChange(i) /\ Changes(i, [rules[i] EXCEPT !.enabled = ~@])

ArchivePolicy(i) ==
    MayChange(i) /\ Changes(i, [rules[i] EXCEPT !.archived = TRUE, !.enabled = FALSE])

\* update_asset
SetDisposition(d) ==
    /\ asset' = [asset EXCEPT !.disposition = d]
    /\ UNCHANGED <<rules, revisions, resolver>>

\* add_asset_tag and delete_asset_tag: the rules are applied to the tags that
\* are stored, which the pending change is not among.
ChangeTag ==
    /\ asset' = [Handled(rules, asset, OwnLocality(asset)) EXCEPT !.tag = ~@]
    /\ UNCHANGED <<rules, revisions, resolver>>

\* move_asset_site applies the rules with the new site and no network.
MoveAsset(p) ==
    /\ asset' = Handled(rules, [asset EXCEPT !.site = p], [site |-> p, network |-> FALSE])
    /\ UNCHANGED <<rules, revisions, resolver>>

\* _apply_observation_lifecycle and append_observation: the asset is seen at p, and
\* without a site it takes that of its first LAN scan.
SeenAt(a, p) == [a EXCEPT !.seen = p, !.site = IF @ = "none" THEN p ELSE @]

\* ingest_device_report of a scan at p, with apply_asset_handling_for_observation.
Reported(rows, a, p) == Handled(rows, SeenAt(a, p), ReportLocality(p))

HandleReport(p) ==
    /\ asset' = Reported(rules, asset, p)
    /\ UNCHANGED <<rules, revisions, resolver>>

\* What a reconcile pass makes of the asset.
Passed(rows, a) == Handled(rows, a, OwnLocality(a))

\* reconcile_asset_handling_job loads rules, asset and context and decides,
\* and writes what it changed when it commits.
LoadRules ==
    /\ resolver = "idle"
    /\ resolver' = LET new == Passed(rules, asset).disposition
                   IN IF new = asset.disposition THEN "keep" ELSE new
    /\ UNCHANGED <<rules, asset, revisions>>

Reconcile ==
    /\ resolver # "idle"
    /\ asset' = IF resolver = "keep" THEN asset ELSE [asset EXCEPT !.disposition = resolver]
    /\ resolver' = "idle"
    /\ UNCHANGED <<rules, revisions>>

NextPolicies ==
    \/ \E b \in RuleBody : CreatePolicy(b)
    \/ \E i \in DOMAIN rules : SetPolicyEnabled(i) \/ ArchivePolicy(i) \/ \E b \in RuleBody : UpdatePolicy(i, b)
    \/ \E d \in Dispositions : SetDisposition(d)
    \/ \E p \in PolicySites : MoveAsset(p)
    \/ \E p \in Origins : HandleReport(p)
    \/ ChangeTag \/ LoadRules \/ Reconcile

-----------------------------------------------------------------------------
\* The localities in which the rules may be applied to the asset next.
Localities(a) == {ReportLocality(p) : p \in Origins} \cup {OwnLocality(a)}

\* The loop picks the strongest of the rules that are in force and match:
\* narrowest scope, then highest priority, then the older rule; and no rule
\* that is disabled, archived or about another place.
WinnerIsStrongest ==
    \A c \in Localities(asset) :
        LET matching == {i \in DOMAIN rules : MatchesRule(rules[i], asset, c)}
            winner == Evaluate(rules, asset, c)
        IN IF matching = {} THEN winner = 0
           ELSE /\ winner \in matching
                /\ \A j \in matching \ {winner} : Exceeds(rules[winner].body, winner, rules[j].body, j)

\* Under the same rules the handling of an asset settles in each locality: the
\* same report again, or the same pass again, changes nothing; and a report from
\* the asset's own site agrees with the passes after it, so that these do not
\* drive the asset back and forth with an event and an alert each time.  Reports
\* from another site and passes may disagree for ever.
HandlingSettles ==
    /\ \A p \in Origins :
          LET once == Reported(rules, asset, p)
          IN Reported(rules, once, p) = once /\ (once.site = p => Passed(rules, once) = once)
    /\ LET once == Passed(rules, asset) IN Passed(rules, once) = once
=============================================================================
