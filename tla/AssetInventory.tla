--------------------------- MODULE AssetInventory ---------------------------
(***************************************************************************)
(* The asset inventory of one tenant: device reports are correlated with   *)
(* an asset and become observations (assets.py, scan_ingest.py,            *)
(* inventory.py), and staff merge, split, reassociate and correct what     *)
(* correlation decided (identity_ops.py, routers/assets.py).               *)
(*                                                                         *)
(* An observation is what one run reported under one observation_key; its  *)
(* facts are abstracted to the strong identifier it carries.  The other    *)
(* evidence only decides between several assets with that identifier, and  *)
(* is a free choice here; Correlation has the scores.                      *)
(***************************************************************************)
EXTENDS Naturals, FiniteSets

CONSTANTS AssetIds,      \* ids, given out in ascending order
          Macs, DeviceRuns,
          MaxReports     \* bound: reports ingested

ASSUME InventoryAssumption ==
    AssetIds \subseteq Nat \ {0} /\ IsFiniteSet(AssetIds) /\ MaxReports \in Nat

VARIABLES
    assetRow,       \* per asset: exists, merged_into_asset_id, first_seen set
    identifier,     \* per asset and identifier: its AssetIdentifier row
    observations,   \* AssetObservation rows
    decisions,      \* per run and key: the asset of AssetCorrelationDecision
    devices         \* per asset: its Device rows, by hostname

inventoryVars == <<assetRow, identifier, observations, decisions, devices>>

Absent == [exists |-> FALSE, into |-> 0, seen |-> FALSE]
Observation == [run : DeviceRuns, mac : Macs, asset : AssetIds]

InventoryTypeOK ==
    /\ assetRow \in [AssetIds -> [exists : BOOLEAN, into : AssetIds \cup {0}, seen : BOOLEAN]]
    /\ identifier \in [AssetIds -> [Macs -> {"none", "scanner", "manual", "incorrect"}]]
    /\ observations \subseteq Observation
    /\ decisions \in [DeviceRuns \X Macs -> AssetIds \cup {0}]
    /\ devices \in [AssetIds -> SUBSET Macs]

InitInventory ==
    /\ assetRow = [a \in AssetIds |-> Absent]
    /\ identifier = [a \in AssetIds |-> [m \in Macs |-> "none"]]
    /\ observations = {}
    /\ decisions = [d \in DeviceRuns \X Macs |-> 0]
    /\ devices = [a \in AssetIds |-> {}]

Unmerged == {a \in AssetIds : assetRow[a].exists /\ assetRow[a].into = 0}
Unused == {a \in AssetIds : ~assetRow[a].exists}
NewId == CHOOSE a \in Unused : \A b \in Unused : a <= b
Added(seen) == [assetRow EXCEPT ![NewId] = [exists |-> TRUE, into |-> 0, seen |-> seen]]

\* upsert_identifier: a row marked incorrect is left alone.
Upserted(ids, m, source) == [ids EXCEPT ![m] = IF @ = "none" THEN source ELSE @]

Matches(m) == {a \in Unmerged : identifier[a][m] \in {"scanner", "manual"}}

-----------------------------------------------------------------------------
(* Reports of a run *)

\* ingest_device_report: a decision already stored for the run and key is
\* kept.  One match is linked, several may be, none creates an asset.
Observe(a, r, m, rowsAfter) ==
    /\ Cardinality(observations) < MaxReports
    /\ assetRow' = rowsAfter
    /\ identifier' = [identifier EXCEPT ![a] = Upserted(@, m, "scanner")]
    /\ observations' = observations \cup {[run |-> r, mac |-> m, asset |-> a]}
    /\ decisions' = [decisions EXCEPT ![<<r, m>>] = a]
    /\ devices' = [devices EXCEPT ![a] = IF @ = {} THEN {m} ELSE @]

LinkReport(r, m) ==
    /\ decisions[<<r, m>>] = 0
    /\ \E a \in Matches(m) : Observe(a, r, m, [assetRow EXCEPT ![a].seen = TRUE])

CreateFromReport(r, m) ==
    /\ decisions[<<r, m>>] = 0 /\ Cardinality(Matches(m)) # 1 /\ Unused # {}
    /\ Observe(NewId, r, m, Added(TRUE))

\* create_expected_asset
CreateExpected(m) ==
    /\ Unused # {}
    /\ assetRow' = Added(FALSE)
    /\ identifier' = [identifier EXCEPT ![NewId][m] = "manual"]
    /\ UNCHANGED <<observations, decisions, devices>>

-----------------------------------------------------------------------------
(* Staff operations *)

ObservedMacs(rows, a) == {o.mac : o \in {x \in rows : x.asset = a}}

\* Mutated form: identifiers of observations that have gone are kept.
Rebuilt_Adds(ids, macs) ==
    [m \in Macs |-> IF m \in macs /\ ids[m] = "none" THEN "scanner" ELSE ids[m]]

\* rebuild_scanner_projections: active scanner rows are deleted, then every
\* remaining observation is replayed; manual and incorrect rows stay.
Rebuilt(ids, macs) ==
    [m \in Macs |-> IF ids[m] \in {"manual", "incorrect"} THEN ids[m]
                    ELSE IF m \in macs THEN "scanner" ELSE "none"]

Moved(rows, s, t) ==
    {IF o.asset = s /\ [o EXCEPT !.asset = t] \notin rows THEN [o EXCEPT !.asset = t] ELSE o : o \in rows}

\* Mutated form: the target may be merged itself.
MayMerge_Target(t, s) == s \in Unmerged /\ assetRow[t].exists /\ t # s

MayMerge(t, s) == {t, s} \subseteq Unmerged /\ t # s

\* merge_assets: what the target already has stays on the source.
MergeAssets(t, s) ==
    /\ MayMerge(t, s)
    /\ LET rows == Moved(observations, s, t)
           taken == {m \in Macs : identifier[t][m] = "none"}
           ids == [m \in Macs |-> IF m \in taken THEN identifier[s][m] ELSE identifier[t][m]]
       IN /\ observations' = rows
          /\ identifier' = [identifier EXCEPT
                ![t] = Rebuilt(ids, ObservedMacs(rows, t)),
                ![s] = [m \in Macs |-> IF m \in taken THEN "none" ELSE identifier[s][m]]]
          /\ assetRow' = [assetRow EXCEPT
                ![s].into = t, ![s].seen = ObservedMacs(rows, s) # {},
                ![t].seen = ObservedMacs(rows, t) # {}]
    /\ devices' = [devices EXCEPT ![t] = @ \cup devices[s], ![s] = {}]
    /\ UNCHANGED decisions

Reassociated(o, s, t, rowsBefore) ==
    LET rows == (observations \ {o}) \cup {[o EXCEPT !.asset = t]}
    IN /\ observations' = rows
       /\ identifier' = [identifier EXCEPT
             ![s] = Rebuilt(@, ObservedMacs(rows, s)), ![t] = Rebuilt(@, ObservedMacs(rows, t))]
       /\ assetRow' = [rowsBefore EXCEPT
             ![s].seen = ObservedMacs(rows, s) # {}, ![t].seen = TRUE]
       /\ UNCHANGED <<decisions, devices>>

\* reassociate_observations: neither side is merged, and the target has no
\* observation of the same run and key.
ReassociateObservation(o, t) ==
    /\ o.asset \in Unmerged /\ t \in Unmerged \ {o.asset}
    /\ [o EXCEPT !.asset = t] \notin observations
    /\ Reassociated(o, o.asset, t, assetRow)

\* split_observations_to_new_asset
SplitObservation(o) ==
    /\ o.asset \in Unmerged /\ Unused # {}
    /\ Reassociated(o, o.asset, NewId, Added(FALSE))

\* correct_identifier, with or without a replacement.
CorrectIdentifier(a, m) ==
    /\ identifier[a][m] \in {"scanner", "manual"}
    /\ \/ identifier' = [identifier EXCEPT ![a][m] = "incorrect"]
       \/ \E n \in Macs :
            /\ identifier[a][n] = "none"
            /\ identifier' = [identifier EXCEPT ![a][m] = "incorrect", ![a][n] = "manual"]
    /\ UNCHANGED <<assetRow, observations, decisions, devices>>

NextInventory ==
    \/ \E r \in DeviceRuns, m \in Macs : LinkReport(r, m) \/ CreateFromReport(r, m)
    \/ \E m \in Macs : CreateExpected(m)
    \/ \E t, s \in AssetIds : MergeAssets(t, s)
    \/ \E o \in observations : SplitObservation(o) \/ \E t \in AssetIds : ReassociateObservation(o, t)
    \/ \E a \in AssetIds, m \in Macs : CorrectIdentifier(a, m)

-----------------------------------------------------------------------------
\* The current facts of an asset are those of the observations it holds now:
\* every observation has its identifier row, no scanner row outlives its last
\* observation, and first_seen is set exactly when something was observed.
ProjectionFollowsObservations ==
    \A a \in Unmerged :
        /\ {m \in Macs : identifier[a][m] = "scanner"} \subseteq ObservedMacs(observations, a)
        /\ \A m \in ObservedMacs(observations, a) : identifier[a][m] # "none"
        /\ assetRow[a].seen <=> ObservedMacs(observations, a) # {}

Follow == [a \in AssetIds |-> IF assetRow[a].into = 0 THEN a ELSE assetRow[a].into]

\* canonical_asset_id: a stored decision of a run leads, along the chain of
\* merges, to an asset that is not merged and that an unmerged chain ends in;
\* a merged asset keeps no device.
DecisionsResolve ==
    /\ \A d \in DeviceRuns \X Macs : decisions[d] # 0 =>
          \E n \in 1 .. Cardinality(AssetIds) :
              \E path \in [1 .. n -> AssetIds] :
                  /\ path[1] = decisions[d] /\ path[n] \in Unmerged
                  /\ \A i \in 1 .. n - 1 : path[i + 1] = Follow[path[i]]
    /\ \A a \in AssetIds : assetRow[a].into # 0 => devices[a] = {}
=============================================================================
