---------------------------- MODULE ScanPipeline ----------------------------
(***************************************************************************)
(* One run of the scan pipeline of a worker (scan_runtime/runner.py): the  *)
(* stages in their order, the commands they start, what they leave in the  *)
(* spool and in the staging directory, and what a finished run declares.   *)
(*                                                                         *)
(* A host is an explicit target, in a group of its own for its SNI, or a   *)
(* member of the one CIDR target.  Names, titles and versions are left out.*)
(***************************************************************************)
EXTENDS Naturals

CONSTANTS Explicit,    \* hosts that are targets by themselves
          Block        \* hosts of the CIDR target

ASSUME PipelineAssumption == Explicit \cap Block = {} /\ Explicit \cup Block # {}

VARIABLES
    stages,      \* the stage configuration and the scope of the run
    pipe,        \* where the pipeline stands, and its DeviceIndex
    cancelled,   \* JobControl: the cancel event is set or the deadline passed
    output       \* artifacts, and records appended to the spool

pipelineVars == <<stages, pipe, cancelled, output>>

Targets == Explicit \cup Block
Stages == [discovery : BOOLEAN, ports : BOOLEAN, scope : {"detected", "all"},
           fingerprint : BOOLEAN, nuclei : BOOLEAN, lan : BOOLEAN]

\* What normalize_stage_config lets through.
ValidStages(s) ==
    /\ ~s.ports => s.scope = "detected"
    /\ s.ports /\ s.scope = "detected" => s.discovery
    /\ s.discovery \/ s.fingerprint \/ s.nuclei \/ s.ports

ArtifactKeys == {"discovery", "ports", "httpx", "nuclei"}

Pipe == [at : {"discovery", "identity", "ports", "fingerprint", "httpx", "vulnerability",
               "nuclei", "finalize", "mark", "complete", "failed"},
         found : SUBSET Targets,    \* DeviceIndex.ports
         open : SUBSET Targets,     \* those with a port
         urls : SUBSET Targets,     \* http_urls
         given : SUBSET Targets,    \* what the tool that runs was given
         todo : SUBSET Targets,     \* of which it has not scanned yet
         broken : BOOLEAN,          \* last_error of run_nuclei
         raw : BOOLEAN,             \* the combined file of Nuclei exists
         scanned : SUBSET Targets]  \* Nuclei ended well on these
Output == [artifacts : SUBSET ArtifactKeys, devices : SUBSET Targets,
           findings : SUBSET Targets, coverage : SUBSET Targets]

PipelineTypeOK ==
    /\ stages \in Stages /\ cancelled \in BOOLEAN
    /\ pipe \in Pipe /\ output \in Output

InitPipeline ==
    /\ stages \in {s \in Stages : ValidStages(s)}
    /\ cancelled = FALSE
    /\ pipe = [at |-> "discovery", found |-> {}, open |-> {}, urls |-> {}, given |-> {}, todo |-> {},
               broken |-> FALSE, raw |-> FALSE, scanned |-> {}]
    /\ output = [artifacts |-> {}, devices |-> {}, findings |-> {}, coverage |-> {}]

\* run_discovery and lock_detected of _run_pipeline
RunDiscovery == stages.discovery /\ (~stages.ports \/ stages.scope = "detected")
LockDetected == stages.discovery /\ stages.scope = "detected"

\* DeviceIndex.add_host for the hosts that answered, with a port or without.
Indexed(p, hosts, open) == [p EXCEPT !.found = @ \cup hosts, !.open = @ \cup open]
Captured(o, key) == [o EXCEPT !.artifacts = @ \cup {key}]

\* DeviceIndex.snapshot and finalize: a device for each host that was found
Devices(p) == p.found

\* fail(): the devices are spooled, unless they are already, and the pipeline
\* raises PipelineError.
Fail(p, o) ==
    /\ pipe' = [p EXCEPT !.at = "failed"]
    /\ output' = [o EXCEPT !.devices = Devices(p)]
    /\ UNCHANGED <<stages, cancelled>>

Continue(p, at, o) ==
    /\ pipe' = [p EXCEPT !.at = at] /\ output' = o
    /\ UNCHANGED <<stages, cancelled>>

\* run_command_to_file: no command starts once the control is cancelled, one
\* that runs is terminated, and any command may fail by itself.
CommandEndsWell == ~cancelled

-----------------------------------------------------------------------------
(* Discovery and ports *)

Discover ==
    /\ pipe.at = "discovery" /\ RunDiscovery
    /\ \/ Fail(pipe, output)
       \/ /\ CommandEndsWell
          /\ \E live \in SUBSET Targets :
               Continue(Indexed(pipe, live, live), "identity", Captured(output, "discovery"))

SkipDiscovery == pipe.at = "discovery" /\ ~RunDiscovery /\ Continue(pipe, "identity", output)

\* The identity sweep of a LAN.  The hosts that answer discover_liveness or are
\* in the neighbour table have no port, those that answer discover_udp do.
LanSweep == stages.discovery /\ stages.lan
Alive == IF LanSweep THEN SUBSET Targets ELSE {{}}
SpeakUdp == IF LanSweep THEN SUBSET Targets ELSE {{}}
Identify ==
    /\ pipe.at = "identity"
    /\ \E live \in Alive, udp \in SpeakUdp : Continue(Indexed(pipe, live \cup udp, udp), "ports", output)

\* _port_scan_targets
PortScanTargets == IF stages.scope = "all" \/ ~RunDiscovery THEN Targets ELSE pipe.found \cup Explicit

PortScan ==
    /\ pipe.at = "ports" /\ stages.ports /\ PortScanTargets # {}
    /\ \/ Fail(pipe, output)
       \/ /\ CommandEndsWell
          /\ \E up \in SUBSET PortScanTargets :
               Continue(Indexed(pipe, up, up), "fingerprint", Captured(output, "ports"))

SkipPorts ==
    /\ pipe.at = "ports" /\ (~stages.ports \/ PortScanTargets = {})
    /\ Continue(pipe, "fingerprint", output)

-----------------------------------------------------------------------------
(* Fingerprints *)

\* DeviceIndex.probe_hosts
ProbeHosts ==
    IF pipe.found # {} THEN pipe.found ELSE IF LockDetected THEN Explicit ELSE Targets

\* _group_by_sni: the group that a host is scanned with.
GroupOf(h) == IF h \in Explicit THEN {h} ELSE Block

\* Without ProjectDiscovery's httpx the stage is skipped.
StartFingerprint ==
    /\ pipe.at = "fingerprint"
    /\ \E installed \in BOOLEAN :
       LET hosts == IF stages.fingerprint /\ installed THEN ProbeHosts ELSE {} IN
       Continue([pipe EXCEPT !.todo = hosts],
                IF hosts = {} THEN "vulnerability" ELSE "httpx", output)

\* on_httpx: DeviceIndex.add_httpx and http_urls
Fingerprinted(p, up) == [Indexed(p, up, up) EXCEPT !.urls = @ \cup up]

\* run_httpx for one group: rows are used as they come, and a failure is
\* tried once more without -tls-grab before it ends the pipeline.
HttpxGroup(h) ==
    /\ pipe.at = "httpx" /\ h \in pipe.todo
    /\ \/ Fail(pipe, output)
       \/ /\ CommandEndsWell
          /\ \E up \in SUBSET (GroupOf(h) \cap pipe.todo) :
               LET p == [Fingerprinted(pipe, up) EXCEPT !.todo = @ \ GroupOf(h)] IN
               IF p.todo # {} THEN Continue(p, "httpx", output)
               ELSE Continue(p, "vulnerability", Captured(output, "httpx"))

-----------------------------------------------------------------------------
(* Nuclei *)

\* _nuclei_scan_targets
NucleiScanTargets ==
    IF pipe.urls # {} THEN pipe.urls
    ELSE IF pipe.open # {} THEN pipe.open
    ELSE IF LockDetected THEN Explicit ELSE Targets

StartNuclei ==
    /\ pipe.at = "vulnerability"
    /\ LET hosts == IF stages.nuclei THEN NucleiScanTargets ELSE {} IN
       Continue([pipe EXCEPT !.given = hosts, !.todo = hosts],
                IF hosts = {} THEN "finalize" ELSE "nuclei", output)

\* Mutated form: a group that ends well clears the error of an earlier one.
Remembered_Last(before, now) == now

\* last_error of run_nuclei, over the groups so far.
Remembered(before, now) == before \/ now

\* The combined file exists once a group wrote to it (_append_gzipped_jsonl).
Appended(before, wrote) == before \/ wrote

\* run_nuclei for one group.  A command that fails or is cancelled leaves the
\* rows it wrote, and so does one whose output is malformed; the error is
\* kept and the next group is tried.
NucleiGroup(h) ==
    LET group == GroupOf(h) \cap pipe.todo IN
    /\ pipe.at = "nuclei" /\ h \in pipe.todo
    /\ \E ok \in BOOLEAN, wrote \in BOOLEAN, hits \in SUBSET group :
       /\ ok => CommandEndsWell /\ wrote
       /\ ~wrote => hits = {}
       /\ Continue([pipe EXCEPT !.todo = @ \ group, !.broken = Remembered(@, ~ok),
                                !.raw = Appended(@, wrote),
                                !.scanned = IF ok THEN @ \cup group ELSE @],
                   "nuclei", [output EXCEPT !.findings = @ \cup hits])

\* A finding that does not fit in the spool ends the pipeline at once, and so
\* does a missing nuclei.
NucleiOverflows(h) ==
    /\ pipe.at = "nuclei" /\ h \in pipe.todo /\ CommandEndsWell
    /\ Fail(pipe, output)

\* The end of run_nuclei: the error, with the combined artifact, or the result.
NucleiEnds ==
    /\ pipe.at = "nuclei" /\ pipe.todo = {}
    /\ LET o == IF pipe.raw THEN Captured(output, "nuclei") ELSE output IN
       IF pipe.broken THEN Fail(pipe, o) ELSE Continue(pipe, "finalize", o)

-----------------------------------------------------------------------------
(* The end of the pipeline *)

\* The devices and the coverage of Nuclei are spooled; SpoolCapExceeded, or
\* a tool that does not tell its version, still fails the run.
Finalize ==
    /\ pipe.at = "finalize"
    /\ \/ Fail(pipe, output)
       \/ \E covered \in SUBSET pipe.given :
            Fail(pipe, [output EXCEPT !.coverage = covered])
       \/ Continue(pipe, "mark", [output EXCEPT !.devices = Devices(pipe), !.coverage = pipe.given])

MarkPipelineComplete ==
    /\ pipe.at = "mark"
    /\ Fail(pipe, output) \/ Continue(pipe, "complete", output)

\* The cancel event of the agent, or the deadline of the run.
CancelRun ==
    /\ ~cancelled /\ pipe.at \notin {"complete", "failed"}
    /\ cancelled' = TRUE
    /\ UNCHANGED <<stages, pipe, output>>

NextPipeline ==
    \/ Discover \/ SkipDiscovery \/ Identify \/ PortScan \/ SkipPorts
    \/ StartFingerprint \/ StartNuclei \/ NucleiEnds \/ Finalize \/ MarkPipelineComplete
    \/ \E h \in Targets : HttpxGroup(h) \/ NucleiGroup(h) \/ NucleiOverflows(h)
    \/ CancelRun

PipelineSpec == InitPipeline /\ [][NextPipeline]_pipelineVars

-----------------------------------------------------------------------------
\* Coverage makes the server count hosts without a finding as clean: a host
\* is in it only when Nuclei ended well on it and on every other group, so
\* neither a cancelled, a failed nor a malformed group passes for a clean one.
CoverageWasScanned ==
    /\ output.coverage \subseteq pipe.scanned
    /\ output.coverage # {} => ~pipe.broken /\ pipe.given \subseteq pipe.scanned
=============================================================================
