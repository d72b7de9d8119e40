---------------------------- MODULE RawArtifacts ----------------------------
(***************************************************************************)
(* The raw tool output of a run at central (raw_artifacts.py and the       *)
(* upload and complete handlers): bytes go to a temporary file, are moved  *)
(* to their final name, and then a row with their digest is committed;     *)
(* completion demands the rows its snapshot calls for; retention deletes   *)
(* the bytes and keeps the row.  Uploads overlap when a worker repeats a   *)
(* request whose answer it gave up on.  The process may die at any point.  *)
(***************************************************************************)
EXTENDS Naturals, FiniteSets

CONSTANTS Uploads,        \* upload requests; each writes a file of its own
          Digests         \* contents

ASSUME ArtifactAssumption == "none" \notin Digests /\ 0 \notin Uploads

VARIABLES
    snapshot,    \* the stages of the run
    runState,    \* running or done, and the declared raw evidence
    ingested,    \* observations, findings or coverage are stored
    stored,      \* per artifact key: its ScanArtifact row
    files,       \* final files: the upload that made them and their contents
    upload,      \* per request: how far it is
    cleaning     \* keys whose bytes the open cleanup pass has deleted

artifactVars == <<snapshot, runState, ingested, stored, files, upload, cleaning>>

Keys == {"discovery", "port_discovery", "nuclei"}
Snapshot == [dry : BOOLEAN, discovery : BOOLEAN, ports : BOOLEAN, nuclei : BOOLEAN]
NoArtifact == [file |-> 0, digest |-> "none", expired |-> FALSE, deleted |-> FALSE]
IdleUpload == [at |-> "new", key |-> "nuclei", digest |-> "none"]

ArtifactTypeOK ==
    /\ snapshot \in Snapshot /\ ingested \in BOOLEAN
    /\ runState \in {"running", "captured", "skipped", "dry_run", "none_executed"}
    /\ stored \in [Keys -> [file : Uploads \cup {0}, digest : Digests \cup {"none"},
                            expired : BOOLEAN, deleted : BOOLEAN]]
    /\ files \subseteq (Uploads \X Digests)
    /\ upload \in [Uploads -> [at : {"new", "written", "moved", "flushed", "ended"}, key : Keys,
                               digest : Digests \cup {"none"}]]
    /\ cleaning \subseteq Keys

InitArtifacts ==
    /\ snapshot = [dry |-> FALSE, discovery |-> TRUE, ports |-> FALSE, nuclei |-> TRUE]
    /\ runState = "running" /\ ingested = FALSE
    /\ stored = [k \in Keys |-> NoArtifact]
    /\ files = {}
    /\ upload = [u \in Uploads |-> IdleUpload]
    /\ cleaning = {}

Persisted == {k \in Keys : stored[k].file # 0}
Sets(u, at) == upload' = [upload EXCEPT ![u].at = at]

\* The run is created with the stages of its scan.
ChooseStages(s) ==
    /\ runState = "running" /\ ~ingested /\ \A u \in Uploads : upload[u].at = "new"
    /\ snapshot' = s /\ s # snapshot
    /\ UNCHANGED <<runState, ingested, stored, files, upload, cleaning>>

\* Observations, findings or coverage of the run.
IngestResults ==
    /\ runState = "running" /\ ~ingested
    /\ ingested' = TRUE
    /\ UNCHANGED <<snapshot, runState, stored, files, upload, cleaning>>

-----------------------------------------------------------------------------
(* Uploads *)

\* post_artifact of a running job; _write_stream_to_temp.  Requests that
\* were not used yet are alike, so they are taken in order.
WriteTemp(u) ==
    /\ runState = "running" /\ upload[u].at = "new"
    /\ \A v \in Uploads : v < u => upload[v].at # "new"
    /\ \E k \in Keys, d \in Digests :
         upload' = [upload EXCEPT ![u] = [at |-> "written", key |-> k, digest |-> d]]
    /\ UNCHANGED <<snapshot, runState, ingested, stored, files, cleaning>>

\* An existing row ends the request, with success when it has the same
\* digest; otherwise os.replace moves the bytes to their final name.
MoveOrRefuse(u) ==
    /\ upload[u].at = "written"
    /\ IF upload[u].key \in Persisted THEN Sets(u, "ended") /\ UNCHANGED files
       ELSE Sets(u, "moved") /\ files' = files \cup {<<u, upload[u].digest>>}
    /\ UNCHANGED <<snapshot, runState, ingested, stored, cleaning>>

\* Mutated form: the bytes of the row that was there first are removed.
Loser_Existing(u) == <<stored[upload[u].key].file, stored[upload[u].key].digest>>

\* What ingest_chunks unlinks when the insert fails: its own final file.
Loser(u) == <<u, upload[u].digest>>

\* The insert.  It waits for an open insert of the same key and fails on the
\* unique key once that one is committed.
FlushRow(u) ==
    /\ upload[u].at = "moved"
    /\ \A v \in Uploads \ {u} : upload[v].at = "flushed" => upload[v].key # upload[u].key
    /\ IF upload[u].key \in Persisted THEN Sets(u, "ended") /\ files' = files \ {Loser(u)}
       ELSE Sets(u, "flushed") /\ UNCHANGED files
    /\ UNCHANGED <<snapshot, runState, ingested, stored, cleaning>>

\* commit_ingested_artifact
CommitRow(u) ==
    /\ upload[u].at = "flushed"
    /\ stored' = [stored EXCEPT ![upload[u].key] = [NoArtifact EXCEPT !.file = u, !.digest = upload[u].digest]]
    /\ Sets(u, "ended")
    /\ UNCHANGED <<snapshot, runState, ingested, files, cleaning>>

\* The insert or the commit fails: rolled back, the final file is unlinked.
CommitFails(u) ==
    /\ upload[u].at \in {"moved", "flushed"}
    /\ files' = files \ {<<u, upload[u].digest>>}
    /\ Sets(u, "ended")
    /\ UNCHANGED <<snapshot, runState, ingested, stored, cleaning>>

\* The process dies: nothing is unlinked.
UploadDies(u) ==
    /\ upload[u].at \in {"written", "moved", "flushed"}
    /\ Sets(u, "ended")
    /\ UNCHANGED <<snapshot, runState, ingested, stored, files, cleaning>>

-----------------------------------------------------------------------------
(* Completion *)

\* Mutated form: a port scan hides the stages after it.
ExpectedKeys_Ports(s) ==
    IF s.dry THEN {} ELSE IF s.ports THEN {"port_discovery"}
    ELSE {k \in {"discovery", "nuclei"} : IF k = "nuclei" THEN s.nuclei ELSE s.discovery}

\* expected_artifact_keys
ExpectedKeys(s) ==
    IF s.dry THEN {}
    ELSE {k \in Keys : CASE k = "port_discovery" -> s.ports
                         [] k = "discovery" -> s.discovery /\ ~s.ports
                         [] k = "nuclei" -> s.nuclei}

\* apply_raw_evidence_declaration(status, declared)
MayDeclare(status, declared) ==
    CASE status = "captured" ->
             /\ ~snapshot.dry /\ declared # {}
             /\ ExpectedKeys(snapshot) \subseteq declared /\ declared \subseteq Persisted
      [] status = "skipped" ->
             /\ ~snapshot.dry /\ snapshot.discovery /\ ~ingested
             /\ Persisted = {"discovery"} /\ declared = Persisted
      [] status = "dry_run" -> declared = {} /\ Persisted = {} /\ snapshot.dry
      [] status = "none_executed" ->
             declared = {} /\ Persisted = {} /\ ~snapshot.dry /\ ExpectedKeys(snapshot) = {}

\* complete_job(ok = TRUE)
CompleteRun(status, declared) ==
    /\ runState = "running" /\ MayDeclare(status, declared)
    /\ runState' = status
    /\ UNCHANGED <<snapshot, ingested, stored, files, upload, cleaning>>

-----------------------------------------------------------------------------
(* Retention *)

ExpireArtifact(k) ==
    /\ k \in Persisted /\ ~stored[k].expired
    /\ stored' = [stored EXCEPT ![k].expired = TRUE]
    /\ UNCHANGED <<snapshot, runState, ingested, files, upload, cleaning>>

\* cleanup_expired_artifacts deletes the bytes at once, marks the row when it
\* commits, and starts over when it failed in between.
DeleteBytes(k) ==
    /\ stored[k].expired /\ ~stored[k].deleted /\ k \notin cleaning
    /\ files' = files \ {<<stored[k].file, stored[k].digest>>}
    /\ cleaning' = cleaning \cup {k}
    /\ UNCHANGED <<snapshot, runState, ingested, stored, upload>>

CommitCleanup ==
    /\ cleaning # {}
    /\ stored' = [k \in Keys |-> IF k \in cleaning THEN [stored[k] EXCEPT !.deleted = TRUE] ELSE stored[k]]
    /\ cleaning' = {}
    /\ UNCHANGED <<snapshot, runState, ingested, files, upload>>

CleanupDies ==
    /\ cleaning # {} /\ cleaning' = {}
    /\ UNCHANGED <<snapshot, runState, ingested, stored, files, upload>>

NextArtifacts ==
    \/ \E s \in Snapshot : ChooseStages(s)
    \/ IngestResults \/ CommitCleanup \/ CleanupDies
    \/ \E u \in Uploads :
         \/ WriteTemp(u) \/ MoveOrRefuse(u) \/ FlushRow(u)
         \/ CommitRow(u) \/ CommitFails(u) \/ UploadDies(u)
    \/ \E status \in {"captured", "skipped", "dry_run", "none_executed"}, declared \in SUBSET Keys :
         CompleteRun(status, declared)
    \/ \E k \in Keys : ExpireArtifact(k) \/ DeleteBytes(k)

-----------------------------------------------------------------------------
\* An artifact within its retention has its bytes, and they are those of its
\* digest, whichever of two overlapping uploads won, failed or died; and a
\* deleted one has none.
StoredHasItsBytes ==
    \A k \in Persisted :
        /\ ~stored[k].expired => <<stored[k].file, stored[k].digest>> \in files
        /\ stored[k].deleted => <<stored[k].file, stored[k].digest>> \notin files

\* A run that is done has the raw output of every stage it ran: all enabled
\* stages, or discovery alone when nothing was found, or none in a dry run.
DoneHasItsEvidence ==
    runState # "running" =>
        \/ snapshot.dry
        \/ /\ snapshot.nuclei => "nuclei" \in Persisted
           /\ snapshot.ports => "port_discovery" \in Persisted
           /\ snapshot.discovery => Persisted \cap {"discovery", "port_discovery"} # {}
        \/ runState = "skipped" /\ "discovery" \in Persisted
=============================================================================
