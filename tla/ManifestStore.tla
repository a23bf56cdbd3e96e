--------------------------- MODULE ManifestStore ---------------------------
(***************************************************************************)
(* The delta manifest of one source under concurrent runs: the part of     *)
(* finalize_run that loads, folds and saves it, and BlobManifestStore with *)
(* its conditional write, merge and retry (ingestion/delta.py).            *)
(*                                                                         *)
(* `clock' is the wall clock of last_seen_at, shared by the workers. The   *)
(* blob's ETag is its version number.                                      *)
(***************************************************************************)
EXTENDS Integers, FiniteSets

CONSTANTS
    Runs,         \* runs of the source that finish at about the same time
    Docs,         \* documents of the source
    Attempts,     \* _MANIFEST_WRITE_ATTEMPTS
    Provisioned,  \* whether the source was ingested before
    Faults,       \* kinds of failure the store meets
    MaxFaults     \* bound on the failures

ASSUME StoreAssumption ==
    /\ Attempts \in Nat \ {0}
    /\ Provisioned \in BOOLEAN
    /\ Faults \subseteq {"load", "write", "crash"}
    /\ MaxFaults \in Nat
    /\ IsFiniteSet(Runs)

VARIABLES
    clock,    \* latest last_seen_at handed out
    blob,     \* the stored manifest; version 0 is no blob
    outcome,  \* what each run did with each document: its outcomes, skips and deletions
    run,      \* finalize_run of each run: how far it got, its manifest and known ETag
    faults    \* failures so far

vars == <<clock, blob, outcome, run, faults>>

\* seen is last_seen_at; made is when the entry (or its deletion) was last recorded anew.
EntryType    == [seen: Nat, made: Nat]
ManifestType == [Docs -> EntryType]
Kinds  == {"none", "done", "skipped", "deleted"}
Phases == {"idle", "planned", "loaded", "write", "reload", "saved", "gaveup"}
RunType == [phase: Phases, etag: Nat, mine: ManifestType, current: ManifestType,
            tried: 0..Attempts]

TypeOK ==
    /\ clock \in Nat
    /\ blob \in [version: Nat, entries: ManifestType]
    /\ outcome \in [Runs -> [Docs -> Kinds]]
    /\ run \in [Runs -> RunType]
    /\ faults \in 0..MaxFaults

NoEntry == [seen |-> 0, made |-> 0]
Empty   == [d \in Docs |-> NoEntry]
NoETag  == 0
Unstarted == [phase |-> "idle", etag |-> NoETag, mine |-> Empty, current |-> Empty, tried |-> 0]

Init ==
    /\ clock = 1
    /\ IF Provisioned
       THEN blob \in [version: {1},
                      entries: [Docs -> {NoEntry, [seen |-> 1, made |-> 1]}]]
       ELSE blob = [version |-> 0, entries |-> Empty]
    /\ outcome = [r \in Runs |-> [d \in Docs |-> "none"]]
    /\ run = [r \in Runs |-> Unstarted]
    /\ faults = 0

\* The next state of one run's save.
Becomes(r, new) == run' = [run EXCEPT ![r] = new]

Fault(kind) ==
    /\ kind \in Faults
    /\ faults < MaxFaults
    /\ faults' = faults + 1

\* plan_source and the documents' processing, up to finalize_run: a document is
\* skipped only if the manifest has it.
Plan(r) ==
    /\ run[r].phase = "idle"
    /\ \E did \in [Docs -> Kinds] :
         /\ \A d \in Docs : did[d] = "skipped" => blob.entries[d] # NoEntry
         /\ outcome' = [outcome EXCEPT ![r] = did]
    /\ Becomes(r, [run[r] EXCEPT !.phase = "planned"])
    /\ UNCHANGED <<clock, blob, faults>>

\* load: any failure of the download counts as "no manifest yet" and forgets the ETag.
Load(r) ==
    /\ run[r].phase = "planned"
    /\ \/ /\ Becomes(r, [run[r] EXCEPT !.phase = "loaded", !.etag = blob.version,
                               !.mine = blob.entries])
          /\ UNCHANGED faults
       \/ /\ Fault("load")
          /\ Becomes(r, [run[r] EXCEPT !.phase = "loaded", !.etag = NoETag, !.mine = Empty])
    /\ UNCHANGED <<clock, blob, outcome>>

\* upsert of an outcome, mark_deleted, and the refresh of a skipped entry.
Folded(manifest, did, now) ==
    [d \in Docs |->
       IF did[d] = "done" \/ (did[d] = "deleted" /\ manifest[d] # NoEntry)
       THEN [seen |-> now, made |-> now]
       ELSE IF did[d] = "skipped" /\ manifest[d] # NoEntry THEN [manifest[d] EXCEPT !.seen = now]
       ELSE manifest[d]]

Fold(r) ==
    /\ run[r].phase = "loaded"
    /\ \E now \in {clock, clock + 1} :
         LET mine == Folded(run[r].mine, outcome[r], now)
         IN  /\ clock' = now
             /\ Becomes(r, [run[r] EXCEPT !.phase = "write", !.mine = mine, !.current = mine])
    /\ UNCHANGED <<blob, outcome, faults>>

Written(r) == [version |-> blob.version + 1, entries |-> run[r].current]

\* Mutant: the upload is never conditional.
AcceptsAlways(r) == TRUE

\* upload_blob: conditional on the ETag when one is known, unconditional otherwise.
Accepts(r) == run[r].etag \in {NoETag, blob.version}

Write(r) ==
    /\ run[r].phase = "write"
    /\ IF Accepts(r)
       THEN /\ blob' = Written(r)
            /\ Becomes(r, [run[r] EXCEPT !.phase = "saved"])
       ELSE /\ Becomes(r, [run[r] EXCEPT !.phase = "reload", !.tried = @ + 1])
            /\ UNCHANGED blob
    /\ UNCHANGED <<clock, outcome, faults>>

\* The upload fails on the wire, before or after the store applied it.
WriteFails(r) ==
    /\ run[r].phase = "write"
    /\ Fault("write")
    /\ blob' \in {blob} \cup (IF Accepts(r) THEN {Written(r)} ELSE {})
    /\ Becomes(r, [run[r] EXCEPT !.phase = "reload", !.tried = @ + 1])
    /\ UNCHANGED <<clock, outcome>>

\* Mutant: this run's whole manifest is written over the one just read.
MineWins(latest, mine) == mine

\* _merge_manifests
Merged(latest, mine) ==
    [d \in Docs |-> IF mine[d].seen >= latest[d].seen THEN mine[d] ELSE latest[d]]

AfterAttempt(r) == IF run[r].tried = Attempts THEN "gaveup" ELSE "write"

\* Reload, merge and try again, until the attempts are used up.
Reload(r) ==
    /\ run[r].phase = "reload"
    /\ \/ /\ Becomes(r, [run[r] EXCEPT !.phase = AfterAttempt(r), !.etag = blob.version,
                               !.current = Merged(blob.entries, run[r].mine)])
          /\ UNCHANGED faults
       \/ /\ Fault("load")
          /\ Becomes(r, [run[r] EXCEPT !.phase = AfterAttempt(r), !.etag = NoETag,
                               !.current = run[r].mine])
    /\ UNCHANGED <<clock, blob, outcome>>

\* The worker dies inside finalize_run; the Durable activity runs again with the
\* outcomes of its envelope.
Crash(r) ==
    /\ run[r].phase \in {"loaded", "write", "reload", "saved"}
    /\ Fault("crash")
    /\ Becomes(r, [Unstarted EXCEPT !.phase = "planned"])
    /\ UNCHANGED <<clock, blob, outcome>>

Next == \E r \in Runs : \/ Plan(r) \/ Load(r) \/ Fold(r) \/ Write(r)
                        \/ WriteFails(r) \/ Reload(r) \/ Crash(r)

Spec == Init /\ [][Next]_vars
-----------------------------------------------------------------------------
(* Properties. *)

\* What a run whose save returned has recorded stays in the manifest: each of its
\* entries is there, or one seen at least as recently (BlobManifestStore.save:
\* concurrent runs "cannot silently clobber each other's manifest").
SavedIsKept ==
    \A r \in Runs : run[r].phase = "saved" =>
        \A d \in Docs : blob.entries[d].seen >= run[r].mine[d].seen

\* A save gives up only after that many other writes or failures: with fewer
\* concurrent runs than attempts, and no failures, every run is recorded (save).
GivesUpOnlyUnderContention ==
    \A r \in Runs : run[r].phase = "gaveup" => Attempts <= Cardinality(Runs) - 1 + faults

Register == INSTANCE ManifestRegister
              WITH stored <- blob.entries, offer <- [r \in Runs |-> run[r].mine]

\* The conditional write with merge and retry implements the register: every write
\* the store accepts merges the run's manifest into what is stored at that moment.
RefinesRegister == Register!Spec
-----------------------------------------------------------------------------
(* The inductive invariant: an ETag that is still current stands for the   *)
(* manifest that was loaded with it, and every attempt that failed is paid *)
(* for by another run's save or by a failure.                              *)

Saved == {r \in Runs : run[r].phase = "saved"}

\* While the run's ETag is current, writing its manifest is merging it.
ETagStandsForManifest(r) ==
    run[r].etag = blob.version =>
      /\ run[r].phase = "loaded" => run[r].mine = blob.entries
      /\ run[r].phase = "write" => run[r].current = Merged(blob.entries, run[r].mine)

Past(manifest) == \A d \in Docs : manifest[d].seen <= clock

AttemptsPaid(r) ==
    /\ run[r].phase \in {"loaded", "write"} =>
         run[r].tried + (blob.version - run[r].etag) <= Cardinality(Saved) + faults
    /\ run[r].phase \in {"reload", "gaveup"} => run[r].tried <= Cardinality(Saved) + faults

\* The loop of save leaves when the attempts are used up, and not before.
AttemptsLeft(r) ==
    /\ run[r].phase \in {"idle", "planned", "loaded"} => run[r].tried = 0
    /\ run[r].phase = "write" => run[r].tried < Attempts
    /\ run[r].phase = "gaveup" => run[r].tried = Attempts

RunInv(r) ==
    /\ run[r].etag <= blob.version
    /\ run[r].phase \in {"loaded", "write"} => run[r].etag # NoETag
    /\ AttemptsLeft(r)
    /\ ETagStandsForManifest(r)
    /\ run[r].phase = "saved" => \A d \in Docs : blob.entries[d].seen >= run[r].mine[d].seen
    /\ Past(run[r].mine)
    /\ Past(run[r].current)
    /\ AttemptsPaid(r)

StoreInv ==
    /\ TypeOK
    /\ blob.version # 0
    /\ Past(blob.entries)
    /\ \A r \in Runs : RunInv(r)
=============================================================================
