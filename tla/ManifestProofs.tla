--------------------------- MODULE ManifestProofs ---------------------------
(***************************************************************************)
(* Proofs about ManifestStore, for any number of runs and documents and    *)
(* any number of attempts: for a source that was ingested before and whose *)
(* manifest downloads, no save clobbers another's, a save gives up only    *)
(* under contention, and the store implements ManifestRegister.            *)
(* And about Crawler, for any site and any web of links: a crawl reaches   *)
(* what it should and nothing else, hides nothing it had an answer from,   *)
(* and indexes what it read.                                               *)
(***************************************************************************)
EXTENDS ManifestStore, Crawler, DataLemmas

\* The conditions of the promise: there is an ETag to condition the first write on.
Conditional == Provisioned /\ "load" \notin Faults

-----------------------------------------------------------------------------
(* Operators *)

\* Entries without a document of their own are of the entries' type.
LEMMA EmptyType == NoEntry \in EntryType /\ Empty \in ManifestType
  BY DEF NoEntry, Empty, EntryType, ManifestType

\* Folding keeps the type, and stamps nothing earlier than what it replaces.
LEMMA FoldedFacts ==
  ASSUME NEW manifest \in ManifestType, NEW did, NEW now \in Nat,
         \A d \in Docs : manifest[d].seen <= now
  PROVE  /\ Folded(manifest, did, now) \in ManifestType
         /\ \A d \in Docs : Folded(manifest, did, now)[d].seen <= now
         /\ \A d \in Docs : manifest[d].seen <= Folded(manifest, did, now)[d].seen
         /\ \A d \in Docs : manifest[d].seen = Folded(manifest, did, now)[d].seen
                             \/ Folded(manifest, did, now)[d].seen = now
  BY DEF Folded, ManifestType, EntryType, NoEntry

\* Merging keeps the type, and is at least as recent as either side.
LEMMA MergedFacts ==
  ASSUME NEW latest \in ManifestType, NEW mine \in ManifestType
  PROVE  /\ Merged(latest, mine) \in ManifestType
         /\ \A d \in Docs : Merged(latest, mine)[d] \in {latest[d], mine[d]}
         /\ \A d \in Docs : Merged(latest, mine)[d].seen >= mine[d].seen
         /\ \A d \in Docs : Merged(latest, mine)[d].seen >= latest[d].seen
  BY DEF Merged, ManifestType, EntryType

\* Merging a manifest into an older one gives that manifest.
LEMMA MergedNewer ==
  ASSUME NEW latest \in ManifestType, NEW mine \in ManifestType,
         \A d \in Docs : latest[d].seen <= mine[d].seen
  PROVE  mine = Merged(latest, mine)
  BY DEF Merged, ManifestType, EntryType

\* Folding keeps the type.
LEMMA FoldedType ==
  ASSUME NEW manifest \in ManifestType, NEW did, NEW now \in Nat
  PROVE  Folded(manifest, did, now) \in ManifestType
  BY DEF Folded, ManifestType, EntryType, NoEntry

-----------------------------------------------------------------------------
(* What each action does to the one run that takes it *)

\* Replacing one run's record keeps the records' type and the other runs.
LEMMA OneRun ==
  ASSUME TypeOK, NEW r \in Runs, NEW new \in RunType, Becomes(r, new)
  PROVE  /\ run' \in [Runs -> RunType]
         /\ run'[r] = new
         /\ \A s \in Runs : s # r => run'[s] = run[s]
  BY DEF Becomes, TypeOK

LEMMA PlanStep ==
  ASSUME TypeOK, NEW r \in Runs, Plan(r)
  PROVE  /\ run[r].phase = "idle"
         /\ outcome' \in [Runs -> [Docs -> Kinds]]
         /\ UNCHANGED <<clock, blob, faults>>
         /\ \E new \in RunType : /\ Becomes(r, new)
                                 /\ new = [run[r] EXCEPT !.phase = "planned"]
  <1>1. [run[r] EXCEPT !.phase = "planned"] \in RunType
    BY DEF TypeOK, RunType, Phases
  <1>2. outcome' \in [Runs -> [Docs -> Kinds]]
    BY DEF Plan, TypeOK
  <1> QED BY <1>1, <1>2 DEF Plan

LEMMA LoadStep ==
  ASSUME TypeOK, NEW r \in Runs, Load(r)
  PROVE  /\ run[r].phase = "planned"
         /\ faults' \in 0..MaxFaults
         /\ UNCHANGED <<clock, blob, outcome>>
         /\ \E new \in RunType :
              /\ Becomes(r, new)
              /\ new.phase = "loaded" /\ new.tried = run[r].tried
              /\ new.current = run[r].current
              /\ "load" \notin Faults =>
                   new.etag = blob.version /\ new.mine = blob.entries /\ UNCHANGED faults
  <1> DEFINE good == [run[r] EXCEPT !.phase = "loaded", !.etag = blob.version,
                                    !.mine = blob.entries]
             bad  == [run[r] EXCEPT !.phase = "loaded", !.etag = NoETag, !.mine = Empty]
  <1>1. run[r] \in RunType /\ blob.version \in Nat /\ blob.entries \in ManifestType
    BY DEF TypeOK
  <1>2. good \in RunType /\ bad \in RunType
    BY <1>1, EmptyType DEF RunType, Phases, NoETag
  <1>3. /\ good.phase = "loaded" /\ good.tried = run[r].tried /\ good.current = run[r].current
        /\ good.etag = blob.version /\ good.mine = blob.entries
        /\ bad.phase = "loaded" /\ bad.tried = run[r].tried /\ bad.current = run[r].current
    BY <1>1 DEF RunType
  <1>4. \/ Becomes(r, good) /\ UNCHANGED faults
        \/ Becomes(r, bad) /\ Fault("load")
    BY DEF Load
  <1>5. faults' \in 0..MaxFaults
    BY <1>4, StoreAssumption DEF Fault, TypeOK
  <1> HIDE DEF good, bad
  <1>6. CASE Becomes(r, good) /\ UNCHANGED faults
    BY <1>2, <1>3, <1>5, <1>6 DEF Load
  <1>7. CASE Becomes(r, bad) /\ Fault("load")
    BY <1>2, <1>3, <1>5, <1>7 DEF Load, Fault
  <1> QED BY <1>4, <1>6, <1>7

LEMMA FoldStep ==
  ASSUME TypeOK, NEW r \in Runs, Fold(r)
  PROVE  /\ run[r].phase = "loaded"
         /\ UNCHANGED <<blob, outcome, faults>>
         /\ clock' \in Nat /\ clock <= clock'
         /\ \E new \in RunType :
              /\ Becomes(r, new)
              /\ new.phase = "write" /\ new.tried = run[r].tried /\ new.etag = run[r].etag
              /\ new.mine = Folded(run[r].mine, outcome[r], clock')
              /\ new.current = new.mine
  <1>1. PICK now \in {clock, clock + 1} :
          /\ clock' = now
          /\ LET mine == Folded(run[r].mine, outcome[r], now)
             IN  Becomes(r, [run[r] EXCEPT !.phase = "write", !.mine = mine, !.current = mine])
    BY DEF Fold
  <1> DEFINE mine == Folded(run[r].mine, outcome[r], now)
             new  == [run[r] EXCEPT !.phase = "write", !.mine = mine, !.current = mine]
  <1>2. /\ now \in Nat /\ clock <= now
        /\ run[r] \in RunType /\ run[r].mine \in ManifestType
    BY DEF TypeOK, RunType
  <1>3. mine \in ManifestType
    BY <1>2, FoldedType
  <1>4. Becomes(r, new)
    BY <1>1
  <1> HIDE DEF mine
  <1>5. /\ new \in RunType
        /\ new.phase = "write" /\ new.tried = run[r].tried /\ new.etag = run[r].etag
        /\ new.mine = mine /\ new.current = mine
    BY <1>2, <1>3 DEF RunType, Phases
  <1> HIDE DEF new
  <1> QED BY <1>1, <1>2, <1>4, <1>5 DEF Fold, mine

LEMMA WriteStep ==
  ASSUME TypeOK, NEW r \in Runs, AttemptsLeft(r), Write(r)
  PROVE  /\ run[r].phase = "write" /\ UNCHANGED <<clock, outcome, faults>>
         /\ \E new \in RunType :
              /\ Becomes(r, new)
              /\ new.etag = run[r].etag
              /\ new.mine = run[r].mine /\ new.current = run[r].current
              /\ \/ /\ Accepts(r) /\ blob' = Written(r)
                    /\ new.phase = "saved" /\ new.tried = run[r].tried
                 \/ /\ ~Accepts(r) /\ blob' = blob
                    /\ new.phase = "reload" /\ new.tried = run[r].tried + 1
  <1>1. run[r] \in RunType /\ run[r].phase = "write" /\ run[r].tried < Attempts
    BY DEF Write, AttemptsLeft, TypeOK
  <1> DEFINE done  == [run[r] EXCEPT !.phase = "saved"]
             more  == run[r].tried + 1
             again == [run[r] EXCEPT !.phase = "reload", !.tried = more]
  <1>2. /\ done \in RunType /\ done.etag = run[r].etag
        /\ done.mine = run[r].mine /\ done.current = run[r].current
        /\ done.phase = "saved" /\ done.tried = run[r].tried
    BY <1>1 DEF RunType, Phases
  <1>4. \/ Accepts(r) /\ blob' = Written(r) /\ Becomes(r, done)
        \/ ~Accepts(r) /\ blob' = blob /\ Becomes(r, again)
    BY DEF Write
  <1>5. more \in 0..Attempts /\ more = run[r].tried + 1
    BY <1>1, StoreAssumption DEF RunType
  <1> HIDE DEF more
  <1>3. /\ again \in RunType /\ again.etag = run[r].etag
        /\ again.mine = run[r].mine /\ again.current = run[r].current
        /\ again.phase = "reload" /\ again.tried = run[r].tried + 1
    BY <1>1, <1>5 DEF RunType, Phases
  <1> HIDE DEF done, again
  <1> QED BY <1>1, <1>2, <1>3, <1>4 DEF Write

LEMMA FailStep ==
  ASSUME TypeOK, NEW r \in Runs, AttemptsLeft(r), WriteFails(r)
  PROVE  /\ run[r].phase = "write" /\ UNCHANGED <<clock, outcome>>
         /\ faults' = faults + 1 /\ faults' \in 0..MaxFaults
         /\ blob' = blob \/ (Accepts(r) /\ blob' = Written(r))
         /\ \E new \in RunType :
              /\ Becomes(r, new)
              /\ new.etag = run[r].etag
              /\ new.mine = run[r].mine /\ new.current = run[r].current
              /\ new.phase = "reload" /\ new.tried = run[r].tried + 1
  <1>1. run[r] \in RunType /\ run[r].phase = "write" /\ run[r].tried < Attempts
    BY DEF WriteFails, AttemptsLeft, TypeOK
  <1> DEFINE more  == run[r].tried + 1
             again == [run[r] EXCEPT !.phase = "reload", !.tried = more]
  <1>3. Becomes(r, again) /\ UNCHANGED <<clock, outcome>>
    BY DEF WriteFails
  <1>6. more \in 0..Attempts /\ more = run[r].tried + 1
    BY <1>1, StoreAssumption DEF RunType
  <1> HIDE DEF more
  <1>2. /\ again \in RunType /\ again.etag = run[r].etag
        /\ again.mine = run[r].mine /\ again.current = run[r].current
        /\ again.phase = "reload" /\ again.tried = run[r].tried + 1
    BY <1>1, <1>6 DEF RunType, Phases
  <1>4. blob' = blob \/ (Accepts(r) /\ blob' = Written(r))
    BY DEF WriteFails
  <1>5. faults' = faults + 1 /\ faults' \in 0..MaxFaults
    BY StoreAssumption DEF WriteFails, Fault, TypeOK
  <1> HIDE DEF again
  <1> QED BY <1>1, <1>2, <1>3, <1>4, <1>5

LEMMA ReloadStep ==
  ASSUME TypeOK, NEW r \in Runs, Reload(r)
  PROVE  /\ run[r].phase = "reload" /\ UNCHANGED <<clock, blob, outcome>>
         /\ faults' \in 0..MaxFaults
         /\ \E new \in RunType :
              /\ Becomes(r, new)
              /\ new.phase = AfterAttempt(r) /\ new.tried = run[r].tried
              /\ new.mine = run[r].mine
              /\ "load" \notin Faults =>
                   /\ new.etag = blob.version
                   /\ new.current = Merged(blob.entries, run[r].mine)
                   /\ UNCHANGED faults
  <1> DEFINE merged == Merged(blob.entries, run[r].mine)
             after  == AfterAttempt(r)
             good == [run[r] EXCEPT !.phase = after, !.etag = blob.version, !.current = merged]
             bad  == [run[r] EXCEPT !.phase = after, !.etag = NoETag, !.current = run[r].mine]
  <1>1. /\ run[r] \in RunType /\ run[r].mine \in ManifestType
        /\ blob.version \in Nat /\ blob.entries \in ManifestType
    BY DEF TypeOK, RunType
  <1>2. merged \in ManifestType
    BY <1>1, MergedFacts
  <1>3. after \in Phases
    BY DEF AfterAttempt, Phases
  <1>4. \/ Becomes(r, good) /\ UNCHANGED faults
        \/ Becomes(r, bad) /\ Fault("load")
    BY DEF Reload
  <1>5. faults' \in 0..MaxFaults
    BY <1>4, StoreAssumption DEF Fault, TypeOK
  <1>6. run[r].phase = "reload" /\ UNCHANGED <<clock, blob, outcome>>
    BY DEF Reload
  <1> HIDE DEF merged, after
  <1>7. /\ good \in RunType /\ good.phase = after /\ good.tried = run[r].tried
        /\ good.mine = run[r].mine /\ good.etag = blob.version /\ good.current = merged
    BY <1>1, <1>2, <1>3 DEF RunType
  <1>8. /\ bad \in RunType /\ bad.phase = after /\ bad.tried = run[r].tried
        /\ bad.mine = run[r].mine
    BY <1>1, <1>3 DEF RunType, NoETag
  <1> HIDE DEF good, bad
  <1> QED BY <1>4, <1>5, <1>6, <1>7, <1>8 DEF Fault, merged, after

LEMMA CrashStep ==
  ASSUME TypeOK, NEW r \in Runs, Crash(r)
  PROVE  /\ UNCHANGED <<clock, blob, outcome>>
         /\ faults' = faults + 1 /\ faults' \in 0..MaxFaults
         /\ \E new \in RunType :
              /\ Becomes(r, new)
              /\ new.phase = "planned" /\ new.tried = 0 /\ new.etag = NoETag
              /\ new.mine = Empty /\ new.current = Empty
  <1> DEFINE new == [Unstarted EXCEPT !.phase = "planned"]
  <1>1. /\ new \in RunType /\ new.phase = "planned" /\ new.tried = 0 /\ new.etag = NoETag
        /\ new.mine = Empty /\ new.current = Empty
    BY EmptyType, StoreAssumption DEF RunType, Unstarted, Phases, NoETag
  <1>2. faults' = faults + 1 /\ faults' \in 0..MaxFaults
    BY StoreAssumption DEF Crash, Fault, TypeOK
  <1>3. Becomes(r, new) /\ UNCHANGED <<clock, blob, outcome>>
    BY DEF Crash
  <1> HIDE DEF new
  <1> QED BY <1>1, <1>2, <1>3

-----------------------------------------------------------------------------
(* Type correctness *)

LEMMA InitType == Init => TypeOK
  <1> SUFFICES ASSUME Init PROVE TypeOK
    OBVIOUS
  <1>1. blob \in [version : Nat, entries : ManifestType]
    BY EmptyType DEF Init, ManifestType, EntryType, NoEntry
  <1>2. run \in [Runs -> RunType]
    BY EmptyType, StoreAssumption DEF Init, Unstarted, RunType, Phases, NoETag
  <1> QED
    BY <1>1, <1>2, StoreAssumption DEF Init, TypeOK, Kinds

\* The type is inductive together with the loop's attempts.
Typed == TypeOK /\ \A r \in Runs : AttemptsLeft(r)

LEMMA WrittenType == ASSUME TypeOK, NEW r \in Runs
                     PROVE  Written(r) \in [version : Nat, entries : ManifestType]
  BY DEF Written, TypeOK, RunType

LEMMA NextType == Typed /\ [Next]_vars => Typed'
  <1> SUFFICES ASSUME Typed, [Next]_vars PROVE Typed'
    OBVIOUS
  <1>0. TypeOK /\ (\A r \in Runs : AttemptsLeft(r)) /\ Attempts \in Nat \ {0}
    BY StoreAssumption DEF Typed
  <1>1. CASE UNCHANGED vars
    BY <1>1 DEF vars, TypeOK, Typed, AttemptsLeft
  <1>2. ASSUME NEW r \in Runs, NEW new \in RunType, Becomes(r, new),
               clock' \in Nat, blob' \in [version : Nat, entries : ManifestType],
               outcome' \in [Runs -> [Docs -> Kinds]], faults' \in 0..MaxFaults,
               new.phase \in {"idle", "planned", "loaded"} => new.tried = 0,
               new.phase = "write" => new.tried < Attempts,
               new.phase = "gaveup" => new.tried = Attempts
        PROVE  Typed'
    <2>1. /\ run' \in [Runs -> RunType]
          /\ run'[r] = new
          /\ \A s \in Runs : s # r => run'[s] = run[s]
      BY <1>0, <1>2, OneRun
    <2>2. TypeOK'
      BY <1>2, <2>1 DEF TypeOK
    <2>3. ASSUME NEW s \in Runs PROVE AttemptsLeft(s)'
      BY <1>0, <1>2, <2>1 DEF AttemptsLeft
    <2> QED BY <2>2, <2>3 DEF Typed
  <1>3. ASSUME NEW r \in Runs, Plan(r) PROVE Typed'
    <2>1. PICK new \in RunType : Becomes(r, new) /\ new = [run[r] EXCEPT !.phase = "planned"]
      BY <1>0, <1>3, PlanStep
    <2>2. new.phase = "planned" /\ new.tried = 0
      BY <1>0, <1>3, <2>1 DEF Plan, TypeOK, RunType, AttemptsLeft
    <2> QED BY <1>0, <1>2, <1>3, <2>1, <2>2, PlanStep DEF TypeOK
  <1>4. ASSUME NEW r \in Runs, Load(r) PROVE Typed'
    BY <1>0, <1>2, <1>4, LoadStep DEF TypeOK, AttemptsLeft
  <1>5. ASSUME NEW r \in Runs, Fold(r) PROVE Typed'
    BY <1>0, <1>2, <1>5, FoldStep DEF TypeOK, AttemptsLeft
  <1>6. ASSUME NEW r \in Runs, Write(r) PROVE Typed'
    BY <1>0, <1>2, <1>6, WriteStep, WrittenType DEF TypeOK, AttemptsLeft
  <1>7. ASSUME NEW r \in Runs, WriteFails(r) PROVE Typed'
    BY <1>0, <1>2, <1>7, FailStep, WrittenType DEF TypeOK, AttemptsLeft
  <1>8. ASSUME NEW r \in Runs, Reload(r) PROVE Typed'
    <2>1. run[r].tried \in 0..Attempts
      BY <1>0 DEF TypeOK, RunType
    <2>2. PICK new \in RunType : /\ Becomes(r, new)
                                 /\ new.phase = AfterAttempt(r) /\ new.tried = run[r].tried
      BY <1>0, <1>8, ReloadStep
    <2>3. \/ new.phase = "gaveup" /\ new.tried = Attempts
          \/ new.phase = "write" /\ new.tried < Attempts
      <3>1. Attempts \in Nat
        BY <1>0
      <3>2. CASE run[r].tried = Attempts
        BY <2>2, <3>2 DEF AfterAttempt
      <3>3. CASE run[r].tried # Attempts
        <4>1. run[r].tried < Attempts
          BY <2>1, <3>1, <3>3
        <4> QED BY <2>2, <3>3, <4>1 DEF AfterAttempt
      <3> QED BY <3>2, <3>3
    <2>4. UNCHANGED <<clock, blob, outcome>> /\ faults' \in 0..MaxFaults
      BY <1>0, <1>8, ReloadStep
    <2> QED BY <1>0, <1>2, <2>2, <2>3, <2>4 DEF TypeOK
  <1>9. ASSUME NEW r \in Runs, Crash(r) PROVE Typed'
    BY <1>0, <1>2, <1>9, CrashStep DEF TypeOK
  <1> QED BY <1>1, <1>3, <1>4, <1>5, <1>6, <1>7, <1>8, <1>9 DEF Next

\* Every state has its type, whatever the store does (TypeOK of ManifestStore).
THEOREM StoreTypeCorrect == Spec => []TypeOK
  <1>1. Init => Typed
    BY InitType, StoreAssumption DEF Init, Unstarted, AttemptsLeft, Typed
  <1>2. Typed => TypeOK
    BY DEF Typed
  <1> QED
    BY <1>1, <1>2, NextType, PTL DEF Spec

-----------------------------------------------------------------------------
(* The inductive invariant *)

\* Saves and failures so far: what attempts are paid with.
Paid == Cardinality(Saved) + faults

LEMMA SavedCount ==
  ASSUME TypeOK, NEW r \in Runs, NEW new \in RunType, Becomes(r, new)
  PROVE  /\ Cardinality(Saved) \in Nat /\ Cardinality(Saved') \in Nat
         /\ run[r].phase # "saved" /\ new.phase # "saved" => Cardinality(Saved') = Cardinality(Saved)
         /\ run[r].phase # "saved" /\ new.phase = "saved" => Cardinality(Saved') = Cardinality(Saved) + 1
         /\ Cardinality(Saved') + 1 >= Cardinality(Saved)
  <1>1. /\ run'[r] = new
        /\ \A s \in Runs : s # r => run'[s] = run[s]
    BY OneRun
  <1>2. IsFiniteSet(Saved) /\ Saved \subseteq Runs
    BY StoreAssumption, FS_Subset DEF Saved
  <1>3. Cardinality(Saved) \in Nat
    BY <1>2, FS_CardinalityType
  <1>4. Saved' = IF new.phase = "saved" THEN Saved \cup {r} ELSE Saved \ {r}
    BY <1>1 DEF Saved
  <1>5. r \in Saved <=> run[r].phase = "saved"
    BY DEF Saved
  <1>6. CASE new.phase = "saved"
    <2>1. Cardinality(Saved') = IF r \in Saved THEN Cardinality(Saved) ELSE Cardinality(Saved) + 1
      BY <1>2, <1>4, <1>6, FS_AddElement
    <2> QED BY <1>3, <1>5, <1>6, <2>1
  <1>7. CASE new.phase # "saved"
    <2>1. Cardinality(Saved') = IF r \in Saved THEN Cardinality(Saved) - 1 ELSE Cardinality(Saved)
      BY <1>2, <1>4, <1>7, FS_RemoveElement
    <2>2. Cardinality(Saved') \in Nat
      BY <1>2, <1>4, <1>7, FS_RemoveElement, FS_CardinalityType
    <2> QED BY <1>3, <1>5, <1>7, <2>1, <2>2
  <1> QED BY <1>6, <1>7

\* A step of another run keeps a run's invariant: it leaves the blob alone and pays
\* no less, or it writes a more recent manifest under a new ETag and pays for it.
LEMMA OtherRun ==
  ASSUME StoreInv, TypeOK', NEW s \in Runs, run'[s] = run[s], clock <= clock',
         Paid \in Nat, Paid' \in Nat,
         \/ blob' = blob /\ Paid <= Paid'
         \/ /\ blob'.version = blob.version + 1
            /\ \A d \in Docs : blob.entries[d].seen <= blob'.entries[d].seen
            /\ Paid + 1 <= Paid'
  PROVE  RunInv(s)'
  <1>1. /\ RunInv(s) /\ run[s] \in RunType
        /\ blob.version \in Nat /\ blob'.version \in Nat
        /\ run[s].mine \in ManifestType /\ run[s].current \in ManifestType
        /\ clock \in Nat /\ clock' \in Nat
        /\ run[s].etag \in Nat /\ run[s].tried \in Nat
    BY StoreAssumption DEF StoreInv, TypeOK, RunType
  <1>2. /\ blob.entries \in ManifestType /\ blob'.entries \in ManifestType
    BY DEF StoreInv, TypeOK
  <1>3. run'[s].etag <= blob'.version
    BY <1>1 DEF RunInv
  <1>4. ETagStandsForManifest(s)'
    <2>1. CASE blob' = blob
      BY <1>1, <2>1 DEF RunInv, ETagStandsForManifest
    <2>2. CASE blob'.version = blob.version + 1
      <3>1. run'[s].etag # blob'.version
        BY <1>1, <2>2 DEF RunInv
      <3> QED BY <3>1 DEF ETagStandsForManifest
    <2> QED BY <2>1, <2>2
  <1>5. run'[s].phase = "saved" => \A d \in Docs : blob'.entries[d].seen >= run'[s].mine[d].seen
    <2>1. \A d \in Docs : blob'.entries[d].seen >= blob.entries[d].seen
      BY <1>2 DEF ManifestType, EntryType
    <2> QED BY <1>1, <1>2, <2>1 DEF RunInv, ManifestType, EntryType
  <1>6. Past(run[s].mine)' /\ Past(run[s].current)'
    BY <1>1 DEF RunInv, Past, ManifestType, EntryType
  <1>7. AttemptsPaid(s)'
    <2>1. /\ run[s].phase \in {"loaded", "write"} =>
               run[s].tried + (blob'.version - run[s].etag) <= Paid'
          /\ run[s].phase \in {"reload", "gaveup"} => run[s].tried <= Paid'
      <3>1. /\ run[s].phase \in {"loaded", "write"} =>
                 run[s].tried + (blob.version - run[s].etag) <= Paid
            /\ run[s].phase \in {"reload", "gaveup"} => run[s].tried <= Paid
        BY <1>1 DEF RunInv, AttemptsPaid, Paid
      <3>2. Paid <= Paid' /\ blob'.version - blob.version <= Paid' - Paid
        BY <1>1
      <3> QED BY <1>1, <3>1, <3>2
    <2> QED BY <2>1 DEF AttemptsPaid, Paid
  <1>8. AttemptsLeft(s)'
    BY <1>1 DEF RunInv, AttemptsLeft
  <1>9. run'[s].phase \in {"loaded", "write"} => run'[s].etag # NoETag
    BY <1>1 DEF RunInv
  <1> QED BY <1>3, <1>4, <1>5, <1>6, <1>7, <1>8, <1>9 DEF RunInv

\* An accepted write merges: it stores what the run wants, and nothing less recent.
LEMMA AcceptedWrite ==
  ASSUME StoreInv, NEW r \in Runs, run[r].phase = "write", Accepts(r), blob' = Written(r)
  PROVE  /\ blob'.version = blob.version + 1
         /\ blob'.entries = Merged(blob.entries, run[r].mine)
         /\ blob'.entries \in ManifestType
         /\ \A d \in Docs : blob.entries[d].seen <= blob'.entries[d].seen
         /\ \A d \in Docs : blob'.entries[d].seen >= run[r].mine[d].seen
         /\ \A d \in Docs : blob'.entries[d].seen <= clock
  <1>1. /\ RunInv(r) /\ run[r] \in RunType /\ run[r].mine \in ManifestType
        /\ blob.entries \in ManifestType
    BY DEF StoreInv, TypeOK, RunType
  <1>2. run[r].etag = blob.version
    BY <1>1 DEF RunInv, Accepts
  <1>3. run[r].current = Merged(blob.entries, run[r].mine)
    BY <1>1, <1>2 DEF RunInv, ETagStandsForManifest
  <1>4. \A d \in Docs : run[r].current[d].seen <= clock
    BY <1>1 DEF RunInv, Past
  <1>5. blob'.version = blob.version + 1 /\ blob'.entries = run[r].current
    BY DEF Written
  <1>6. /\ Merged(blob.entries, run[r].mine) \in ManifestType
        /\ \A d \in Docs : Merged(blob.entries, run[r].mine)[d].seen >= run[r].mine[d].seen
        /\ \A d \in Docs : Merged(blob.entries, run[r].mine)[d].seen >= blob.entries[d].seen
    BY <1>1, MergedFacts
  <1>7. \A d \in Docs : /\ blob.entries[d].seen \in Nat
                        /\ Merged(blob.entries, run[r].mine)[d].seen \in Nat
    BY <1>1, <1>6 DEF ManifestType, EntryType
  <1> QED BY <1>3, <1>4, <1>5, <1>6, <1>7

LEMMA InitInv == Init /\ Conditional => StoreInv
  <1> SUFFICES ASSUME Init, Conditional PROVE StoreInv
    OBVIOUS
  <1>1. TypeOK
    BY InitType
  <1>2. /\ blob.version = 1 /\ clock = 1
        /\ \A d \in Docs : blob.entries[d].seen <= 1
    BY DEF Init, Conditional, NoEntry
  <1>3. ASSUME NEW r \in Runs PROVE RunInv(r)
    <2>1. run[r] = Unstarted /\ Attempts \in Nat \ {0}
      BY <1>3, StoreAssumption DEF Init
    <2>2. /\ run[r].phase = "idle" /\ run[r].etag = 0 /\ run[r].tried = 0
          /\ run[r].mine = Empty /\ run[r].current = Empty
      BY <2>1 DEF Unstarted, NoETag
    <2>3. Past(Empty)
      BY <1>2 DEF Past, Empty, NoEntry
    <2> QED BY <1>2, <2>2, <2>3
            DEF RunInv, AttemptsLeft, ETagStandsForManifest, AttemptsPaid, NoETag
  <1> QED BY <1>1, <1>2, <1>3 DEF StoreInv, Past

LEMMA NextInv == StoreInv /\ Conditional /\ [Next]_vars => StoreInv'
  <1> SUFFICES ASSUME StoreInv, Conditional, [Next]_vars PROVE StoreInv'
    OBVIOUS
  <1>0. /\ TypeOK /\ Typed /\ (\A r \in Runs : RunInv(r) /\ AttemptsLeft(r))
        /\ "load" \notin Faults
    BY DEF StoreInv, RunInv, Typed, Conditional
  <1>1. TypeOK'
    BY <1>0, NextType DEF Typed
  <1>2. /\ clock \in Nat /\ faults \in Nat /\ faults' \in Nat
        /\ blob.version \in Nat /\ blob.version # 0
        /\ blob.entries \in ManifestType /\ Attempts \in Nat
    BY <1>0, <1>1, StoreAssumption DEF TypeOK, StoreInv
  <1>3. CASE UNCHANGED vars
    BY <1>3, <1>0 DEF vars, StoreInv, TypeOK, RunInv, AttemptsLeft, ETagStandsForManifest,
                  Past, AttemptsPaid, Saved
  \* One run's step: what is left to show of it is the run's own invariant.
  <1>4. ASSUME NEW r \in Runs, NEW new \in RunType, Becomes(r, new), clock <= clock',
               \/ blob' = blob /\ Paid <= Paid'
               \/ /\ blob'.version = blob.version + 1
                  /\ \A d \in Docs : blob.entries[d].seen <= blob'.entries[d].seen
                  /\ \A d \in Docs : blob'.entries[d].seen <= clock
                  /\ Paid + 1 <= Paid',
               RunInv(r)'
        PROVE  StoreInv'
    <2>1. /\ \A s \in Runs : s # r => run'[s] = run[s]
          /\ Paid \in Nat /\ Paid' \in Nat
      BY <1>0, <1>2, <1>4, OneRun, SavedCount DEF Paid
    <2>2. ASSUME NEW s \in Runs PROVE RunInv(s)'
      BY <1>1, <1>4, <2>1, OtherRun
    <2>3. blob'.version # 0
      BY <1>2, <1>4
    <2>4. Past(blob.entries)'
      <3>1. clock' \in Nat /\ (\A d \in Docs : blob'.entries[d].seen \in Nat)
        BY <1>1 DEF TypeOK, ManifestType, EntryType
      <3>2. \A d \in Docs : blob.entries[d].seen <= clock /\ blob.entries[d].seen \in Nat
        BY <1>2 DEF StoreInv, Past, ManifestType, EntryType
      <3> QED BY <1>2, <1>4, <3>1, <3>2 DEF Past
    <2> QED BY <1>1, <2>2, <2>3, <2>4 DEF StoreInv
  <1>5. ASSUME NEW r \in Runs, Plan(r) PROVE StoreInv'
    <2>1. PICK new \in RunType : Becomes(r, new) /\ new = [run[r] EXCEPT !.phase = "planned"]
      BY <1>0, <1>5, PlanStep
    <2>2. run[r].phase = "idle" /\ UNCHANGED <<clock, blob, faults>>
      BY <1>0, <1>5, PlanStep
    <2>3. run'[r] = new
      BY <1>0, <2>1, OneRun
    <2>4. /\ new.phase = "planned" /\ new.tried = run[r].tried /\ new.etag = run[r].etag
          /\ new.mine = run[r].mine /\ new.current = run[r].current
      BY <1>0, <2>1 DEF TypeOK, RunType
    <2>5. Paid' = Paid /\ Paid \in Nat
      <3>1. Becomes(r, new) /\ run[r].phase # "saved" /\ new.phase # "saved"
        BY <2>1, <2>2, <2>4
      <3>2. Cardinality(Saved') = Cardinality(Saved) /\ Cardinality(Saved) \in Nat
        BY <1>0, <3>1, SavedCount
      <3> QED BY <1>2, <2>2, <3>2 DEF Paid
    <2>6. RunInv(r)'
      BY <1>0, <2>2, <2>3, <2>4
         DEF RunInv, AttemptsLeft, ETagStandsForManifest, Past, AttemptsPaid
    <2> QED BY <1>2, <1>4, <2>1, <2>2, <2>5, <2>6
  <1>6. ASSUME NEW r \in Runs, Load(r) PROVE StoreInv'
    <2>1. PICK new \in RunType :
            /\ Becomes(r, new)
            /\ new.phase = "loaded" /\ new.tried = run[r].tried
            /\ new.current = run[r].current
            /\ new.etag = blob.version /\ new.mine = blob.entries /\ UNCHANGED faults
      BY <1>0, <1>6, LoadStep
    <2>2. run[r].phase = "planned" /\ UNCHANGED <<clock, blob>>
      BY <1>0, <1>6, LoadStep
    <2>3. run'[r] = new
      BY <1>0, <2>1, OneRun
    <2>4. Paid' = Paid /\ Paid \in Nat
      BY <1>0, <1>2, <2>1, <2>2, SavedCount DEF Paid
    <2>5. Past(blob.entries) /\ Past(run[r].current) /\ run[r].tried = 0
      BY <1>0, <2>2 DEF StoreInv, RunInv, AttemptsLeft
    <2>6. RunInv(r)'
      BY <1>2, <2>1, <2>2, <2>3, <2>4, <2>5
         DEF RunInv, AttemptsLeft, ETagStandsForManifest, Past, AttemptsPaid, Paid, NoETag
    <2> QED BY <1>2, <1>4, <2>1, <2>2, <2>4, <2>6
  <1>7. ASSUME NEW r \in Runs, Fold(r) PROVE StoreInv'
    <2>1. PICK new \in RunType :
            /\ Becomes(r, new)
            /\ new.phase = "write" /\ new.tried = run[r].tried /\ new.etag = run[r].etag
            /\ new.mine = Folded(run[r].mine, outcome[r], clock')
            /\ new.current = new.mine
      BY <1>0, <1>7, FoldStep
    <2>2. /\ run[r].phase = "loaded" /\ UNCHANGED <<blob, outcome, faults>>
          /\ clock' \in Nat /\ clock <= clock'
      BY <1>0, <1>7, FoldStep
    <2>3. run'[r] = new
      BY <1>0, <2>1, OneRun
    <2>4. Paid' = Paid /\ Paid \in Nat
      BY <1>0, <1>2, <2>1, <2>2, SavedCount DEF Paid
    <2>5. /\ RunInv(r) /\ run[r].mine \in ManifestType /\ run[r].tried = 0
          /\ run[r].etag \in Nat
      BY <1>0, <2>2 DEF AttemptsLeft, TypeOK, RunType
    <2>6. \A d \in Docs : run[r].mine[d].seen <= clock'
      BY <1>2, <2>2, <2>5 DEF RunInv, Past, ManifestType, EntryType
    <2>7. /\ new.mine \in ManifestType
          /\ \A d \in Docs : new.mine[d].seen <= clock'
          /\ \A d \in Docs : run[r].mine[d].seen <= new.mine[d].seen
      BY <2>1, <2>2, <2>5, <2>6, FoldedFacts
    <2>8. run[r].etag = blob.version => new.current = Merged(blob.entries, new.mine)
      <3>1. run[r].etag = blob.version => run[r].mine = blob.entries
        BY <2>2, <2>5 DEF RunInv, ETagStandsForManifest
      <3> QED BY <1>2, <2>1, <2>7, <3>1, MergedNewer
    <2>9. RunInv(r)'
      BY <1>0, <1>2, <2>1, <2>2, <2>3, <2>4, <2>5, <2>7, <2>8, StoreAssumption
         DEF RunInv, AttemptsLeft, ETagStandsForManifest, Past, AttemptsPaid, Paid
    <2> QED BY <1>2, <1>4, <2>1, <2>2, <2>4, <2>9
  <1>8. ASSUME NEW r \in Runs, Write(r) PROVE StoreInv'
    <2>1. PICK new \in RunType :
            /\ Becomes(r, new)
            /\ new.etag = run[r].etag
            /\ new.mine = run[r].mine /\ new.current = run[r].current
            /\ \/ /\ Accepts(r) /\ blob' = Written(r)
                  /\ new.phase = "saved" /\ new.tried = run[r].tried
               \/ /\ ~Accepts(r) /\ blob' = blob
                  /\ new.phase = "reload" /\ new.tried = run[r].tried + 1
      BY <1>0, <1>8, WriteStep
    <2>2. run[r].phase = "write" /\ UNCHANGED <<clock, outcome, faults>>
      BY <1>0, <1>8, WriteStep
    <2>3. run'[r] = new
      BY <1>0, <2>1, OneRun
    <2>4. /\ RunInv(r) /\ run[r].etag \in Nat /\ run[r].tried \in Nat
      BY <1>0 DEF TypeOK, RunType
    <2>5. CASE Accepts(r) /\ blob' = Written(r) /\ new.phase = "saved" /\ new.tried = run[r].tried
      <3>1. Paid' = Paid + 1 /\ Paid \in Nat
        BY <1>0, <1>2, <2>1, <2>2, <2>5, SavedCount DEF Paid
      <3>2. /\ blob'.version = blob.version + 1
            /\ \A d \in Docs : blob.entries[d].seen <= blob'.entries[d].seen
            /\ \A d \in Docs : blob'.entries[d].seen >= run[r].mine[d].seen
            /\ \A d \in Docs : blob'.entries[d].seen <= clock
        BY <2>2, <2>5, AcceptedWrite
      <3>3. RunInv(r)'
        BY <1>2, <2>1, <2>2, <2>3, <2>4, <2>5, <3>2
           DEF RunInv, AttemptsLeft, ETagStandsForManifest, Past, AttemptsPaid
      <3> QED BY <1>2, <1>4, <2>1, <2>2, <3>1, <3>2, <3>3
    <2>6. CASE ~Accepts(r) /\ blob' = blob /\ new.phase = "reload" /\ new.tried = run[r].tried + 1
      <3>1. Paid' = Paid /\ Paid \in Nat
        BY <1>0, <1>2, <2>1, <2>2, <2>6, SavedCount DEF Paid
      <3>2. blob.version - run[r].etag >= 1
        BY <1>2, <2>4, <2>6 DEF RunInv, Accepts
      <3>3. run[r].tried + 1 <= Paid'
        BY <1>2, <2>2, <2>4, <3>1, <3>2 DEF RunInv, AttemptsPaid, Paid
      <3>4. RunInv(r)'
        BY <1>2, <2>1, <2>2, <2>3, <2>4, <2>6, <3>3
           DEF RunInv, AttemptsLeft, ETagStandsForManifest, Past, AttemptsPaid, Paid
      <3> QED BY <1>2, <1>4, <2>1, <2>2, <2>6, <3>1, <3>4
    <2> QED BY <2>1, <2>5, <2>6
  <1>9. ASSUME NEW r \in Runs, WriteFails(r) PROVE StoreInv'
    <2>1. PICK new \in RunType :
            /\ Becomes(r, new)
            /\ new.etag = run[r].etag
            /\ new.mine = run[r].mine /\ new.current = run[r].current
            /\ new.phase = "reload" /\ new.tried = run[r].tried + 1
      BY <1>0, <1>9, FailStep
    <2>2. /\ run[r].phase = "write" /\ UNCHANGED <<clock, outcome>>
          /\ faults' = faults + 1
          /\ blob' = blob \/ (Accepts(r) /\ blob' = Written(r))
      BY <1>0, <1>9, FailStep
    <2>3. run'[r] = new
      BY <1>0, <2>1, OneRun
    <2>4. Paid' = Paid + 1 /\ Paid \in Nat
      BY <1>0, <1>2, <2>1, <2>2, SavedCount DEF Paid
    <2>5. /\ RunInv(r) /\ run[r].etag \in Nat /\ run[r].tried \in Nat
          /\ run[r].etag <= blob.version
      BY <1>0 DEF TypeOK, RunType, RunInv
    <2>6. run[r].tried + 1 <= Paid'
      <3>1. run[r].tried + (blob.version - run[r].etag) <= Paid
        BY <2>2, <2>5 DEF RunInv, AttemptsPaid, Paid
      <3> QED BY <1>2, <2>4, <2>5, <3>1
    <2>7. \/ blob' = blob
          \/ /\ blob'.version = blob.version + 1
             /\ \A d \in Docs : blob.entries[d].seen <= blob'.entries[d].seen
             /\ \A d \in Docs : blob'.entries[d].seen <= clock
      BY <2>2, AcceptedWrite
    <2>8. new.etag <= blob'.version
      BY <1>2, <2>1, <2>5, <2>7
    <2>9. RunInv(r)'
      BY <2>1, <2>2, <2>3, <2>5, <2>6, <2>8
         DEF RunInv, AttemptsLeft, ETagStandsForManifest, Past, AttemptsPaid, Paid
    <2> QED BY <1>2, <1>4, <2>1, <2>2, <2>4, <2>7, <2>9
  <1>10. ASSUME NEW r \in Runs, Reload(r) PROVE StoreInv'
    <2>1. PICK new \in RunType :
            /\ Becomes(r, new)
            /\ new.phase = AfterAttempt(r) /\ new.tried = run[r].tried
            /\ new.mine = run[r].mine
            /\ new.etag = blob.version
            /\ new.current = Merged(blob.entries, run[r].mine)
            /\ UNCHANGED faults
      BY <1>0, <1>10, ReloadStep
    <2>2. run[r].phase = "reload" /\ UNCHANGED <<clock, blob, outcome>>
      BY <1>0, <1>10, ReloadStep
    <2>3. run'[r] = new
      BY <1>0, <2>1, OneRun
    <2>4. new.phase # "saved"
      BY <2>1 DEF AfterAttempt
    <2>5. Paid' = Paid /\ Paid \in Nat
      BY <1>0, <1>2, <2>1, <2>2, <2>4, SavedCount DEF Paid
    <2>6. /\ RunInv(r) /\ run[r].mine \in ManifestType
          /\ run[r].tried \in Nat /\ run[r].tried <= Attempts
      BY <1>0, <1>2 DEF TypeOK, RunType
    <2>7. run[r].tried <= Paid
      BY <2>2, <2>6 DEF RunInv, AttemptsPaid, Paid
    <2>8. AttemptsLeft(r)'
      <3>1. CASE run[r].tried = Attempts
        BY <2>1, <2>3, <3>1 DEF AfterAttempt, AttemptsLeft
      <3>2. CASE run[r].tried # Attempts
        <4>1. run[r].tried < Attempts
          BY <1>2, <2>6, <3>2
        <4> QED BY <2>1, <2>3, <3>2, <4>1 DEF AfterAttempt, AttemptsLeft
      <3> QED BY <3>1, <3>2
    <2>9. Past(new.current)' /\ Past(new.mine)'
      <3>1. Past(blob.entries) /\ Past(run[r].mine)
        BY <2>6 DEF StoreInv, RunInv
      <3>2. \A d \in Docs : Merged(blob.entries, run[r].mine)[d] \in {blob.entries[d], run[r].mine[d]}
        BY <1>2, <2>6, MergedFacts
      <3> QED BY <2>1, <2>2, <3>1, <3>2 DEF Past
    <2>10. ETagStandsForManifest(r)'
      BY <2>1, <2>2, <2>3 DEF ETagStandsForManifest, AfterAttempt
    <2>11. AttemptsPaid(r)'
      BY <1>2, <2>1, <2>2, <2>3, <2>5, <2>6, <2>7 DEF AttemptsPaid, Paid
    <2>12. RunInv(r)'
      BY <1>2, <2>1, <2>2, <2>3, <2>4, <2>8, <2>9, <2>10, <2>11 DEF RunInv, NoETag, Past
    <2> QED BY <1>2, <1>4, <2>1, <2>2, <2>5, <2>12
  <1>11. ASSUME NEW r \in Runs, Crash(r) PROVE StoreInv'
    <2>1. PICK new \in RunType :
            /\ Becomes(r, new)
            /\ new.phase = "planned" /\ new.tried = 0 /\ new.etag = NoETag
            /\ new.mine = Empty /\ new.current = Empty
      BY <1>0, <1>11, CrashStep
    <2>2. UNCHANGED <<clock, blob, outcome>> /\ faults' = faults + 1
      BY <1>0, <1>11, CrashStep
    <2>3. run'[r] = new
      BY <1>0, <2>1, OneRun
    <2>4. Paid <= Paid'
      BY <1>0, <1>2, <2>1, <2>2, SavedCount DEF Paid
    <2>5. \A d \in Docs : Empty[d].seen <= clock
      BY <1>2 DEF Empty, NoEntry
    <2>6. RunInv(r)'
      BY <1>2, <2>1, <2>2, <2>3, <2>5
         DEF RunInv, AttemptsLeft, ETagStandsForManifest, Past, AttemptsPaid, NoETag
    <2> QED BY <1>2, <1>4, <2>1, <2>2, <2>4, <2>6
  <1> QED BY <1>3, <1>5, <1>6, <1>7, <1>8, <1>9, <1>10, <1>11 DEF Next

\* The inductive invariant holds of every state.
THEOREM StoreInductive == ASSUME Conditional PROVE Spec => []StoreInv
  <1>1. Init => StoreInv
    BY InitInv
  <1>2. StoreInv /\ [Next]_vars => StoreInv'
    BY NextInv
  <1> QED
    BY <1>1, <1>2, PTL DEF Spec

\* No save clobbers another's (SavedIsKept): BlobManifestStore.save, once there is
\* an ETag to condition the first write on and the manifest downloads.
THEOREM SavesAreKept == ASSUME Conditional PROVE Spec => []SavedIsKept
  <1>1. StoreInv => SavedIsKept
    BY DEF StoreInv, RunInv, SavedIsKept
  <1> QED
    BY <1>1, StoreInductive, PTL

\* A save gives up only when other saves and failures used its attempts up
\* (GivesUpOnlyUnderContention): the loop of save for any number of attempts.
THEOREM GivesUpUnderContention ==
  ASSUME Conditional PROVE Spec => []GivesUpOnlyUnderContention
  <1>1. StoreInv => GivesUpOnlyUnderContention
    <2> SUFFICES ASSUME StoreInv, NEW r \in Runs, run[r].phase = "gaveup"
                 PROVE  Attempts <= Cardinality(Runs) - 1 + faults
      BY DEF GivesUpOnlyUnderContention
    <2>1. Attempts <= Cardinality(Saved) + faults
      BY DEF StoreInv, RunInv, AttemptsLeft, AttemptsPaid
    <2>2. Saved \subseteq Runs \ {r}
      BY DEF Saved
    <2>3. IsFiniteSet(Runs \ {r}) /\ Cardinality(Runs \ {r}) = Cardinality(Runs) - 1
      BY StoreAssumption, FS_RemoveElement
    <2>4. Cardinality(Saved) <= Cardinality(Runs) - 1
      BY <2>2, <2>3, FS_Subset
    <2>5. Cardinality(Saved) \in Nat /\ Cardinality(Runs) \in Nat /\ faults \in Nat
      BY <2>2, <2>3, StoreAssumption, FS_Subset, FS_CardinalityType DEF StoreInv, TypeOK
    <2> QED BY <2>1, <2>4, <2>5, StoreAssumption
  <1> QED
    BY <1>1, StoreInductive, PTL

-----------------------------------------------------------------------------
(* Refinement *)

\* A step of the store is a step of the register, or leaves it unchanged.
LEMMA StepRefines ==
  ASSUME StoreInv, StoreInv', Conditional, [Next]_vars
  PROVE  [Register!Next]_<<blob.entries, [r \in Runs |-> run[r].mine]>>
  <1> DEFINE offers == [r \in Runs |-> run[r].mine]
  <1>1. TypeOK /\ TypeOK' /\ (\A r \in Runs : AttemptsLeft(r))
    BY DEF StoreInv, RunInv
  <1>2. offers' \in [Runs -> ManifestType]
    BY <1>1 DEF TypeOK, RunType
  <1>3. ManifestType = Register!Manifests
    BY DEF ManifestType, EntryType, Register!Manifests, Register!Entries
  <1>4. blob'.entries = blob.entries => Register!Offer
    BY <1>2, <1>3 DEF Register!Offer
  <1>5. ASSUME NEW r \in Runs, run[r].phase = "write", Accepts(r), blob' = Written(r),
               offers' = offers
        PROVE  Register!Publish(r)
    <2>1. blob'.entries = Merged(blob.entries, run[r].mine)
      BY <1>5, AcceptedWrite
    <2>2. Merged(blob.entries, run[r].mine) = Register!Newest(blob.entries, offers[r])
      BY DEF Merged, Register!Newest
    <2> QED BY <1>5, <2>1, <2>2 DEF Register!Publish
  <1>6. ASSUME NEW r \in Runs, NEW new \in RunType, Becomes(r, new), new.mine = run[r].mine
        PROVE  offers' = offers
    BY <1>1, <1>6, OneRun
  <1>7. CASE UNCHANGED vars
    BY <1>4, <1>7 DEF vars, Register!Next
  <1>8. ASSUME NEW r \in Runs, Plan(r) \/ Load(r) \/ Fold(r) \/ Reload(r) \/ Crash(r)
        PROVE  Register!Next
    BY <1>4, <1>8 DEF Plan, Load, Fold, Reload, Crash, Register!Next
  <1>9. ASSUME NEW r \in Runs, Write(r)
        PROVE  Register!Next
    <2>1. run[r].phase = "write" /\ offers' = offers
      BY <1>1, <1>6, <1>9, WriteStep
    <2>2. blob' = blob \/ (Accepts(r) /\ blob' = Written(r))
      BY <1>9 DEF Write
    <2> QED BY <1>4, <1>5, <2>1, <2>2 DEF Register!Next
  <1>10. ASSUME NEW r \in Runs, WriteFails(r)
         PROVE  Register!Next
    <2>1. run[r].phase = "write" /\ offers' = offers
      BY <1>1, <1>6, <1>10, FailStep
    <2>2. blob' = blob \/ (Accepts(r) /\ blob' = Written(r))
      BY <1>10 DEF WriteFails
    <2> QED BY <1>4, <1>5, <2>1, <2>2 DEF Register!Next
  <1> HIDE DEF offers
  <1> QED BY <1>7, <1>8, <1>9, <1>10 DEF Next, offers

\* The conditional write with merge and retry implements the register
\* (RefinesRegister), for any number of runs, documents and attempts.
THEOREM ImplementsRegister == ASSUME Conditional PROVE Spec => RefinesRegister
  <1>1. Init => Register!Init
    <2> SUFFICES ASSUME Init PROVE Register!Init
      OBVIOUS
    <2>1. TypeOK
      BY InitType
    <2>2. blob.entries \in Register!Manifests
      BY <2>1 DEF TypeOK, ManifestType, EntryType, Register!Manifests, Register!Entries
    <2>3. \A r \in Runs : run[r].mine = [d \in Docs |-> Register!NoEntry]
      BY DEF Init, Unstarted, Empty, NoEntry, Register!NoEntry
    <2> QED BY <2>2, <2>3 DEF Register!Init
  <1>2. StoreInv /\ StoreInv' /\ [Next]_vars
          => [Register!Next]_<<blob.entries, [r \in Runs |-> run[r].mine]>>
    BY StepRefines
  <1> QED
    BY <1>1, <1>2, StoreInductive, PTL DEF Spec, RefinesRegister, Register!Spec
-----------------------------------------------------------------------------
(* What a crawl lists and reads. *)

OutcomeType == [state : {"todo", "done", "failed"}, etag : Versions, modified : Versions, content : Versions]
CrawlType   ==
    [phase : {"idle", "choose", "get", "sitemap", "plan", "process"}, kind : {"choose", "sitemap"},
     runs : 0..MaxCrawls, full : BOOLEAN, from : Int, error : BOOLEAN, robots : {"unread", "read", "absent"},
     depth : Nat, frontier : Seq(Pages), seen : SUBSET Pages, targets : Seq(Pages), results : Seq(GotType),
     listed : Seq(Items), tasks : Seq(Items), outcomes : Seq(OutcomeType),
     read : [Pages -> SUBSET Pages], took : [Pages -> Versions], answered : SUBSET Pages, capped : BOOLEAN]

CrawlShape ==
    /\ site \in [Pages -> [version : Versions, links : Seq(Pages)]]
    /\ changes \in 0..MaxChanges /\ crawlFaults \in 0..MaxCrawlFaults
    /\ entries \in [Pages -> PageEntry]
    /\ indexed \in [Pages -> [live : BOOLEAN, content : Versions]]
    /\ crawl \in CrawlType

\* The lists of a crawl keep step, and its pages stay below the cap.
InStep ==
    /\ Len(crawl.results) = Len(crawl.targets) /\ Len(crawl.outcomes) = Len(crawl.tasks)
    /\ Cardinality(crawl.seen) + Len(crawl.targets) <= MaxPages
    /\ crawl.answered \subseteq crawl.seen
    /\ crawl.phase = "get" \/ crawl.targets = <<>>
    /\ crawl.phase \in {"choose", "get"} => crawl.kind = "choose"
    /\ crawl.phase = "sitemap" => crawl.kind = "sitemap"
    /\ crawl.phase = "sitemap" => crawl.seen = {} /\ crawl.answered = {} /\ \A p \in Pages : crawl.took[p] = 0
    /\ crawl.phase = "process" \/ crawl.phase = "idle" \/ crawl.tasks = <<>>

(* Version v of page p was on the site: it is not younger than what is there now.  A version that
   went does not come back. *)
Was(p, v) == v <= changes + 1 /\ (Behind(p).version # 0 => v <= Behind(p).version)

\* What is on record of a page with an ETag is of a version that was there.
RecordedWas ==
    /\ \A p \in Pages : Was(p, Behind(p).version)
    /\ \A p \in Marked : /\ Was(p, entries[p].etag) /\ entries[p].content = entries[p].etag
                         /\ entries[p].state # "none" => entries[p].etag # 0
                         /\ entries[p].etag = 0 => entries[p].modified = 0

\* So is what this crawl was answered, and it is not older than the record.
AnsweredWas ==
    \A i \in DOMAIN crawl.results :
        LET got == crawl.results[i]
            p   == crawl.targets[i] IN
        /\ got.kind = "none" => got = Ungot
        /\ got.kind # "page" => got.links = <<>>
        /\ got.kind = "page" => got.version # 0
        /\ got.kind = "page" /\ p \in Marked => Was(p, got.version) /\ got.version > entries[p].etag
        /\ got.kind = "same" => got.version = entries[p].etag

IsListed(p, etag, listed) == \E item \in ToSet(listed) : item.page = p /\ item.etag = etag

ListedWas ==
    crawl.phase # "idle" =>
        /\ \A item \in ToSet(crawl.listed) \cup ToSet(crawl.tasks) :
             item.page \in Marked => Was(item.page, item.etag) /\ item.etag >= entries[item.page].etag
        /\ \A p \in Marked : crawl.took[p] # 0 =>
             /\ Was(p, crawl.took[p]) /\ crawl.took[p] > entries[p].etag
             /\ IsListed(p, crawl.took[p], crawl.listed)
        /\ \A p \in crawl.answered : \E item \in ToSet(crawl.listed) : item.page = p

\* What was processed is indexed as it was read, or newer.
ProcessedIsIndexed ==
    crawl.phase = "process" =>
        /\ \A p \in Marked : crawl.took[p] # 0 => \E i \in DOMAIN crawl.tasks : crawl.tasks[i].page = p
        /\ \A i \in DOMAIN crawl.tasks :
             LET p == crawl.tasks[i].page
                 o == crawl.outcomes[i] IN
             p \in Marked /\ o.state = "done" =>
                 /\ Was(p, o.etag) /\ o.etag = o.content /\ o.etag # 0
                 /\ crawl.took[p] # 0 => /\ o.content >= crawl.took[p]
                                         /\ indexed[p].live /\ indexed[p].content >= crawl.took[p]

Allowed    == {p \in Pages : AllowedPage(p)}
Clicks(d)  == Reach(Allowed, crawl.read)[d]
FromSeen   == UNION {crawl.read[p] : p \in crawl.seen}
AtFrontier == (ToSet(crawl.frontier) \cap Allowed) \ crawl.seen

(* After d levels a crawl has asked for nothing but the pages within d - 1 clicks; short of the
   cap for all of them, and then the links that they have and it did not follow are its frontier. *)
Levels ==
    /\ crawl.phase \in {"choose", "get"} =>
         /\ crawl.depth \in 0..MaxDepth + 1
         /\ crawl.phase = "get" => crawl.depth <= MaxDepth /\ crawl.robots # "unread"
         /\ crawl.depth = 0 => crawl.frontier = Seeds /\ crawl.seen = {}
         /\ crawl.depth > 0 => /\ crawl.robots # "unread" /\ crawl.seen \subseteq Clicks(crawl.depth - 1)
                               /\ ToSet(crawl.frontier) \subseteq FromSeen
         /\ \A p \in Pages \ crawl.seen : crawl.read[p] = {}
         /\ ToSet(crawl.targets) \subseteq AtFrontier
         /\ ~crawl.capped =>
              /\ crawl.depth > 0 => Clicks(crawl.depth - 1) \subseteq crawl.seen
              /\ crawl.depth \in 1..MaxDepth => FromSeen \cap Allowed \subseteq crawl.seen \cup ToSet(crawl.frontier)
              /\ crawl.phase = "get" => AtFrontier \subseteq ToSet(crawl.targets)
    /\ ReachIsCovered

CrawlInv ==
    /\ CrawlShape /\ InStep /\ RecordedWas /\ AnsweredWas /\ ListedWas /\ ProcessedIsIndexed
    /\ Levels /\ ReadIsIndexed

(* The pages within so many clicks. *)

\* The levels of a walk: the seeds, and with each click what the links lead to.
Walks(r, allowed, read) ==
    /\ r \in [0..MaxDepth -> SUBSET Pages] /\ r[0] = allowed \cap ToSet(Seeds)
    /\ \A d \in 1..MaxDepth : r[d] = r[d - 1] \cup {q \in allowed : \E p \in r[d - 1] : q \in read[p]}

LEMMA ReachFacts ==
    ASSUME NEW allowed \in SUBSET Pages, NEW read \in [Pages -> SUBSET Pages]
    PROVE  Walks(Reach(allowed, read), allowed, read)
<1> DEFINE V == SUBSET Pages
           n == MaxDepth
           Further(v) == v \cup {q \in allowed : \E p \in v : q \in read[p]}
           b == allowed \cap ToSet(Seeds)
           Level(f) == f = [d \in 0..n |-> IF d = 0 THEN b ELSE Further(f[d - 1])]
           step == [i \in 1..n |-> [v \in V |-> Further(v)]]
<1>1. n \in Nat /\ b \in V /\ \A v \in V : Further(v) \in V
  BY CrawlerAssumption DEF CrawlerAssumption
<1> HIDE DEF n, V, b
<1>2. \E f \in [0..n -> V] : Level(f)
  <2>1. step \in StepsOf(n, V)
    <3> HIDE DEF Further
    <3> QED
      BY <1>1 DEF StepsOf
  <2>2. \A i \in 1..n, v \in V : step[i][v] = Further(v)
    OBVIOUS
  <2> HIDE DEF step, Further
  <2>3. PICK f \in [0..n -> V] : f[0] = b /\ \A i \in 1..n : f[i] = step[i][f[i - 1]]
    <3>1. n \in Nat /\ b \in V
      BY <1>1
    <3> QED
      BY <2>1, <3>1, Recursion, Z3
  <2>4. ASSUME NEW d \in 0..n PROVE f[d] = IF d = 0 THEN b ELSE Further(f[d - 1])
    <3>1. CASE d = 0
      BY <2>3, <3>1
    <3>2. CASE d \in 1..n
      <4>1. d - 1 \in 0..n /\ d # 0
        BY <1>1, <3>2
      <4>2. f[d - 1] \in V
        BY <4>1
      <4> QED
        BY <2>2, <2>3, <3>2, <4>1, <4>2
    <3> QED
      BY <1>1, <3>1, <3>2
  <2>5. f = [d \in 0..n |-> f[d]]
    OBVIOUS
  <2> QED
    BY <2>4, <2>5
<1> DEFINE r == CHOOSE f : Level(f)
<1>3. Level(r)
  BY <1>2
<1>4. Reach(allowed, read) = r
  BY Zenon DEF Reach, n, b
<1> HIDE DEF r
<1>5. \A d \in 0..n : r[d] = IF d = 0 THEN b ELSE Further(r[d - 1])
  BY <1>3
<1> HIDE DEF Further
<1>6. r[0] = b
  BY <1>1, <1>5
<1> DEFINE Good == {k \in Nat : k <= n => r[k] \in V}
<1>7. Good = Nat
  <2>1. 0 \in Good
    BY <1>1, <1>6
  <2>2. ASSUME NEW k \in Good PROVE k + 1 \in Good
    <3> SUFFICES ASSUME k + 1 <= n PROVE r[k + 1] \in V
      OBVIOUS
    <3>1. k + 1 \in 0..n /\ k + 1 # 0 /\ (k + 1) - 1 = k /\ r[k] \in V
      BY <1>1, <2>2
    <3>2. r[k + 1] = Further(r[k])
      BY <1>5, <3>1
    <3> HIDE DEF Further
    <3> QED
      BY <1>1, <3>1, <3>2
  <2> QED
    BY <2>1, <2>2, SetInduction
<1>8. \A d \in 0..n : r[d] \in V
  BY <1>1, <1>7
<1>9. r \in [0..n -> V]
  BY <1>3, <1>8
<1>10. \A d \in 1..n : r[d] = Further(r[d - 1])
  BY <1>1, <1>5
<1> QED
  <2>1. \A d \in 1..n : r[d] = r[d - 1] \cup {q \in allowed : \E p \in r[d - 1] : q \in read[p]}
    BY <1>10 DEF Further
  <2> QED
    BY <1>4, <1>6, <1>9, <2>1 DEF n, V, b, Walks

\* More clicks and more links reach no less.
LEMMA ReachGrows ==
    ASSUME NEW allowed \in SUBSET Pages, NEW read \in [Pages -> SUBSET Pages],
           NEW more \in [Pages -> SUBSET Pages], \A p \in Pages : read[p] \subseteq more[p],
           NEW d \in 0..MaxDepth
    PROVE  /\ Reach(allowed, read)[d] \subseteq Reach(allowed, more)[d]
           /\ Reach(allowed, read)[d] \subseteq Reach(allowed, read)[MaxDepth]
           /\ Reach(allowed, read)[d] \subseteq allowed
<1> DEFINE n == MaxDepth
<1>0. n \in Nat
  BY CrawlerAssumption DEF CrawlerAssumption
<1>1. PICK r : r = Reach(allowed, read)
  OBVIOUS
<1>2. PICK m : m = Reach(allowed, more)
  OBVIOUS
<1>3. /\ r \in [0..n -> SUBSET Pages] /\ r[0] = allowed \cap ToSet(Seeds)
      /\ \A i \in 1..n : r[i] = r[i - 1] \cup {q \in allowed : \E p \in r[i - 1] : q \in read[p]}
  <2>1. Walks(r, allowed, read)
    BY <1>1, ReachFacts
  <2> QED
    BY <2>1 DEF Walks
<1>4. /\ m \in [0..n -> SUBSET Pages] /\ m[0] = allowed \cap ToSet(Seeds)
      /\ \A i \in 1..n : m[i] = m[i - 1] \cup {q \in allowed : \E p \in m[i - 1] : q \in more[p]}
  <2>1. Walks(m, allowed, more)
    BY <1>2, ReachFacts
  <2> QED
    BY <2>1 DEF Walks
<1> HIDE DEF n
<1> DEFINE Good == {k \in Nat : k <= n => r[k] \subseteq m[k] /\ r[k] \subseteq allowed}
           Latest == {k \in Nat : k <= n => r[n - k] \subseteq r[n]}
<1>5. Good = Nat
  <2>1. 0 \in Good
    BY <1>3, <1>4
  <2>2. ASSUME NEW k \in Good PROVE k + 1 \in Good
    <3> SUFFICES ASSUME k + 1 <= n PROVE r[k + 1] \subseteq m[k + 1] /\ r[k + 1] \subseteq allowed
      OBVIOUS
    <3>1. k + 1 \in 1..n /\ (k + 1) - 1 = k /\ k \in 0..n /\ r[k] \subseteq m[k] /\ r[k] \subseteq allowed
      BY <1>0, <2>2
    <3> DEFINE j == k + 1
    <3>2. j - 1 = k /\ j \in 1..n
      BY <3>1
    <3> HIDE DEF j
    <3>3. /\ r[j] = r[k] \cup {q \in allowed : \E p \in r[k] : q \in read[p]}
          /\ m[j] = m[k] \cup {q \in allowed : \E p \in m[k] : q \in more[p]}
      BY <1>3, <1>4, <3>2
    <3>4. r[k] \subseteq Pages
      BY <1>3, <3>1
    <3>5. r[j] \subseteq m[j] /\ r[j] \subseteq allowed
      BY <3>1, <3>3, <3>4
    <3> QED
      BY <3>5 DEF j
  <2> QED
    BY <2>1, <2>2, SetInduction
<1>6. Latest = Nat
  <2>1. 0 \in Latest
    BY <1>0
  <2>2. ASSUME NEW k \in Latest PROVE k + 1 \in Latest
    <3> SUFFICES ASSUME k + 1 <= n PROVE r[n - (k + 1)] \subseteq r[n]
      OBVIOUS
    <3> DEFINE j == n - k
    <3>1. j \in 1..n /\ n - (k + 1) = j - 1 /\ r[j] \subseteq r[n]
      BY <1>0, <2>2
    <3> HIDE DEF j
    <3>2. r[j - 1] \subseteq r[j]
      BY <1>3, <3>1
    <3> QED
      BY <3>1, <3>2
  <2> QED
    BY <2>1, <2>2, SetInduction
<1>7. r[d] \subseteq m[d] /\ r[d] \subseteq allowed
  BY <1>0, <1>5 DEF n
<1>8. r[d] \subseteq r[n]
  <2>1. n - d \in Nat /\ n - d <= n /\ n - (n - d) = d
    BY <1>0 DEF n
  <2> DEFINE k == n - d
  <2>2. k \in Latest /\ k <= n /\ n - k = d
    BY <1>6, <2>1
  <2> HIDE DEF k
  <2> QED
    BY <2>2
<1> QED
  BY <1>1, <1>2, <1>7, <1>8 DEF n

LEMMA ReachWithin ==
    ASSUME NEW allowed \in SUBSET Pages, NEW read \in [Pages -> SUBSET Pages], NEW d \in 0..MaxDepth
    PROVE  Reach(allowed, read)[d] \subseteq Reach(allowed, read)[MaxDepth] /\ Reach(allowed, read)[d] \subseteq allowed
<1>1. PICK more \in [Pages -> SUBSET Pages] : more = read
  OBVIOUS
<1>2. \A p \in Pages : read[p] \subseteq more[p]
  BY <1>1
<1> QED
  BY <1>2, ReachGrows

\* The seeds stay within reach.
LEMMA ReachRises ==
    ASSUME NEW allowed \in SUBSET Pages, NEW read \in [Pages -> SUBSET Pages], NEW d \in 0..MaxDepth
    PROVE  Reach(allowed, read)[0] \subseteq Reach(allowed, read)[d]
<1> DEFINE n == MaxDepth
<1>0. n \in Nat
  BY CrawlerAssumption DEF CrawlerAssumption
<1>1. PICK r : r = Reach(allowed, read)
  OBVIOUS
<1>2. \A i \in 1..n : r[i - 1] \subseteq r[i]
  <2>1. Walks(r, allowed, read)
    BY <1>1, ReachFacts
  <2> QED
    BY <2>1 DEF Walks
<1> HIDE DEF n
<1> DEFINE Good == {k \in Nat : k <= n => r[0] \subseteq r[k]}
<1>3. Good = Nat
  <2>1. 0 \in Good
    OBVIOUS
  <2>2. ASSUME NEW k \in Good PROVE k + 1 \in Good
    <3> SUFFICES ASSUME k + 1 <= n PROVE r[0] \subseteq r[k + 1]
      OBVIOUS
    <3> DEFINE j == k + 1
    <3>1. j \in 1..n /\ j - 1 = k /\ r[0] \subseteq r[k]
      BY <1>0, <2>2
    <3> HIDE DEF j
    <3>2. r[0] \subseteq r[j]
      BY <1>2, <3>1
    <3> QED
      BY <3>2 DEF j
  <2> QED
    BY <2>1, <2>2, SetInduction
<1>4. r[0] \subseteq r[d]
  BY <1>0, <1>3 DEF n
<1> QED
  BY <1>1, <1>4

\* Other links of pages that are further away change nothing.
LEMMA ReachIsLocal ==
    ASSUME NEW allowed \in SUBSET Pages, NEW read \in [Pages -> SUBSET Pages],
           NEW more \in [Pages -> SUBSET Pages], NEW d \in 0..MaxDepth,
           d > 0 => \A p \in Reach(allowed, read)[d - 1] : more[p] = read[p]
    PROVE  Reach(allowed, more)[d] = Reach(allowed, read)[d]
<1> DEFINE n == MaxDepth
<1>0. n \in Nat
  BY CrawlerAssumption DEF CrawlerAssumption
<1>1. PICK r : r = Reach(allowed, read)
  OBVIOUS
<1>2. PICK m : m = Reach(allowed, more)
  OBVIOUS
<1>3. /\ r \in [0..n -> SUBSET Pages] /\ r[0] = allowed \cap ToSet(Seeds)
      /\ \A i \in 1..n : r[i] = r[i - 1] \cup {q \in allowed : \E p \in r[i - 1] : q \in read[p]}
  <2>1. Walks(r, allowed, read)
    BY <1>1, ReachFacts
  <2> QED
    BY <2>1 DEF Walks
<1>4. /\ m \in [0..n -> SUBSET Pages] /\ m[0] = allowed \cap ToSet(Seeds)
      /\ \A i \in 1..n : m[i] = m[i - 1] \cup {q \in allowed : \E p \in m[i - 1] : q \in more[p]}
  <2>1. Walks(m, allowed, more)
    BY <1>2, ReachFacts
  <2> QED
    BY <2>1 DEF Walks
<1> HIDE DEF n
<1> DEFINE Back == {k \in Nat : k < d => r[d - 1 - k] \subseteq r[d - 1]}
           Good == {k \in Nat : k <= d => r[k] = m[k]}
<1>5. Back = Nat
  <2>1. 0 \in Back
    OBVIOUS
  <2>2. ASSUME NEW k \in Back PROVE k + 1 \in Back
    <3> SUFFICES ASSUME k + 1 < d PROVE r[d - 1 - (k + 1)] \subseteq r[d - 1]
      OBVIOUS
    <3> DEFINE j == d - 1 - k
    <3>1. j \in 1..n /\ d - 1 - (k + 1) = j - 1 /\ r[j] \subseteq r[d - 1]
      BY <1>0, <2>2 DEF n
    <3> HIDE DEF j
    <3>2. r[j - 1] \subseteq r[j]
      BY <1>3, <3>1
    <3> QED
      BY <3>1, <3>2
  <2> QED
    BY <2>1, <2>2, SetInduction
<1>6. Good = Nat
  <2>1. 0 \in Good
    BY <1>3, <1>4
  <2>2. ASSUME NEW k \in Good PROVE k + 1 \in Good
    <3> SUFFICES ASSUME k + 1 <= d PROVE r[k + 1] = m[k + 1]
      OBVIOUS
    <3> DEFINE j == k + 1
               b == d - 1 - k
    <3>1. j \in 1..n /\ j - 1 = k /\ k \in 0..n /\ r[k] = m[k] /\ b \in Nat /\ b < d /\ d - 1 - b = k /\ d > 0
      BY <1>0, <2>2 DEF n
    <3> HIDE DEF j, b
    <3>2. r[k] \subseteq r[d - 1]
      BY <1>5, <3>1
    <3>3. /\ r[j] = r[k] \cup {q \in allowed : \E p \in r[k] : q \in read[p]}
          /\ m[j] = m[k] \cup {q \in allowed : \E p \in m[k] : q \in more[p]}
      BY <1>3, <1>4, <3>1
    <3>4. \A p \in r[k] : more[p] = read[p]
      BY <1>1, <3>1, <3>2
    <3>5. r[j] = m[j]
      BY <3>1, <3>3, <3>4
    <3> QED
      BY <3>5 DEF j
  <2> QED
    BY <2>1, <2>2, SetInduction
<1>7. r[d] = m[d]
  BY <1>6
<1> QED
  BY <1>1, <1>2, <1>7

\* What holds the seeds and every page that it links to holds all that is reached.
LEMMA ReachIsLeast ==
    ASSUME NEW allowed \in SUBSET Pages, NEW read \in [Pages -> SUBSET Pages], NEW C,
           allowed \cap ToSet(Seeds) \subseteq C,
           \A p \in C : \A q \in allowed : q \in read[p] => q \in C
    PROVE  Reach(allowed, read)[MaxDepth] \subseteq C
<1> DEFINE n == MaxDepth
<1>0. n \in Nat
  BY CrawlerAssumption DEF CrawlerAssumption
<1>1. PICK r : r = Reach(allowed, read)
  OBVIOUS
<1>2. /\ r \in [0..n -> SUBSET Pages] /\ r[0] = allowed \cap ToSet(Seeds)
      /\ \A i \in 1..n : r[i] = r[i - 1] \cup {q \in allowed : \E p \in r[i - 1] : q \in read[p]}
  <2>1. Walks(r, allowed, read)
    BY <1>1, ReachFacts
  <2> QED
    BY <2>1 DEF Walks
<1> HIDE DEF n
<1> DEFINE Good == {k \in Nat : k <= n => r[k] \subseteq C}
<1>3. Good = Nat
  <2>1. 0 \in Good
    BY <1>2
  <2>2. ASSUME NEW k \in Good PROVE k + 1 \in Good
    <3> SUFFICES ASSUME k + 1 <= n PROVE r[k + 1] \subseteq C
      OBVIOUS
    <3> DEFINE j == k + 1
    <3>1. j \in 1..n /\ j - 1 = k /\ r[k] \subseteq C
      BY <1>0, <2>2
    <3> HIDE DEF j
    <3>2. r[j] = r[k] \cup {q \in allowed : \E p \in r[k] : q \in read[p]}
      BY <1>2, <3>1
    <3>3. r[j] \subseteq C
      BY <3>1, <3>2
    <3> QED
      BY <3>3 DEF j
  <2> QED
    BY <2>1, <2>2, SetInduction
<1>4. r[n] \subseteq C
  BY <1>0, <1>3
<1> QED
  BY <1>1, <1>4 DEF n

(* Every step keeps the invariant. *)

LEMMA SeedsAndWebs ==
    /\ Seeds \in Seq(Pages) /\ \A web \in Webs : \A p \in Pages : web[p] \in Seq(Pages)
    /\ MaxDepth \in Nat /\ MaxPages \in Nat /\ MaxChanges \in Nat /\ MaxCrawls \in Nat /\ MaxCrawlFaults \in Nat
    /\ Marked \subseteq Pages /\ Redirected \in [Pages -> Pages]
BY CrawlerAssumption DEF CrawlerAssumption, Marked

\* A version number is a number that was given out.
LEMMA WasAVersion ==
    ASSUME CrawlShape, RecordedWas, NEW p \in Pages
    PROVE  Behind(p).version \in Nat /\ Behind(p).version <= changes + 1 /\ changes + 1 \in Versions /\ changes \in Nat
<1>1. Redirected[p] \in Pages
  BY SeedsAndWebs
<1> QED
  BY <1>1, SeedsAndWebs DEF CrawlShape, RecordedWas, Was, Versions, Behind

\* The fields of a new crawl.
IsNew(c, kind) ==
    /\ c \in CrawlType /\ c.phase = kind /\ c.kind = kind /\ c.depth = 0 /\ c.frontier = Seeds
    /\ c.robots = "unread"
    /\ c.seen = {} /\ c.targets = <<>> /\ c.results = <<>> /\ c.listed = <<>> /\ c.tasks = <<>>
    /\ c.outcomes = <<>> /\ c.read = [p \in Pages |-> {}] /\ c.took = [p \in Pages |-> 0]
    /\ c.answered = {} /\ ~c.capped

LEMMA NewCrawlFacts ==
    ASSUME NEW runs \in 0..MaxCrawls, NEW kind \in {"choose", "sitemap"}, NEW from \in Nat
    PROVE  IsNew(NewCrawl(runs, kind, from), kind)
<1>1. Seeds \in Seq(Pages) /\ 0 \in Versions /\ kind \in {"idle", "choose", "get", "sitemap", "plan", "process"}
  BY SeedsAndWebs DEF Versions
<1>2. <<>> \in Seq(Pages) /\ <<>> \in Seq(GotType) /\ <<>> \in Seq(Items) /\ <<>> \in Seq(OutcomeType)
  OBVIOUS
<1> HIDE DEF GotType, Items, OutcomeType, Versions
<1> QED
  BY <1>1, <1>2 DEF NewCrawl, CrawlType, IsNew

LEMMA EmptyLists ==
    /\ Len(<<>>) = 0 /\ ToSet(<<>>) = {} /\ DOMAIN <<>> = {} /\ Cardinality({}) = 0
    /\ IsFiniteSet({})
<1>1. DOMAIN <<>> = {} /\ Len(<<>>) = 0
  OBVIOUS
<1>2. ToSet(<<>>) = {}
  BY <1>1 DEF ToSet
<1> QED
  BY <1>1, <1>2, FS_EmptySet

LEMMA CrawlInitInv == CrawlerInit => CrawlInv
<1> SUFFICES ASSUME CrawlerInit PROVE CrawlInv
  OBVIOUS
<1>1. PICK web \in Webs : site = [p \in Pages |-> [version |-> 1, links |-> web[p]]]
  BY DEF CrawlerInit
<1>2. PICK c : c = NewCrawl(0, "choose", 0)
  OBVIOUS
<1>3. IsNew(c, "choose")
  <2>1. 0 \in 0..MaxCrawls /\ 0 \in Nat
    BY SeedsAndWebs
  <2> QED
    BY <1>2, <2>1, NewCrawlFacts
<1>4. crawl = [c EXCEPT !.phase = "idle"]
  BY <1>2 DEF CrawlerInit
<1>5. /\ crawl \in CrawlType /\ crawl.phase = "idle"
      /\ crawl.seen = {} /\ crawl.targets = <<>> /\ crawl.results = <<>> /\ crawl.tasks = <<>>
      /\ crawl.outcomes = <<>> /\ crawl.took = [p \in Pages |-> 0] /\ crawl.answered = {}
  BY <1>3, <1>4 DEF CrawlType, IsNew
<1>6. CrawlShape
  <2>1. site \in [Pages -> [version : Versions, links : Seq(Pages)]]
    BY <1>1, SeedsAndWebs DEF Versions
  <2>2. entries \in [Pages -> PageEntry]
    BY SeedsAndWebs DEF CrawlerInit, Versions, PageEntry
  <2>3. indexed \in [Pages -> [live : BOOLEAN, content : Versions]]
    BY SeedsAndWebs DEF CrawlerInit, Versions
  <2>4. changes \in 0..MaxChanges /\ crawlFaults \in 0..MaxCrawlFaults
    BY SeedsAndWebs DEF CrawlerInit
  <2> QED
    BY <1>5, <2>1, <2>2, <2>3, <2>4 DEF CrawlShape
<1>7. InStep
  BY <1>5, EmptyLists, SeedsAndWebs DEF InStep
<1>8. RecordedWas
  <2>1. \A p \in Pages : Behind(p).version = 1
    BY <1>1, SeedsAndWebs DEF Behind
  <2>2. \A p \in Pages : entries[p].etag = 0 /\ entries[p].modified = 0 /\ entries[p].content = 0 /\ entries[p].state = "none"
    BY DEF CrawlerInit
  <2>3. changes = 0
    BY DEF CrawlerInit
  <2> QED
    BY <2>1, <2>2, <2>3, SeedsAndWebs DEF RecordedWas, Was
<1>9. AnsweredWas /\ ListedWas /\ ProcessedIsIndexed
  BY <1>5, EmptyLists DEF AnsweredWas, ListedWas, ProcessedIsIndexed
<1>10. Levels /\ ReadIsIndexed
  BY <1>5, SeedsAndWebs DEF Levels, ReadIsIndexed, ReachIsCovered
<1> QED
  BY <1>6, <1>7, <1>8, <1>9, <1>10 DEF CrawlInv

\* The site moves on.
LEMMA ChangePageKeeps == ASSUME CrawlInv, NEW x \in Pages, ChangePage(x) PROVE CrawlInv'
<1>1. PICK web \in Webs, there \in BOOLEAN :
         site' = [site EXCEPT ![x] = [version |-> IF there THEN changes + 2 ELSE 0, links |-> web[x]]]
  BY DEF ChangePage
<1>2. /\ UNCHANGED <<entries, indexed, crawl, crawlFaults>> /\ changes' = changes + 1 /\ changes < MaxChanges
      /\ changes \in Nat /\ changes \in 0..MaxChanges
  BY DEF ChangePage, CrawlInv, CrawlShape
<1>3. /\ \A p \in Pages : p # x => site'[p] = site[p]
      /\ site'[x].version \in {0, changes + 2}
      /\ site' \in [Pages -> [version : Versions, links : Seq(Pages)]]
  BY <1>1, <1>2, SeedsAndWebs DEF CrawlInv, CrawlShape, Versions
<1>0. \A p \in Pages : Behind(p)'.version \in {0, changes + 2} \/ Behind(p)' = Behind(p)
  <2> SUFFICES ASSUME NEW p \in Pages PROVE Behind(p)'.version \in {0, changes + 2} \/ Behind(p)' = Behind(p)
    OBVIOUS
  <2>1. PICK q \in Pages : q = Redirected[p]
    BY SeedsAndWebs
  <2>2. Behind(p)' = site'[q] /\ Behind(p) = site[q]
    BY <2>1 DEF Behind
  <2> QED
    BY <1>3, <2>2
<1>4. \A p \in Pages : \A v \in Nat : Was(p, v) => Was(p, v)'
  <2> SUFFICES ASSUME NEW p \in Pages, NEW v \in Nat, Was(p, v) PROVE Was(p, v)'
    OBVIOUS
  <2>1. v <= changes + 1 /\ v <= changes' + 1
    BY <1>2 DEF Was
  <2>2. CASE Behind(p)'.version \in {0, changes + 2}
    BY <1>2, <2>1, <2>2 DEF Was
  <2>3. CASE Behind(p)' = Behind(p)
    BY <2>1, <2>3 DEF Was
  <2> QED
    BY <1>0, <2>2, <2>3
<1>5. CrawlShape' /\ InStep'
  BY <1>2, <1>3, SeedsAndWebs DEF CrawlInv, CrawlShape, InStep
<1>6. RecordedWas'
  <2>1. ASSUME NEW p \in Pages PROVE Was(p, Behind(p).version)'
    <3>1. Behind(p).version \in Nat /\ Behind(p).version <= changes + 1
      BY WasAVersion DEF CrawlInv
    <3>2. CASE Behind(p)'.version \in {0, changes + 2}
      BY <1>2, <3>2 DEF Was
    <3>3. CASE Behind(p)' = Behind(p)
      BY <1>2, <3>1, <3>3 DEF Was
    <3> QED
      BY <1>0, <3>2, <3>3
  <2>2. ASSUME NEW p \in Marked
        PROVE  (/\ Was(p, entries[p].etag) /\ entries[p].content = entries[p].etag
                /\ entries[p].state # "none" => entries[p].etag # 0
                /\ entries[p].etag = 0 => entries[p].modified = 0)'
    <3>1. p \in Pages /\ entries[p].etag \in Nat
      BY SeedsAndWebs DEF CrawlInv, CrawlShape, Versions, PageEntry
    <3> QED
      BY <1>2, <1>4, <3>1 DEF CrawlInv, RecordedWas
  <2> QED
    BY <2>1, <2>2 DEF RecordedWas
<1>7. AnsweredWas'
  <2>1. ASSUME NEW i \in DOMAIN crawl.results, crawl.results[i].kind = "page", crawl.targets[i] \in Marked
        PROVE  Was(crawl.targets[i], crawl.results[i].version)'
    <3>1. crawl.results[i] \in GotType
      BY DEF CrawlInv, CrawlShape, CrawlType
    <3>2. crawl.results[i].version \in Nat
      BY <3>1 DEF GotType, Versions
    <3>3. Was(crawl.targets[i], crawl.results[i].version)
      BY <2>1 DEF CrawlInv, AnsweredWas
    <3> QED
      BY <1>2, <1>4, <2>1, <3>2, <3>3, SeedsAndWebs
  <2> QED
    BY <1>2, <2>1 DEF AnsweredWas, CrawlInv
<1>8. ListedWas'
  <2> SUFFICES ASSUME crawl.phase # "idle" PROVE ListedWas'
    BY <1>2 DEF ListedWas
  <2>1. ASSUME NEW item \in ToSet(crawl.listed) \cup ToSet(crawl.tasks), item.page \in Marked
        PROVE  Was(item.page, item.etag)' /\ item.etag >= entries[item.page].etag
    <3>1. item \in Items
      BY DEF CrawlInv, CrawlShape, CrawlType, ToSet
    <3> QED
      BY <1>4, <2>1, <3>1 DEF CrawlInv, ListedWas, Items, Versions
  <2>2. ASSUME NEW p \in Marked, crawl.took[p] # 0
        PROVE  /\ Was(p, crawl.took[p])' /\ crawl.took[p] > entries[p].etag
               /\ IsListed(p, crawl.took[p], crawl.listed)
    <3>1. p \in Pages /\ crawl.took[p] \in Nat
      BY SeedsAndWebs DEF CrawlInv, CrawlShape, CrawlType, Versions
    <3>2. /\ Was(p, crawl.took[p]) /\ crawl.took[p] > entries[p].etag
          /\ IsListed(p, crawl.took[p], crawl.listed)
      BY <2>2 DEF CrawlInv, ListedWas
    <3> QED
      BY <1>2, <1>4, <3>1, <3>2
  <2> QED
    BY <1>2, <2>1, <2>2 DEF ListedWas, CrawlInv
<1>9. ProcessedIsIndexed'
  <2> SUFFICES ASSUME crawl.phase = "process" PROVE ProcessedIsIndexed'
    BY <1>2 DEF ProcessedIsIndexed
  <2>1. ASSUME NEW i \in DOMAIN crawl.tasks, crawl.tasks[i].page \in Marked, crawl.outcomes[i].state = "done"
        PROVE  Was(crawl.tasks[i].page, crawl.outcomes[i].etag)'
    <3>1. crawl.tasks[i] \in Items /\ crawl.outcomes[i] \in OutcomeType
      BY DEF CrawlInv, CrawlShape, CrawlType, InStep
    <3>2. crawl.tasks[i].page \in Pages /\ crawl.outcomes[i].etag \in Nat
      BY <3>1 DEF Items, OutcomeType, Versions
    <3>3. Was(crawl.tasks[i].page, crawl.outcomes[i].etag)
      BY <2>1 DEF CrawlInv, ProcessedIsIndexed
    <3> QED
      BY <1>2, <1>4, <3>2, <3>3
  <2> QED
    BY <1>2, <2>1 DEF ProcessedIsIndexed, CrawlInv
<1>10. Levels' /\ ReadIsIndexed'
  BY <1>2 DEF CrawlInv, Levels, ReadIsIndexed, ReachIsCovered, Clicks, Allowed, FromSeen, AtFrontier, WithinDepth, AllowedPage
<1> QED
  BY <1>5, <1>6, <1>7, <1>8, <1>9, <1>10 DEF CrawlInv

\* Where the site, the record and the index stay, what was there was there.
LEMMA SameSite ==
    ASSUME CrawlInv, UNCHANGED <<site, changes, entries>>
    PROVE  RecordedWas' /\ \A p, v : Was(p, v)' <=> Was(p, v)
BY DEF CrawlInv, RecordedWas, Was, Behind

LEMMA BeginCrawlKeeps == CrawlInv /\ BeginCrawl => CrawlInv'
<1> SUFFICES ASSUME CrawlInv, BeginCrawl PROVE CrawlInv'
  OBVIOUS
<1>1. PICK kind \in {"choose", "sitemap"}, from \in 0..changes + 1 : crawl' = NewCrawl(crawl.runs + 1, kind, from)
  BY DEF BeginCrawl
<1>2. UNCHANGED <<site, changes, entries, indexed, crawlFaults>> /\ crawl.runs < MaxCrawls
  BY DEF BeginCrawl
<1>3. IsNew(crawl', kind)
  <2>1. crawl.runs \in 0..MaxCrawls /\ changes \in Nat
    BY DEF CrawlInv, CrawlShape, CrawlType
  <2> DEFINE r == crawl.runs + 1
  <2>2. r \in 0..MaxCrawls /\ from \in Nat
    BY <1>2, <2>1, SeedsAndWebs
  <2>3. crawl' = NewCrawl(r, kind, from)
    BY <1>1
  <2> HIDE DEF r
  <2> QED
    BY <2>2, <2>3, NewCrawlFacts
<1>4. CrawlShape' /\ InStep'
  BY <1>2, <1>3, EmptyLists, SeedsAndWebs DEF CrawlInv, CrawlShape, InStep, IsNew
<1>5. RecordedWas'
  BY <1>2, SameSite
<1>6. AnsweredWas' /\ ListedWas' /\ ProcessedIsIndexed'
  BY <1>3, EmptyLists, SeedsAndWebs DEF AnsweredWas, ListedWas, ProcessedIsIndexed, IsNew
<1>7. Levels'
  <2>1. MaxDepth \in Nat /\ crawl'.phase = kind /\ kind # "get" /\ kind # "plan" /\ kind # "process"
    BY <1>3, SeedsAndWebs DEF IsNew
  <2> QED
    BY <1>3, <2>1, EmptyLists DEF Levels, IsNew, ReachIsCovered
<1>8. ReadIsIndexed'
  BY <1>3 DEF ReadIsIndexed, IsNew
<1> QED
  BY <1>4, <1>5, <1>6, <1>7, <1>8 DEF CrawlInv

LEMMA ReadRobotsKeeps == CrawlInv /\ ReadRobots => CrawlInv'
<1> SUFFICES ASSUME CrawlInv, ReadRobots PROVE CrawlInv'
  OBVIOUS
<1>1. PICK r \in {"read", "absent"} : crawl' = [crawl EXCEPT !.robots = r]
  BY DEF ReadRobots
<1>2. /\ UNCHANGED <<site, changes, entries, indexed>> /\ crawl.phase \in {"choose", "sitemap"}
      /\ crawl.robots = "unread" /\ crawlFaults' \in 0..MaxCrawlFaults
  BY SeedsAndWebs DEF ReadRobots, CrawlFault, CrawlInv, CrawlShape
<1>3. crawl \in CrawlType /\ CrawlShape
  BY DEF CrawlInv, CrawlShape
<1>4. crawl' \in CrawlType /\ crawl'.robots = r
      /\ crawl'.phase = crawl.phase /\ crawl'.kind = crawl.kind /\ crawl'.depth = crawl.depth
      /\ crawl'.frontier = crawl.frontier /\ crawl'.seen = crawl.seen /\ crawl'.targets = crawl.targets
      /\ crawl'.results = crawl.results /\ crawl'.listed = crawl.listed /\ crawl'.tasks = crawl.tasks
      /\ crawl'.outcomes = crawl.outcomes /\ crawl'.read = crawl.read /\ crawl'.took = crawl.took
      /\ crawl'.answered = crawl.answered /\ crawl'.capped = crawl.capped
  BY <1>1, <1>3 DEF CrawlType
<1>5. CrawlShape' /\ InStep'
  BY <1>2, <1>3, <1>4 DEF CrawlInv, CrawlShape, InStep
<1>6. RecordedWas' /\ AnsweredWas' /\ ListedWas' /\ ProcessedIsIndexed'
  <2>1. RecordedWas' /\ \A q, v : Was(q, v)' <=> Was(q, v)
    BY <1>2, SameSite
  <2>2. AnsweredWas'
    BY <1>2, <1>4, <2>1 DEF CrawlInv, AnsweredWas
  <2>3. ListedWas'
    BY <1>2, <1>4, <2>1 DEF CrawlInv, ListedWas
  <2>4. ProcessedIsIndexed'
    BY <1>2, <1>4, <2>1 DEF CrawlInv, ProcessedIsIndexed
  <2> QED
    BY <2>1, <2>2, <2>3, <2>4
<1>7. Levels'
  <2>1. crawl.phase = "choose" => crawl.depth = 0 /\ crawl.seen = {} /\ crawl.frontier = Seeds /\ crawl.targets = <<>>
    <3>1. crawl.phase = "choose" => crawl.depth \in Nat /\ ~(crawl.depth > 0)
      BY <1>2 DEF CrawlInv, Levels
    <3> QED
      BY <1>2, <3>1 DEF CrawlInv, Levels, InStep
  <2>2. 0 \in 0..MaxDepth + 1 /\ 0 \notin 1..MaxDepth
    BY SeedsAndWebs
  <2> QED
    BY <1>2, <1>4, <2>1, <2>2, EmptyLists DEF CrawlInv, Levels, ReachIsCovered
<1>8. ReadIsIndexed'
  BY <1>2, <1>4 DEF ReadIsIndexed
<1> QED
  BY <1>5, <1>6, <1>7, <1>8 DEF CrawlInv

\* The pages a level would ask for, and those it asks for below the cap.
LEMMA TargetsFacts ==
    ASSUME CrawlInv
    PROVE  /\ Unseen \in Seq(Pages) /\ ToSet(Unseen) = AtFrontier
           /\ Targets \in Seq(Pages) /\ ToSet(Targets) \subseteq AtFrontier
           /\ Cardinality(crawl.seen) \in Nat /\ Cardinality(crawl.seen) + Len(Targets) <= MaxPages
           /\ Targets = <<>> => Unseen = <<>> \/ Room = 0
<1> DEFINE f == crawl.frontier
           T == {i \in DOMAIN f : f[i] \notin crawl.seen /\ AllowedPage(f[i])}
           n == Len(Unseen)
           m == IF n < Room THEN n ELSE Room
<1>1. f \in Seq(Pages) /\ crawl.seen \in SUBSET Pages
  BY DEF CrawlInv, CrawlShape, CrawlType
<1>2. Unseen \in Seq(Pages) /\ ToSet(Unseen) = {f[i] : i \in T}
  <2>1. T \in SUBSET DOMAIN f /\ Unseen = Picked(f, T)
    BY DEF Unseen
  <2> HIDE DEF f, T
  <2> QED
    BY <1>1, <2>1, PickedSet
<1>3. {f[i] : i \in T} = AtFrontier
  BY <1>1 DEF AtFrontier, Allowed, ToSet
<1>4. Cardinality(crawl.seen) \in Nat
  BY <1>1, CrawlerAssumption, FS_Subset, FS_CardinalityType DEF CrawlerAssumption
<1>5. Room \in Nat /\ Room = MaxPages - Cardinality(crawl.seen)
  <2>1. Cardinality(crawl.seen) + Len(crawl.targets) <= MaxPages /\ Len(crawl.targets) \in Nat
    BY DEF CrawlInv, InStep, CrawlShape, CrawlType
  <2> QED
    BY <1>4, <2>1, SeedsAndWebs DEF Room
<1>6. n \in Nat /\ m \in Nat /\ m <= n /\ m <= Room
  BY <1>2, <1>5
<1>7. Targets = SubSeq(Unseen, 1, m)
  BY DEF Targets
<1> HIDE DEF n, m
<1>8. /\ Targets \in Seq(Pages) /\ Len(Targets) = m /\ DOMAIN Targets = 1..m
      /\ \A i \in 1..m : Targets[i] = Unseen[i]
  BY <1>2, <1>6, <1>7 DEF n
<1>9. ToSet(Targets) \subseteq ToSet(Unseen)
  BY <1>2, <1>6, <1>8 DEF ToSet, n
<1>10. Targets = <<>> => Unseen = <<>> \/ Room = 0
  BY <1>2, <1>5, <1>8 DEF n, m
<1> QED
  BY <1>2, <1>3, <1>4, <1>5, <1>6, <1>8, <1>9, <1>10, SeedsAndWebs

LEMMA ChooseKeeps == CrawlInv /\ Choose => CrawlInv'
<1> SUFFICES ASSUME CrawlInv, Choose PROVE CrawlInv'
  OBVIOUS
<1> DEFINE over == crawl.depth > MaxDepth \/ Targets = <<>>
<1>1. PICK ts, us : ts = Targets /\ us = Unseen
  OBVIOUS
<1>2. /\ us \in Seq(Pages) /\ ToSet(us) = AtFrontier /\ ts \in Seq(Pages) /\ ToSet(ts) \subseteq AtFrontier
      /\ Cardinality(crawl.seen) \in Nat /\ Cardinality(crawl.seen) + Len(ts) <= MaxPages
  BY <1>1, TargetsFacts
<1>3. /\ UNCHANGED <<site, changes, entries, indexed, crawlFaults>> /\ crawl.phase = "choose" /\ crawl.robots # "unread"
      /\ over => crawl' = [crawl EXCEPT !.phase = "plan", !.frontier = <<>>,
                                        !.capped = @ \/ (crawl.depth <= MaxDepth /\ us # <<>>)]
      /\ ~over => crawl' = [crawl EXCEPT !.phase = "get", !.targets = ts, !.results = [i \in DOMAIN ts |-> Ungot],
                                         !.capped = @ \/ ~ToSet(us) \subseteq ToSet(ts)]
  BY <1>1 DEF Choose
<1>4. crawl \in CrawlType /\ CrawlShape /\ MaxDepth \in Nat /\ crawl.depth \in 0..MaxDepth + 1 /\ crawl.kind = "choose"
  BY <1>3, SeedsAndWebs DEF CrawlInv, CrawlShape, Levels, InStep
<1>5. /\ crawl' \in CrawlType /\ crawl'.robots = crawl.robots
      /\ crawl'.kind = crawl.kind /\ crawl'.depth = crawl.depth
      /\ crawl'.seen = crawl.seen /\ crawl'.listed = crawl.listed /\ crawl'.tasks = crawl.tasks
      /\ crawl'.outcomes = crawl.outcomes /\ crawl'.read = crawl.read /\ crawl'.took = crawl.took
      /\ crawl'.answered = crawl.answered
      /\ over => /\ crawl'.phase = "plan" /\ crawl'.targets = crawl.targets /\ crawl'.results = crawl.results
                 /\ crawl'.capped = (crawl.capped \/ (crawl.depth <= MaxDepth /\ us # <<>>))
      /\ ~over => /\ crawl'.phase = "get" /\ crawl'.targets = ts /\ crawl'.results = [i \in DOMAIN ts |-> Ungot]
                  /\ crawl'.frontier = crawl.frontier /\ crawl'.capped = (crawl.capped \/ ~ToSet(us) \subseteq ToSet(ts))
  <2>1. [i \in DOMAIN ts |-> Ungot] \in Seq(GotType)
    <3>1. Ungot \in GotType
      BY SeedsAndWebs DEF Ungot, GotType, Versions
    <3> HIDE DEF GotType
    <3> QED
      BY <1>2, <3>1
  <2>2. <<>> \in Seq(Pages)
    OBVIOUS
  <2> HIDE DEF over
  <2>3. CASE over
    <3>1. PICK cut \in BOOLEAN : cut = (crawl.capped \/ (crawl.depth <= MaxDepth /\ us # <<>>))
      OBVIOUS
    <3>2. crawl' = [crawl EXCEPT !.phase = "plan", !.frontier = <<>>, !.capped = cut]
      <4>1. crawl.capped \in BOOLEAN
        BY <1>4 DEF CrawlType
      <4> QED
        BY <1>3, <2>3, <3>1
    <3>3. /\ crawl' \in CrawlType /\ crawl'.phase = "plan" /\ crawl'.frontier = <<>> /\ crawl'.capped = cut
          /\ crawl'.robots = crawl.robots /\ crawl'.kind = crawl.kind /\ crawl'.depth = crawl.depth
          /\ crawl'.seen = crawl.seen /\ crawl'.listed = crawl.listed /\ crawl'.tasks = crawl.tasks
          /\ crawl'.outcomes = crawl.outcomes /\ crawl'.read = crawl.read /\ crawl'.took = crawl.took
          /\ crawl'.answered = crawl.answered
          /\ crawl'.targets = crawl.targets /\ crawl'.results = crawl.results
      <4>1. PICK c, next, none : c = crawl /\ next = crawl' /\ none = <<>>
        OBVIOUS
      <4>2. /\ c \in CrawlType /\ none \in Seq(Pages)
            /\ next = [c EXCEPT !.phase = "plan", !.frontier = none, !.capped = cut]
        BY <1>4, <2>2, <3>2, <4>1
      <4>3. next \in CrawlType
        BY <4>2 DEF CrawlType
      <4>4. /\ next.phase = "plan" /\ next.frontier = none /\ next.capped = cut
            /\ next.robots = c.robots /\ next.kind = c.kind /\ next.depth = c.depth
            /\ next.seen = c.seen /\ next.listed = c.listed /\ next.tasks = c.tasks
            /\ next.outcomes = c.outcomes /\ next.read = c.read /\ next.took = c.took
            /\ next.answered = c.answered /\ next.targets = c.targets /\ next.results = c.results
        BY <4>2 DEF CrawlType
      <4> QED
        BY <4>1, <4>3, <4>4
    <3> QED
      BY <2>3, <3>1, <3>3
  <2>4. CASE ~over
    <3>1. PICK cut \in BOOLEAN : cut = (crawl.capped \/ ~ToSet(us) \subseteq ToSet(ts))
      OBVIOUS
    <3>2. PICK none \in Seq(GotType) : none = [i \in DOMAIN ts |-> Ungot]
      BY <2>1
    <3>3. crawl' = [crawl EXCEPT !.phase = "get", !.targets = ts, !.results = none, !.capped = cut]
      BY <1>3, <2>4, <3>1, <3>2
    <3>4. /\ crawl' \in CrawlType /\ crawl'.phase = "get" /\ crawl'.targets = ts /\ crawl'.results = none
          /\ crawl'.capped = cut
          /\ crawl'.robots = crawl.robots /\ crawl'.kind = crawl.kind /\ crawl'.depth = crawl.depth
          /\ crawl'.seen = crawl.seen /\ crawl'.listed = crawl.listed /\ crawl'.tasks = crawl.tasks
          /\ crawl'.outcomes = crawl.outcomes /\ crawl'.read = crawl.read /\ crawl'.took = crawl.took
          /\ crawl'.answered = crawl.answered /\ crawl'.frontier = crawl.frontier
      <4>1. PICK c, next : c = crawl /\ next = crawl'
        OBVIOUS
      <4>2. /\ c \in CrawlType /\ ts \in Seq(Pages)
            /\ next = [c EXCEPT !.phase = "get", !.targets = ts, !.results = none, !.capped = cut]
        BY <1>2, <1>4, <3>3, <4>1
      <4>3. next \in CrawlType
        BY <4>2 DEF CrawlType
      <4>4. /\ next.phase = "get" /\ next.targets = ts /\ next.results = none /\ next.capped = cut
            /\ next.robots = c.robots /\ next.kind = c.kind /\ next.depth = c.depth
            /\ next.seen = c.seen /\ next.listed = c.listed /\ next.tasks = c.tasks
            /\ next.outcomes = c.outcomes /\ next.read = c.read /\ next.took = c.took
            /\ next.answered = c.answered /\ next.frontier = c.frontier
        BY <4>2 DEF CrawlType
      <4> QED
        BY <4>1, <4>3, <4>4
    <3> QED
      BY <2>4, <3>1, <3>2, <3>4
  <2> QED
    BY <2>3, <2>4
<1>6. CrawlShape'
  BY <1>3, <1>5 DEF CrawlInv, CrawlShape
<1>7. InStep'
  <2> HIDE DEF over
  <2>1. Len(crawl'.results) = Len(crawl'.targets) /\ Cardinality(crawl'.seen) + Len(crawl'.targets) <= MaxPages
    <3>1. CASE over
      BY <1>5, <3>1 DEF CrawlInv, InStep
    <3>2. CASE ~over
      BY <1>2, <1>5, <3>2
    <3> QED
      BY <3>1, <3>2
  <2> QED
    BY <1>3, <1>4, <1>5, <2>1 DEF CrawlInv, InStep
<1>8. RecordedWas' /\ ListedWas' /\ ProcessedIsIndexed'
  BY <1>3, <1>5, SameSite DEF CrawlInv, ListedWas, ProcessedIsIndexed
<1>9. AnsweredWas'
  <2> HIDE DEF over
  <2>1. CASE over
    BY <1>3, <1>5, <2>1, SameSite DEF CrawlInv, AnsweredWas
  <2>2. CASE ~over
    BY <1>5, <2>2 DEF AnsweredWas, Ungot
  <2> QED
    BY <2>1, <2>2
<1>10. Levels'
  <2>1. Allowed' = Allowed /\ FromSeen' = FromSeen /\ \A d : Clicks(d)' = Clicks(d)
    BY <1>5 DEF Allowed, AllowedPage, FromSeen, Clicks
  <2>2. /\ crawl.seen = {} \/ crawl.depth > 0
        /\ crawl.depth > 0 => /\ crawl.seen \subseteq Clicks(crawl.depth - 1)
                              /\ ~crawl.capped => Clicks(crawl.depth - 1) \subseteq crawl.seen
    BY <1>3, <1>4 DEF CrawlInv, Levels
  <2>3. Allowed \in SUBSET Pages /\ crawl.read \in [Pages -> SUBSET Pages]
    BY <1>4 DEF CrawlType, Allowed
  <2>4. CASE over
    <3>1. WithinDepth = Clicks(MaxDepth) /\ WithinDepth' = WithinDepth
      BY <1>5, <2>1 DEF WithinDepth, Clicks, Allowed, AllowedPage
    <3>2. crawl.seen \subseteq WithinDepth
      <4>1. CASE crawl.depth > 0
        <5>1. crawl.depth - 1 \in 0..MaxDepth
          BY <1>4, <4>1
        <5>2. Clicks(crawl.depth - 1) \subseteq Clicks(MaxDepth)
          BY <2>3, <5>1, ReachWithin DEF Clicks
        <5> QED
          BY <2>2, <3>1, <4>1, <5>2
      <4> QED
        BY <2>2, <4>1
    <3>3. ASSUME ~crawl'.capped PROVE WithinDepth \subseteq crawl.seen
      <4>1. CASE crawl.depth > MaxDepth
        <5>1. crawl.depth - 1 = MaxDepth /\ crawl.depth > 0
          BY <1>4, <4>1
        <5> QED
          BY <1>5, <2>2, <2>4, <3>1, <3>3, <5>1
      <4>2. CASE ~(crawl.depth > MaxDepth)
        <5>1. us = <<>> /\ ~crawl.capped
          <6>1. crawl'.capped = (crawl.capped \/ (crawl.depth <= MaxDepth /\ us # <<>>))
            BY <1>5, <2>4
          <6>2. crawl.depth <= MaxDepth
            BY <1>4, <4>2
          <6>3. crawl'.capped \in BOOLEAN /\ crawl.capped \in BOOLEAN
            BY <1>4, <1>5 DEF CrawlType
          <6> HIDE DEF over
          <6> QED
            BY <3>3, <6>1, <6>2, <6>3
        <5>2. AtFrontier = {}
          BY <1>2, <5>1, EmptyLists
        <5>3. Allowed \cap ToSet(Seeds) \subseteq crawl.seen
          <6>1. CASE crawl.depth = 0
            <7>1. crawl.frontier = Seeds
              BY <1>3, <6>1 DEF CrawlInv, Levels
            <7> QED
              BY <5>2, <7>1 DEF AtFrontier
          <6>2. CASE crawl.depth > 0
            <7>1. crawl.depth - 1 \in 0..MaxDepth /\ 0 \in 0..MaxDepth
              BY <1>4, <6>2
            <7>2. Clicks(0) = Allowed \cap ToSet(Seeds)
              BY <2>3, ReachFacts DEF Walks, Clicks
            <7>3. Clicks(0) \subseteq Clicks(crawl.depth - 1)
              BY <2>3, <7>1, ReachRises DEF Clicks
            <7> QED
              BY <2>2, <5>1, <6>2, <7>2, <7>3
          <6> QED
            BY <1>4, <6>1, <6>2
        <5>4. FromSeen \cap Allowed \subseteq crawl.seen
          <6>1. CASE crawl.depth \in 1..MaxDepth
            <7>1. FromSeen \cap Allowed \subseteq crawl.seen \cup ToSet(crawl.frontier)
              BY <1>3, <5>1, <6>1 DEF CrawlInv, Levels
            <7> QED
              BY <5>2, <7>1 DEF AtFrontier
          <6>2. CASE crawl.seen = {}
            BY <6>2 DEF FromSeen
          <6> QED
            BY <1>4, <2>2, <4>2, <6>1, <6>2
        <5>5. \A p \in crawl.seen : \A q \in Allowed : q \in crawl.read[p] => q \in crawl.seen
          BY <5>4 DEF FromSeen
        <5> QED
          BY <2>3, <3>1, <5>3, <5>5, ReachIsLeast DEF Clicks
      <4> QED
        BY <4>1, <4>2
    <3>4. ReachIsCovered'
      BY <1>5, <3>1, <3>2, <3>3 DEF ReachIsCovered
    <3> QED
      BY <1>5, <2>4, <3>4 DEF Levels
  <2>5. CASE ~over
    <3>1. AtFrontier' = AtFrontier
      BY <1>5, <2>1, <2>5 DEF AtFrontier
    <3>2. ~crawl'.capped => ~crawl.capped /\ AtFrontier \subseteq ToSet(ts)
      BY <1>2, <1>5, <2>5
    <3>3. crawl.depth <= MaxDepth /\ crawl'.phase = "get" /\ crawl'.targets = ts /\ crawl'.frontier = crawl.frontier
      BY <1>4, <1>5, <2>5
    <3> HIDE DEF over
    <3>4. ReachIsCovered'
      BY <3>3 DEF ReachIsCovered
    <3>5. CrawlInv /\ Levels
      BY DEF CrawlInv
    <3> QED
      BY <1>2, <1>3, <1>4, <1>5, <2>1, <3>1, <3>2, <3>3, <3>4, <3>5 DEF Levels
  <2> QED
    BY <2>4, <2>5
<1>11. ReadIsIndexed'
  BY <1>5 DEF ReadIsIndexed
<1> QED
  BY <1>6, <1>7, <1>8, <1>9, <1>10, <1>11 DEF CrawlInv

(* What the server answers. *)
LEMMA AnswerFacts ==
    ASSUME CrawlInv, NEW p \in Pages
    PROVE  LET got == Answer(p) IN
           /\ got \in GotType /\ got.kind \in {"failed", "same", "page"}
           /\ got.kind # "page" => got.links = <<>>
           /\ got.kind = "page" => /\ got.version = Behind(p).version /\ got.version # 0
                                   /\ p \in Marked => got.version > entries[p].etag
           /\ got.kind = "same" => /\ got.version = entries[p].etag /\ Behind(p).version # 0
                                   /\ p \in Marked => entries[p].etag = Behind(p).version
<1>1. PICK v, e, l, m : v = Behind(p).version /\ e = entries[p].etag /\ l = Behind(p).links /\ m = entries[p].modified
  OBVIOUS
<1>2. v \in Versions /\ e \in Versions /\ l \in Seq(Pages) /\ Versions \subseteq Nat
  <2>1. Redirected[p] \in Pages
    BY SeedsAndWebs
  <2> QED
    BY <1>1, <2>1 DEF CrawlInv, CrawlShape, Versions, PageEntry, Behind
<1>3. p \in Marked /\ v # 0 => e <= v
  BY <1>1 DEF CrawlInv, RecordedWas, Was
<1>4. 0 \in Versions /\ <<>> \in Seq(Pages)
  BY SeedsAndWebs DEF Versions
<1>9. p \in Marked /\ v # 0 => (NotModified(p) <=> e = v)
  <2>1. p \in Marked /\ e = 0 => m = 0
    BY <1>1 DEF CrawlInv, RecordedWas
  <2> QED
    BY <1>1, <1>2, <2>1 DEF NotModified
<1>5. PICK got : got = Answer(p)
  OBVIOUS
<1>6. CASE v = 0
  <2>1. got = [kind |-> "failed", version |-> 0, links |-> <<>>]
    BY <1>1, <1>5, <1>6 DEF Answer, Unanswered, Ungot
  <2> QED
    BY <1>4, <1>5, <2>1 DEF GotType
<1>7. CASE v # 0 /\ NotModified(p)
  <2>1. got = [kind |-> "same", version |-> e, links |-> <<>>]
    BY <1>1, <1>5, <1>7 DEF Answer, Ungot
  <2> QED
    BY <1>1, <1>2, <1>4, <1>5, <1>7, <1>9, <2>1 DEF GotType
<1>8. CASE v # 0 /\ ~NotModified(p)
  <2>1. got = [kind |-> "page", version |-> v, links |-> l]
    BY <1>1, <1>5, <1>8 DEF Answer
  <2>2. p \in Marked => v > e
    BY <1>2, <1>3, <1>8, <1>9
  <2>3. got \in GotType
    BY <1>2, <2>1 DEF GotType
  <2> QED
    BY <1>1, <1>5, <1>8, <2>1, <2>2, <2>3
<1> QED
  BY <1>6, <1>7, <1>8

LEMMA GetKeeps == ASSUME CrawlInv, NEW i \in DOMAIN crawl.targets, Get(i) PROVE CrawlInv'
<1>1. PICK p \in Pages : p = crawl.targets[i]
  BY DEF CrawlInv, CrawlShape, CrawlType
<1>2. PICK got : /\ got \in GotType /\ crawl' = [crawl EXCEPT !.results[i] = got] /\ got.kind # "none"
                 /\ got.kind # "page" => got.links = <<>>
                 /\ got.kind = "page" => got.version = Behind(p).version /\ got.version # 0
                 /\ got.kind = "page" /\ p \in Marked => got.version > entries[p].etag
                 /\ got.kind = "same" => got.version = entries[p].etag
  <2>1. CASE crawl' = [crawl EXCEPT !.results[i] = Answer(crawl.targets[i])]
    <3>1. PICK got : got = Answer(p)
      OBVIOUS
    <3>2. /\ got \in GotType /\ got.kind # "none"
          /\ got.kind # "page" => got.links = <<>>
          /\ got.kind = "page" => got.version = Behind(p).version /\ got.version # 0
          /\ got.kind = "page" /\ p \in Marked => got.version > entries[p].etag
          /\ got.kind = "same" => got.version = entries[p].etag
      BY <3>1, AnswerFacts
    <3> QED
      BY <1>1, <2>1, <3>1, <3>2
  <2>2. CASE crawl' = [crawl EXCEPT !.results[i] = Unanswered]
    <3>1. PICK u : u = Unanswered
      OBVIOUS
    <3>2. u = [kind |-> "failed", version |-> 0, links |-> <<>>]
      BY <3>1 DEF Unanswered, Ungot
    <3>3. u \in GotType /\ u.kind = "failed" /\ u.links = <<>>
      BY <3>2, SeedsAndWebs DEF GotType, Versions
    <3> QED
      BY <2>2, <3>1, <3>3
  <2> QED
    BY <2>1, <2>2 DEF Get
<1>3. /\ UNCHANGED <<site, changes, entries, indexed>> /\ crawl.phase = "get" /\ crawlFaults' \in 0..MaxCrawlFaults
  BY SeedsAndWebs DEF Get, CrawlFault, CrawlInv, CrawlShape
<1>4. /\ crawl \in CrawlType /\ i \in DOMAIN crawl.results /\ DOMAIN crawl.results = DOMAIN crawl.targets
      /\ DOMAIN crawl.results = 1..Len(crawl.results)
  <2>1. crawl \in CrawlType /\ Len(crawl.results) = Len(crawl.targets)
    BY DEF CrawlInv, CrawlShape, InStep
  <2>2. PICK rs \in Seq(GotType), ts \in Seq(Pages) : rs = crawl.results /\ ts = crawl.targets
    BY <2>1 DEF CrawlType
  <2>3. DOMAIN rs = 1..Len(rs) /\ DOMAIN ts = 1..Len(ts)
    OBVIOUS
  <2> QED
    BY <2>1, <2>2, <2>3
<1>5. PICK results : results = [crawl.results EXCEPT ![i] = got]
  OBVIOUS
<1>6. /\ results \in Seq(GotType) /\ Len(results) = Len(crawl.results) /\ DOMAIN results = DOMAIN crawl.results
      /\ results[i] = got /\ \A j \in DOMAIN results : j # i => results[j] = crawl.results[j]
  <2> HIDE DEF GotType
  <2>1. crawl.results \in Seq(GotType)
    BY <1>4 DEF CrawlType
  <2> QED
    BY <1>2, <1>4, <1>5, <2>1
<1>7. /\ crawl' = [crawl EXCEPT !.results = results]
  BY <1>2, <1>4, <1>5 DEF CrawlType
<1>8. crawl' \in CrawlType /\ crawl'.results = results
      /\ crawl'.phase = crawl.phase /\ crawl'.kind = crawl.kind /\ crawl'.depth = crawl.depth
      /\ crawl'.frontier = crawl.frontier /\ crawl'.seen = crawl.seen /\ crawl'.targets = crawl.targets
      /\ crawl'.robots = crawl.robots /\ crawl'.listed = crawl.listed /\ crawl'.tasks = crawl.tasks
      /\ crawl'.outcomes = crawl.outcomes /\ crawl'.read = crawl.read /\ crawl'.took = crawl.took
      /\ crawl'.answered = crawl.answered /\ crawl'.capped = crawl.capped
  BY <1>4, <1>6, <1>7 DEF CrawlType
<1>9. CrawlShape' /\ InStep'
  BY <1>3, <1>6, <1>8 DEF CrawlInv, CrawlShape, InStep
<1>10. RecordedWas' /\ ListedWas' /\ ProcessedIsIndexed'
  BY <1>3, <1>8, SameSite DEF CrawlInv, ListedWas, ProcessedIsIndexed
<1>11. AnsweredWas'
  <2>1. \A q, v : Was(q, v)' <=> Was(q, v)
    BY <1>3, SameSite
  <2>2. got.kind = "page" => Was(p, got.version)
    BY <1>2 DEF CrawlInv, RecordedWas
  <2>3. ASSUME NEW j \in DOMAIN results
        PROVE  /\ results[j].kind = "none" => results[j] = Ungot
               /\ results[j].kind # "page" => results[j].links = <<>>
               /\ results[j].kind = "page" => results[j].version # 0
               /\ results[j].kind = "page" /\ crawl.targets[j] \in Marked =>
                    Was(crawl.targets[j], results[j].version) /\ results[j].version > entries[crawl.targets[j]].etag
               /\ results[j].kind = "same" => results[j].version = entries[crawl.targets[j]].etag
    <3>1. CASE j = i
      BY <1>1, <1>2, <1>6, <2>2, <3>1
    <3>2. CASE j # i
      BY <1>6, <3>2 DEF CrawlInv, AnsweredWas
    <3> QED
      BY <3>1, <3>2
  <2> QED
    BY <1>3, <1>8, <2>1, <2>3 DEF AnsweredWas
<1>12. Levels' /\ ReadIsIndexed'
  <2>1. /\ Allowed' = Allowed /\ FromSeen' = FromSeen /\ AtFrontier' = AtFrontier /\ (\A d : Clicks(d)' = Clicks(d))
        /\ ReachIsCovered' /\ ReadIsIndexed'
    BY <1>3, <1>8 DEF Allowed, AllowedPage, FromSeen, AtFrontier, Clicks, ReachIsCovered, ReadIsIndexed
  <2> QED
    BY <1>3, <1>8, <2>1 DEF CrawlInv, Levels
<1> QED
  BY <1>9, <1>10, <1>11, <1>12 DEF CrawlInv

(* A level is done: what it was answered is listed, and its links are the next frontier. *)
Collected(c) ==
    /\ c \in CrawlType /\ c.phase = "choose" /\ c.kind = crawl.kind /\ c.robots = crawl.robots /\ c.capped = crawl.capped
    /\ c.depth = crawl.depth + 1 /\ c.seen = crawl.seen \cup ToSet(crawl.targets)
    /\ c.targets = <<>> /\ c.results = <<>> /\ c.tasks = crawl.tasks /\ c.outcomes = crawl.outcomes
    /\ \A q \in ToSet(c.frontier) : \E i \in DOMAIN crawl.targets : q \in ToSet(crawl.results[i].links)
    /\ crawl.depth < MaxDepth =>
         \A i \in DOMAIN crawl.targets : ToSet(crawl.results[i].links) \subseteq c.seen \cup ToSet(c.frontier)
    /\ \A p \in Pages : c.read[p] = crawl.read[p] \cup
         UNION {ToSet(crawl.results[i].links) : i \in {j \in DOMAIN crawl.targets : crawl.targets[j] = p}}
    /\ ToSet(crawl.listed) \subseteq ToSet(c.listed)
    /\ \A item \in ToSet(c.listed) \ ToSet(crawl.listed) :
         \E i \in DOMAIN crawl.targets : /\ crawl.results[i].kind # "failed"
                                         /\ item.page = crawl.targets[i]
                                         /\ item.etag = EtagOf(crawl.targets[i], crawl.results[i])
    /\ \A i \in DOMAIN crawl.targets : crawl.results[i].kind # "failed" =>
         ItemOf(crawl.targets[i], crawl.results[i]) \in ToSet(c.listed)
    /\ \A p \in Pages : \/ c.took[p] = crawl.took[p]
                        \/ \E i \in DOMAIN crawl.targets : /\ crawl.results[i].kind = "page" /\ crawl.targets[i] = p
                                                           /\ c.took[p] = crawl.results[i].version
    /\ c.answered = crawl.answered \cup {crawl.targets[i] : i \in {j \in DOMAIN crawl.targets : crawl.results[j].kind # "failed"}}

LEMMA CollectFacts == CrawlInv /\ Collect => Collected(crawl')
<1> SUFFICES ASSUME CrawlInv, Collect PROVE Collected(crawl')
  OBVIOUS
<1> DEFINE Of(i)     == crawl.targets[i]
           Got(i)    == crawl.results[i]
           Before(i) == crawl.seen \cup {Of(j) : j \in 1..i}
           items == [i \in DOMAIN crawl.targets |->
                       IF i \in AnsweredNow THEN <<ItemOf(Of(i), Got(i))>> ELSE <<>>]
           links == [i \in DOMAIN crawl.targets |->
                       IF Deeper THEN Picked(Got(i).links, {n \in DOMAIN Got(i).links : Got(i).links[n] \notin Before(i)}) ELSE <<>>]
           bodies == {i \in DOMAIN crawl.targets : Got(i).kind = "page"}
           read == [p \in Pages |-> crawl.read[p] \cup UNION {ToSet(Got(i).links) : i \in {j \in bodies : Of(j) = p}}]
           took == [p \in Pages |-> Max({crawl.took[p]} \cup {Got(i).version : i \in {j \in bodies : Of(j) = p}})]
           answered == crawl.answered \cup {Of(i) : i \in {j \in DOMAIN crawl.targets : Got(j).kind # "failed"}}
           seen == crawl.seen \cup ToSet(crawl.targets)
           n == Len(crawl.targets)
<1>1. crawl' = [crawl EXCEPT !.phase = "choose", !.depth = @ + 1,
                       !.seen = seen, !.targets = <<>>, !.results = <<>>,
                       !.frontier = FlattenSeq(links), !.listed = @ \o FlattenSeq(items),
                       !.read = read, !.took = took, !.answered = answered]
  BY Zenon DEF Collect
<1>2. /\ crawl \in CrawlType /\ n \in Nat /\ DOMAIN crawl.targets = 1..n /\ DOMAIN crawl.results = 1..n
      /\ \A i \in 1..n : Of(i) \in Pages /\ Got(i) \in GotType
      /\ crawl.depth \in Nat /\ MaxDepth \in Nat
  <2>1. crawl \in CrawlType /\ Len(crawl.results) = Len(crawl.targets)
    BY DEF CrawlInv, CrawlShape, InStep
  <2>2. crawl.targets \in Seq(Pages) /\ crawl.results \in Seq(GotType) /\ crawl.depth \in Nat
    BY <2>1 DEF CrawlType
  <2> QED
    BY <2>1, <2>2, SeedsAndWebs
<1>3. \A i \in 1..n : /\ Got(i).links \in Seq(Pages) /\ Got(i).version \in Versions
                      /\ Got(i).kind # "page" => Got(i).links = <<>>
  BY <1>2 DEF GotType, CrawlInv, AnsweredWas
<1> HIDE DEF n, seen
<1>4. /\ links \in Seq(Seq(Pages))
      /\ \A i \in 1..n : ToSet(links[i]) \subseteq ToSet(Got(i).links)
      /\ Deeper => \A i \in 1..n : ToSet(Got(i).links) \subseteq ToSet(links[i]) \cup seen
  <2>1. ASSUME NEW i \in 1..n
        PROVE  /\ links[i] \in Seq(Pages) /\ ToSet(links[i]) \subseteq ToSet(Got(i).links)
               /\ Deeper => ToSet(Got(i).links) \subseteq ToSet(links[i]) \cup Before(i)
    <3> DEFINE T == {m \in DOMAIN Got(i).links : Got(i).links[m] \notin Before(i)}
    <3>1. PICK l \in Seq(Pages) : l = Got(i).links
      BY <1>3
    <3>2. PICK B : B = Before(i)
      OBVIOUS
    <3>3. PICK S : S = {m \in DOMAIN l : l[m] \notin B}
      OBVIOUS
    <3>4. links[i] = IF Deeper THEN Picked(l, S) ELSE <<>>
      BY <1>2, <3>1, <3>2, <3>3
    <3>5. Picked(l, S) \in Seq(Pages) /\ ToSet(Picked(l, S)) = {l[m] : m \in S}
      <4>1. S \in SUBSET DOMAIN l
        BY <3>3
      <4> QED
        BY <4>1, PickedSet
    <3>6. ToSet(l) = {l[m] : m \in DOMAIN l}
      BY DEF ToSet
    <3> HIDE DEF links, Before, Got
    <3>7. CASE Deeper
      BY <3>1, <3>2, <3>3, <3>4, <3>5, <3>6, <3>7
    <3>8. CASE ~Deeper
      BY <3>4, <3>8, EmptyLists
    <3> QED
      BY <3>7, <3>8
  <2>2. \A i \in 1..n : Before(i) \subseteq seen
    <3>1. \A i \in 1..n : \A j \in 1..i : j \in 1..n
      BY <1>2
    <3> QED
      BY <1>2, <3>1 DEF seen, ToSet
  <2>3. DOMAIN links = 1..n
    BY <1>2
  <2>4. links \in [1..n -> Seq(Pages)]
    <3>1. links = [i \in 1..n |-> links[i]]
      BY <1>2
    <3> HIDE DEF links
    <3> QED
      BY <2>1, <3>1
  <2> HIDE DEF links, Before, Got
  <2>5. links \in Seq(Seq(Pages))
    BY <1>2, <2>4
  <2> QED
    BY <2>1, <2>2, <2>5
<1>5. /\ items \in Seq(Seq(Items)) /\ DOMAIN items = 1..n
      /\ \A i \in 1..n : ToSet(items[i]) = IF i \in AnsweredNow THEN {ItemOf(Of(i), Got(i))} ELSE {}
  <2>1. ASSUME NEW i \in 1..n
        PROVE  /\ items[i] \in Seq(Items)
               /\ ToSet(items[i]) = IF i \in AnsweredNow THEN {ItemOf(Of(i), Got(i))} ELSE {}
    <3>1. PICK x : x = ItemOf(Of(i), Got(i))
      OBVIOUS
    <3>2. x \in Items
      <4>1. EtagOf(Of(i), Got(i)) \in Versions /\ DateOfPage(Of(i), Got(i)) \in Versions
        BY <1>2, <1>3, SeedsAndWebs DEF EtagOf, DateOfPage, Versions
      <4> QED
        BY <1>2, <3>1, <4>1 DEF Items, ItemOf
    <3>3. items[i] = IF i \in AnsweredNow THEN <<x>> ELSE <<>>
      BY <1>2, <3>1
    <3>4. <<x>> \in Seq(Items) /\ ToSet(<<x>>) = {x} /\ <<>> \in Seq(Items)
      <4> HIDE DEF Items
      <4> QED
        BY <3>2 DEF ToSet
    <3> HIDE DEF items, Of, Got
    <3> QED
      BY <3>1, <3>3, <3>4, EmptyLists
  <2>2. DOMAIN items = 1..n
    BY <1>2
  <2>3. items \in [1..n -> Seq(Items)]
    <3>1. items = [i \in 1..n |-> items[i]]
      BY <1>2
    <3> HIDE DEF items
    <3> QED
      BY <2>1, <3>1
  <2> HIDE DEF items, Of, Got
  <2> QED
    BY <1>2, <2>1, <2>2, <2>3
<1>6. PICK fr, it : fr = FlattenSeq(links) /\ it = FlattenSeq(items)
  OBVIOUS
<1>7. fr \in Seq(Pages) /\ ToSet(fr) = UNION {ToSet(links[i]) : i \in DOMAIN links}
  <2> HIDE DEF links
  <2> QED
    BY <1>4, <1>6, FlatFacts
<1>8. it \in Seq(Items) /\ ToSet(it) = UNION {ToSet(items[i]) : i \in 1..n}
  <2> HIDE DEF items, Items
  <2> QED
    BY <1>5, <1>6, FlatFacts
<1>9. PICK li : li = crawl.listed \o it
  OBVIOUS
<1>10. li \in Seq(Items) /\ ToSet(li) = ToSet(crawl.listed) \cup ToSet(it)
  <2> HIDE DEF Items
  <2>1. crawl.listed \in Seq(Items)
    BY <1>2 DEF CrawlType
  <2>2. it \in Seq(Items)
    BY <1>8
  <2> QED
    BY <1>9, <2>1, <2>2, JoinSet, Z3
<1>11. \A p \in Pages : /\ took[p] \in Versions
                        /\ \/ took[p] = crawl.took[p]
                           \/ \E i \in 1..n : Got(i).kind = "page" /\ Of(i) = p /\ took[p] = Got(i).version
  <2> SUFFICES ASSUME NEW p \in Pages
               PROVE  /\ took[p] \in Versions
                      /\ \/ took[p] = crawl.took[p]
                         \/ \E i \in 1..n : Got(i).kind = "page" /\ Of(i) = p /\ took[p] = Got(i).version
    OBVIOUS
  <2> DEFINE S == {crawl.took[p]} \cup {Got(i).version : i \in {j \in bodies : Of(j) = p}}
  <2>1. S \subseteq Versions /\ S # {}
    <3>1. crawl.took[p] \in Versions
      BY <1>2 DEF CrawlType
    <3>2. \A i \in bodies : Got(i).version \in Versions
      BY <1>2, <1>3
    <3> HIDE DEF Got, bodies
    <3> QED
      BY <3>1, <3>2
  <2>2. IsFiniteSet(Versions) /\ Versions \subseteq Int
    <3>1. MaxChanges + 1 \in Int /\ 0 \in Int
      BY SeedsAndWebs
    <3> QED
      BY <3>1, FS_Interval DEF Versions
  <2>3. IsFiniteSet(S) /\ S \in SUBSET Int
    BY <2>1, <2>2, FS_Subset
  <2>4. took[p] = Max(S)
    OBVIOUS
  <2>5. Max(S) \in S
    <3> HIDE DEF S
    <3> QED
      BY <2>1, <2>3, MaxFacts
  <2> QED
    BY <1>2, <2>1, <2>4, <2>5
<1>12. read \in [Pages -> SUBSET Pages]
  <2>1. \A p \in Pages : crawl.read[p] \subseteq Pages
    BY <1>2 DEF CrawlType
  <2>2. \A i \in 1..n : ToSet(Got(i).links) \subseteq Pages
    BY <1>3 DEF ToSet
  <2>3. \A p \in Pages : crawl.read[p] \cup UNION {ToSet(Got(i).links) : i \in {j \in bodies : Of(j) = p}} \subseteq Pages
    BY <1>2, <2>1, <2>2
  <2> HIDE DEF Of, Got, bodies
  <2> QED
    BY <2>3
<1>13. \A p \in Pages : read[p] = crawl.read[p] \cup
         UNION {ToSet(crawl.results[i].links) : i \in {j \in DOMAIN crawl.targets : crawl.targets[j] = p}}
  <2> SUFFICES ASSUME NEW p \in Pages
               PROVE  UNION {ToSet(Got(i).links) : i \in {j \in bodies : Of(j) = p}}
                      = UNION {ToSet(crawl.results[i].links) : i \in {j \in DOMAIN crawl.targets : crawl.targets[j] = p}}
    OBVIOUS
  <2>1. \A i \in 1..n : i \notin bodies => ToSet(Got(i).links) = {}
    BY <1>2, <1>3, EmptyLists
  <2> QED
    BY <1>2, <2>1
<1>14. took \in [Pages -> Versions] /\ answered \subseteq Pages /\ seen \subseteq Pages
  <2>1. took \in [Pages -> Versions]
    <3>1. took = [p \in Pages |-> took[p]]
      OBVIOUS
    <3> HIDE DEF took
    <3> QED
      BY <1>11, <3>1
  <2>2. seen \subseteq Pages
    BY <1>2 DEF CrawlType, seen, ToSet
  <2>3. answered \subseteq Pages
    BY <1>2 DEF CrawlType
  <2> QED
    BY <2>1, <2>2, <2>3
<1>15. PICK rd, tk, an : rd = read /\ tk = took /\ an = answered
  OBVIOUS
<1>16. crawl' = [crawl EXCEPT !.phase = "choose", !.depth = @ + 1,
                       !.seen = seen, !.targets = <<>>, !.results = <<>>,
                       !.frontier = fr, !.listed = li,
                       !.read = rd, !.took = tk, !.answered = an]
  BY <1>1, <1>6, <1>9, <1>15
<1> HIDE DEF read, took, answered, items, links
<1>17. rd \in [Pages -> SUBSET Pages] /\ tk \in [Pages -> Versions] /\ an \in SUBSET Pages /\ seen \in SUBSET Pages
  BY <1>12, <1>14, <1>15
<1>18. /\ crawl' \in CrawlType /\ crawl'.phase = "choose" /\ crawl'.kind = crawl.kind /\ crawl'.robots = crawl.robots
       /\ crawl'.capped = crawl.capped
       /\ crawl'.depth = crawl.depth + 1 /\ crawl'.seen = seen
       /\ crawl'.targets = <<>> /\ crawl'.results = <<>> /\ crawl'.tasks = crawl.tasks /\ crawl'.outcomes = crawl.outcomes
       /\ crawl'.frontier = fr /\ crawl'.read = rd /\ crawl'.listed = li /\ crawl'.took = tk /\ crawl'.answered = an
  <2> HIDE DEF Items
  <2>1. <<>> \in Seq(Pages) /\ <<>> \in Seq(GotType) /\ crawl.depth + 1 \in Nat
    BY <1>2
  <2> QED
    BY <1>2, <1>7, <1>10, <1>16, <1>17, <2>1 DEF CrawlType
<1>19. \A q \in ToSet(fr) : \E i \in DOMAIN crawl.targets : q \in ToSet(crawl.results[i].links)
  <2>1. DOMAIN links = 1..n
    BY <1>2 DEF links
  <2> QED
    BY <1>2, <1>4, <1>7, <2>1
<1>20. crawl.depth < MaxDepth =>
         \A i \in DOMAIN crawl.targets : ToSet(crawl.results[i].links) \subseteq seen \cup ToSet(fr)
  <2>1. DOMAIN links = 1..n
    BY <1>2 DEF links
  <2>2. \A i \in 1..n : ToSet(links[i]) \subseteq ToSet(fr)
    BY <1>7, <2>1
  <2> QED
    BY <1>2, <1>4, <2>2 DEF Deeper
<1>21. /\ \A item \in ToSet(it) :
            \E i \in DOMAIN crawl.targets : /\ crawl.results[i].kind # "failed"
                                            /\ item.page = crawl.targets[i]
                                            /\ item.etag = EtagOf(crawl.targets[i], crawl.results[i])
       /\ \A i \in DOMAIN crawl.targets : crawl.results[i].kind # "failed" =>
            ItemOf(crawl.targets[i], crawl.results[i]) \in ToSet(it)
  <2>1. ASSUME NEW item \in ToSet(it)
        PROVE  \E i \in DOMAIN crawl.targets : /\ crawl.results[i].kind # "failed"
                                               /\ item.page = crawl.targets[i]
                                               /\ item.etag = EtagOf(crawl.targets[i], crawl.results[i])
    <3>1. PICK i \in 1..n : item \in ToSet(items[i])
      BY <1>8
    <3>2. i \in AnsweredNow /\ item = ItemOf(Of(i), Got(i))
      BY <1>5, <3>1
    <3> QED
      BY <1>2, <3>2 DEF AnsweredNow, ItemOf
  <2>2. ASSUME NEW i \in DOMAIN crawl.targets, crawl.results[i].kind # "failed"
        PROVE  ItemOf(crawl.targets[i], crawl.results[i]) \in ToSet(it)
    <3>1. i \in AnsweredNow /\ i \in 1..n
      BY <1>2, <2>2 DEF AnsweredNow
    <3>2. ToSet(items[i]) = {ItemOf(Of(i), Got(i))}
      BY <1>5, <3>1
    <3> QED
      BY <1>8, <3>1, <3>2
  <2> QED
    BY <2>1, <2>2
<1>22. \A p \in Pages : rd[p] = crawl.read[p] \cup
         UNION {ToSet(crawl.results[i].links) : i \in {j \in DOMAIN crawl.targets : crawl.targets[j] = p}}
  BY <1>13, <1>15
<1>23. \A p \in Pages : \/ tk[p] = crawl.took[p]
                        \/ \E i \in DOMAIN crawl.targets : /\ crawl.results[i].kind = "page" /\ crawl.targets[i] = p
                                                           /\ tk[p] = crawl.results[i].version
  BY <1>2, <1>11, <1>15
<1>24. an = crawl.answered \cup {crawl.targets[i] : i \in {j \in DOMAIN crawl.targets : crawl.results[j].kind # "failed"}}
  BY <1>15 DEF answered
<1> QED
  BY <1>10, <1>18, <1>19, <1>20, <1>21, <1>22, <1>23, <1>24 DEF Collected, seen

LEMMA CollectKeeps == CrawlInv /\ Collect => CrawlInv'
<1> SUFFICES ASSUME CrawlInv, Collect PROVE CrawlInv'
  OBVIOUS
<1>1. /\ UNCHANGED <<site, changes, entries, indexed, crawlFaults>> /\ crawl.phase = "get"
      /\ \A i \in DOMAIN crawl.results : crawl.results[i] # Ungot
  BY DEF Collect
<1>2. PICK c : c = crawl'
  OBVIOUS
<1>3. Collected(c)
  BY <1>2, CollectFacts
<1>4. /\ crawl \in CrawlType /\ crawl.kind = "choose" /\ crawl.depth \in 0..MaxDepth /\ crawl.robots # "unread" /\ MaxDepth \in Nat
      /\ DOMAIN crawl.targets = DOMAIN crawl.results /\ DOMAIN crawl.targets = 1..Len(crawl.targets)
      /\ \A i \in DOMAIN crawl.targets : crawl.targets[i] \in Pages /\ crawl.results[i] \in GotType
      /\ crawl.tasks = <<>>
  <2>1. crawl \in CrawlType /\ Len(crawl.results) = Len(crawl.targets) /\ crawl.kind = "choose" /\ crawl.tasks = <<>>
    BY <1>1 DEF CrawlInv, CrawlShape, InStep
  <2>2. crawl.depth \in 0..MaxDepth + 1 /\ crawl.depth <= MaxDepth /\ crawl.robots # "unread"
    BY <1>1 DEF CrawlInv, Levels
  <2>3. crawl.targets \in Seq(Pages) /\ crawl.results \in Seq(GotType)
    BY <2>1 DEF CrawlType
  <2> QED
    BY <2>1, <2>2, <2>3, SeedsAndWebs
<1>5. CrawlShape'
  BY <1>1, <1>2, <1>3 DEF CrawlInv, CrawlShape, Collected
<1>6. InStep'
  <2>1. /\ IsFiniteSet(ToSet(crawl.targets)) /\ Cardinality(ToSet(crawl.targets)) \in Nat
        /\ Cardinality(ToSet(crawl.targets)) <= Len(crawl.targets)
    <3>1. crawl.targets \in Seq(Pages)
      BY <1>4 DEF CrawlType
    <3> QED
      BY <3>1, ToSetFinite
  <2>2. IsFiniteSet(crawl.seen) /\ Cardinality(crawl.seen) \in Nat
    <3>1. crawl.seen \subseteq Pages
      BY <1>4 DEF CrawlType
    <3> QED
      BY <3>1, CrawlerAssumption, FS_Subset, FS_CardinalityType DEF CrawlerAssumption
  <2>3. /\ Cardinality(crawl.seen \cup ToSet(crawl.targets)) =
             Cardinality(crawl.seen) + Cardinality(ToSet(crawl.targets)) - Cardinality(crawl.seen \cap ToSet(crawl.targets))
        /\ Cardinality(crawl.seen \cap ToSet(crawl.targets)) \in Nat
    BY <2>1, <2>2, FS_Union, FS_Intersection, FS_CardinalityType
  <2>4. Cardinality(c.seen) <= MaxPages /\ Cardinality(c.seen) \in Nat
    <3>1. Cardinality(crawl.seen) + Len(crawl.targets) <= MaxPages /\ Len(crawl.targets) \in Nat
      BY <1>4 DEF CrawlInv, InStep, CrawlType
    <3>2. c.seen = crawl.seen \cup ToSet(crawl.targets)
      BY <1>3 DEF Collected
    <3>3. Cardinality(crawl.seen \cup ToSet(crawl.targets)) \in Nat
      BY <2>1, <2>2, FS_Union, FS_CardinalityType
    <3> QED
      BY <2>1, <2>2, <2>3, <3>1, <3>2, <3>3, SeedsAndWebs
  <2>5. c.answered \subseteq c.seen
    <3>1. crawl.answered \subseteq crawl.seen
      BY DEF CrawlInv, InStep
    <3>2. \A i \in DOMAIN crawl.targets : crawl.targets[i] \in ToSet(crawl.targets)
      BY DEF ToSet
    <3> QED
      BY <1>3, <3>1, <3>2 DEF Collected
  <2>6. Cardinality(c.seen) + Len(<<>>) <= MaxPages
    BY <2>4, EmptyLists
  <2> QED
    BY <1>2, <1>3, <1>4, <2>5, <2>6, EmptyLists DEF CrawlInv, InStep, Collected
<1>7. RecordedWas' /\ \A p, v : Was(p, v)' <=> Was(p, v)
  BY <1>1, SameSite
<1>8. AnsweredWas' /\ ProcessedIsIndexed' /\ ReadIsIndexed'
  BY <1>2, <1>3, EmptyLists DEF AnsweredWas, ProcessedIsIndexed, ReadIsIndexed, Collected
<1>9. ListedWas'
  <2>0. AnsweredWas /\ ListedWas /\ crawl.phase # "idle"
    BY <1>1 DEF CrawlInv
  <2>1. ASSUME NEW item \in ToSet(c.listed) \cup ToSet(c.tasks), item.page \in Marked
        PROVE  Was(item.page, item.etag) /\ item.etag >= entries[item.page].etag
    <3>1. CASE item \in ToSet(crawl.listed) \cup ToSet(crawl.tasks)
      BY <2>0, <2>1, <3>1 DEF ListedWas
    <3>2. CASE item \in ToSet(c.listed) \ ToSet(crawl.listed)
      <4>1. PICK i \in DOMAIN crawl.targets : /\ crawl.results[i].kind # "failed"
                                              /\ item.page = crawl.targets[i]
                                              /\ item.etag = EtagOf(crawl.targets[i], crawl.results[i])
        BY <1>3, <3>2 DEF Collected
      <4>2. item.etag = crawl.results[i].version /\ crawl.results[i].kind \in {"same", "page"}
        BY <1>1, <1>4, <2>0, <2>1, <4>1 DEF EtagOf, GotType, AnsweredWas
      <4>3. crawl.results[i].version \in Nat /\ entries[item.page].etag \in Nat
        <5>1. crawl.results[i].version \in Nat
          BY <1>4 DEF GotType, Versions
        <5>2. item.page \in Pages
          BY <2>1, SeedsAndWebs
        <5>3. entries[item.page].etag \in Versions
          BY <5>2 DEF CrawlInv, CrawlShape, PageEntry
        <5> QED
          BY <5>1, <5>3 DEF Versions
      <4>4. CASE crawl.results[i].kind = "page"
        BY <1>4, <2>0, <2>1, <4>1, <4>2, <4>3, <4>4 DEF AnsweredWas
      <4>5. CASE crawl.results[i].kind = "same"
        <5>1. item.etag = entries[item.page].etag
          BY <1>4, <2>0, <4>1, <4>2, <4>5 DEF AnsweredWas
        <5> QED
          BY <2>1, <4>3, <5>1 DEF CrawlInv, RecordedWas
      <4> QED
        BY <4>2, <4>4, <4>5
    <3> QED
      BY <1>3, <2>1, <3>1, <3>2 DEF Collected
  <2>2. ASSUME NEW p \in Marked, c.took[p] # 0
        PROVE  /\ Was(p, c.took[p]) /\ c.took[p] > entries[p].etag
               /\ IsListed(p, c.took[p], c.listed)
    <3>0. p \in Pages
      BY SeedsAndWebs
    <3>1. CASE c.took[p] = crawl.took[p]
      BY <1>3, <2>0, <2>2, <3>1 DEF ListedWas, Collected, IsListed
    <3>2. ASSUME NEW i \in DOMAIN crawl.targets, crawl.results[i].kind = "page", crawl.targets[i] = p,
                 c.took[p] = crawl.results[i].version
          PROVE  /\ Was(p, c.took[p]) /\ c.took[p] > entries[p].etag
                 /\ IsListed(p, c.took[p], c.listed)
      <4>1. Was(p, c.took[p]) /\ c.took[p] > entries[p].etag
        BY <1>4, <2>0, <3>2 DEF AnsweredWas
      <4>2. EtagOf(p, crawl.results[i]) = c.took[p]
        BY <3>2 DEF EtagOf
      <4>3. ItemOf(p, crawl.results[i]) \in ToSet(c.listed)
        BY <1>3, <3>2 DEF Collected
      <4>4. ItemOf(p, crawl.results[i]).page = p /\ ItemOf(p, crawl.results[i]).etag = c.took[p]
        BY <4>2 DEF ItemOf
      <4> QED
        BY <4>1, <4>3, <4>4 DEF IsListed
    <3> QED
      BY <1>3, <3>0, <3>1, <3>2 DEF Collected
  <2>3. ASSUME NEW p \in c.answered PROVE \E item \in ToSet(c.listed) : item.page = p
    <3>1. CASE p \in crawl.answered
      BY <1>3, <2>0, <3>1 DEF ListedWas, Collected
    <3>2. ASSUME NEW i \in DOMAIN crawl.targets, crawl.results[i].kind # "failed", p = crawl.targets[i]
          PROVE  \E item \in ToSet(c.listed) : item.page = p
      <4>1. ItemOf(crawl.targets[i], crawl.results[i]) \in ToSet(c.listed)
        BY <1>3, <3>2 DEF Collected
      <4>2. ItemOf(crawl.targets[i], crawl.results[i]).page = p
        BY <3>2 DEF ItemOf
      <4> QED
        BY <4>1, <4>2
    <3> QED
      BY <1>3, <2>3, <3>1, <3>2 DEF Collected
  <2> QED
    BY <1>1, <1>2, <1>7, <2>1, <2>2, <2>3 DEF ListedWas
<1>10. Levels'
  <2> DEFINE d == crawl.depth
             T == ToSet(crawl.targets)
             A == Allowed
  <2>1. /\ d \in Nat /\ d \in 0..MaxDepth /\ A \in SUBSET Pages /\ crawl.read \in [Pages -> SUBSET Pages]
        /\ c.read \in [Pages -> SUBSET Pages]
    BY <1>3, <1>4 DEF CrawlType, Allowed, Collected
  <2>2. /\ T \subseteq AtFrontier /\ c.seen = crawl.seen \cup T /\ c.depth = d + 1
        /\ T = {crawl.targets[i] : i \in DOMAIN crawl.targets}
    BY <1>1, <1>3 DEF CrawlInv, Levels, Collected, ToSet
  <2>3. \A p \in Pages : crawl.read[p] \subseteq c.read[p] /\ (p \notin T => c.read[p] = crawl.read[p])
    <3> SUFFICES ASSUME NEW p \in Pages
                 PROVE  crawl.read[p] \subseteq c.read[p] /\ (p \notin T => c.read[p] = crawl.read[p])
      OBVIOUS
    <3> DEFINE B == {j \in DOMAIN crawl.targets : crawl.targets[j] = p}
    <3>1. c.read[p] = crawl.read[p] \cup UNION {ToSet(crawl.results[i].links) : i \in B}
      BY <1>3 DEF Collected
    <3>2. p \notin T => B = {}
      BY <2>2
    <3> HIDE DEF B, T
    <3> QED
      BY <3>1, <3>2
  <2>4. PICK old, new : old = Reach(A, crawl.read) /\ new = Reach(A, c.read)
    OBVIOUS
  <2>5. Allowed' = A /\ \A k : Clicks(k) = old[k] /\ Clicks(k)' = new[k]
    BY <1>2, <1>3, <2>4 DEF Allowed, AllowedPage, Clicks, Collected
  <2>6. old[d] \subseteq new[d] /\ (d > 0 => old[d - 1] \subseteq old[d])
    <3>1. old[d] \subseteq new[d]
      BY <2>1, <2>3, <2>4, ReachGrows
    <3>2. d > 0 => d \in 1..MaxDepth
      BY <2>1
    <3>3. Walks(old, A, crawl.read)
      BY <2>1, <2>4, ReachFacts
    <3> QED
      BY <2>1, <3>1, <3>2, <3>3 DEF Walks
  <2>7. /\ d = 0 => old[0] = A \cap ToSet(Seeds)
        /\ d > 0 => old[d] = old[d - 1] \cup {q \in A : \E p \in old[d - 1] : q \in crawl.read[p]}
    <3>1. d > 0 => d \in 1..MaxDepth
      BY <2>1
    <3>2. Walks(old, A, crawl.read)
      BY <2>1, <2>4, ReachFacts
    <3> QED
      BY <2>1, <3>1, <3>2 DEF Walks
  <2>8. /\ d = 0 => crawl.frontier = Seeds /\ crawl.seen = {}
        /\ d > 0 => crawl.seen \subseteq old[d - 1] /\ ToSet(crawl.frontier) \subseteq FromSeen
        /\ \A p \in Pages \ crawl.seen : crawl.read[p] = {}
        /\ ~crawl.capped => /\ d > 0 => old[d - 1] \subseteq crawl.seen
                            /\ d \in 1..MaxDepth => FromSeen \cap A \subseteq crawl.seen \cup ToSet(crawl.frontier)
                            /\ AtFrontier \subseteq T
    BY <1>1, <2>5 DEF CrawlInv, Levels
  <2>9. T \subseteq old[d]
    <3>1. T \subseteq ToSet(crawl.frontier) \cap A
      BY <2>2 DEF AtFrontier
    <3>2. CASE d = 0
      BY <2>7, <2>8, <3>1, <3>2
    <3>3. CASE d > 0
      <4>1. ASSUME NEW q \in T PROVE \E p \in old[d - 1] : q \in crawl.read[p]
        BY <2>8, <3>1, <3>3 DEF FromSeen
      <4> QED
        BY <2>7, <3>1, <3>3, <4>1
    <3> QED
      BY <2>1, <3>2, <3>3
  <2>10. c.seen \subseteq new[d]
    <3>1. crawl.seen \subseteq old[d]
      BY <2>1, <2>6, <2>8
    <3> QED
      BY <2>2, <2>6, <2>9, <3>1
  <2>11. ToSet(c.frontier) \subseteq UNION {c.read[p] : p \in c.seen}
    <3> SUFFICES ASSUME NEW q \in ToSet(c.frontier) PROVE \E p \in c.seen : q \in c.read[p]
      OBVIOUS
    <3>1. PICK i \in DOMAIN crawl.targets : q \in ToSet(crawl.results[i].links)
      BY <1>3 DEF Collected
    <3>2. crawl.targets[i] \in Pages /\ crawl.targets[i] \in c.seen
      BY <1>4, <2>2
    <3>3. q \in c.read[crawl.targets[i]]
      BY <1>3, <3>1, <3>2 DEF Collected
    <3> QED
      BY <3>2, <3>3
  <2>12. \A p \in Pages \ c.seen : c.read[p] = {}
    BY <2>2, <2>3, <2>8
  <2>13. ASSUME ~crawl.capped
         PROVE  /\ new[d] \subseteq c.seen
                /\ d + 1 \in 1..MaxDepth =>
                     (UNION {c.read[p] : p \in c.seen}) \cap A \subseteq c.seen \cup ToSet(c.frontier)
    <3>1. T \cap crawl.seen = {} /\ (ToSet(crawl.frontier) \cap A) \subseteq crawl.seen \cup T
      BY <2>2, <2>8, <2>13 DEF AtFrontier
    <3>2. new[d] = old[d]
      <4>1. d > 0 => \A p \in old[d - 1] : c.read[p] = crawl.read[p]
        <5>1. d > 0 => old[d - 1] \subseteq Pages \ T
          <6>1. crawl.seen \subseteq Pages
            BY <1>4 DEF CrawlType
          <6> QED
            BY <2>8, <2>13, <3>1, <6>1
        <5> QED
          BY <2>3, <5>1
      <4> QED
        BY <2>1, <2>4, <4>1, ReachIsLocal
    <3>3. old[d] \subseteq c.seen
      <4>1. CASE d = 0
        BY <2>2, <2>7, <2>8, <3>1, <4>1
      <4>2. CASE d > 0
        <5>1. d \in 1..MaxDepth
          BY <2>1, <4>2
        <5>2. {q \in A : \E p \in old[d - 1] : q \in crawl.read[p]} \subseteq FromSeen \cap A
          BY <2>8, <2>13, <4>2 DEF FromSeen
        <5> QED
          BY <2>2, <2>7, <2>8, <2>13, <3>1, <4>2, <5>1, <5>2
      <4> QED
        BY <2>1, <4>1, <4>2
    <3>4. ASSUME d + 1 \in 1..MaxDepth, NEW p \in c.seen, NEW q \in c.read[p], q \in A
          PROVE  q \in c.seen \cup ToSet(c.frontier)
      <4>0. p \in Pages
        BY <1>3 DEF Collected, CrawlType
      <4>1. CASE p \in T
        <5>1. crawl.read[p] = {}
          BY <2>8, <3>1, <4>0, <4>1
        <5>2. PICK i \in DOMAIN crawl.targets : crawl.targets[i] = p /\ q \in ToSet(crawl.results[i].links)
          BY <1>3, <3>4, <4>0, <5>1 DEF Collected
        <5>3. crawl.depth < MaxDepth
          BY <1>4, <2>1, <3>4
        <5> QED
          BY <1>3, <5>2, <5>3 DEF Collected
      <4>2. CASE p \notin T
        <5>1. p \in crawl.seen /\ q \in crawl.read[p]
          BY <2>2, <2>3, <4>0, <4>2
        <5>2. d \in 1..MaxDepth
          BY <2>1, <2>8, <5>1
        <5>3. q \in crawl.seen \cup ToSet(crawl.frontier)
          BY <2>8, <2>13, <3>4, <5>1, <5>2 DEF FromSeen
        <5> QED
          BY <2>2, <3>1, <3>4, <5>3
      <4> QED
        BY <4>1, <4>2
    <3>5. d + 1 \in 1..MaxDepth =>
                     (UNION {c.read[p] : p \in c.seen}) \cap A \subseteq c.seen \cup ToSet(c.frontier)
      <4> SUFFICES ASSUME d + 1 \in 1..MaxDepth, NEW q \in UNION {c.read[p] : p \in c.seen}, q \in A
                   PROVE  q \in c.seen \cup ToSet(c.frontier)
        OBVIOUS
      <4> HIDE DEF d, A
      <4>1. PICK p \in c.seen : q \in c.read[p]
        BY Zenon
      <4> QED
        BY <3>4, <4>1
    <3> QED
      BY <3>2, <3>3, <3>5
  <2>14. c.depth - 1 = d /\ c.depth > 0 /\ c.depth \in 0..MaxDepth + 1 /\ c.depth # 0
    BY <1>4, <2>1, <2>2
  <2>15. /\ c.phase = "choose" /\ c.robots # "unread" /\ c.targets = <<>> /\ c.capped = crawl.capped
    BY <1>3, <1>4 DEF Collected
  <2>16. FromSeen' = UNION {c.read[p] : p \in c.seen}
    BY <1>2 DEF FromSeen
  <2>17. c.phase # "get" /\ c.phase # "plan" /\ c.phase # "process"
    BY <2>15
  <2>18. ReachIsCovered'
    BY <1>2, <2>17 DEF ReachIsCovered
  <2> HIDE DEF d, A, T
  <2>19. /\ ToSet(crawl'.frontier) \subseteq FromSeen' /\ crawl'.seen \subseteq Clicks(crawl.depth - 1)'
         /\ ToSet(crawl'.targets) \subseteq AtFrontier'
         /\ ~crawl'.capped => Clicks(crawl.depth - 1)' \subseteq crawl'.seen
         /\ ~crawl'.capped => (c.depth \in 1..MaxDepth => FromSeen' \cap Allowed' \subseteq crawl'.seen \cup ToSet(crawl'.frontier))
    <3>1. Clicks(crawl.depth - 1)' = new[d]
      BY <1>2, <2>5, <2>14
    <3> QED
      BY <1>2, <2>2, <2>5, <2>10, <2>11, <2>13, <2>14, <2>15, <2>16, <3>1, EmptyLists
  <2> QED
    BY <1>2, <2>12, <2>14, <2>15, <2>17, <2>18, <2>19 DEF Levels
<1> QED
  BY <1>5, <1>6, <1>7, <1>8, <1>9, <1>10 DEF CrawlInv

LEMMA ListSitemapKeeps == CrawlInv /\ ListSitemap => CrawlInv'
<1> SUFFICES ASSUME CrawlInv, ListSitemap PROVE CrawlInv'
  OBVIOUS
<1> DEFINE f == crawl.frontier
           Fresh(p) == Behind(p).version # 0 /\ Behind(p).version >= crawl.from /\ AllowedPage(p)
           S == {i \in DOMAIN f : Fresh(f[i])}
           fresh == Picked(f, S)
           m == IF Len(fresh) < MaxPages THEN Len(fresh) ELSE MaxPages
           some == SubSeq(fresh, 1, m)
           found == [i \in DOMAIN some |-> [page |-> some[i], etag |-> entries[some[i]].etag,
                                            modified |-> Behind(some[i]).version]]
<1>1. /\ UNCHANGED <<site, changes, entries, indexed>> /\ crawl.phase = "sitemap"
      /\ \/ crawl' = [crawl EXCEPT !.phase = "plan", !.frontier = <<>>, !.capped = Len(fresh) > MaxPages, !.listed = found]
            /\ UNCHANGED crawlFaults
         \/ CrawlFault /\ crawl' = [crawl EXCEPT !.phase = "plan", !.frontier = <<>>, !.error = TRUE]
  BY Zenon DEF ListSitemap
<1>2. /\ crawl \in CrawlType /\ f \in Seq(Pages) /\ crawl.kind = "sitemap" /\ crawl.seen = {} /\ crawl.answered = {}
      /\ \A p \in Pages : crawl.took[p] = 0
  BY <1>1 DEF CrawlInv, CrawlShape, InStep, CrawlType
<1>3. crawlFaults' \in 0..MaxCrawlFaults
  <2>1. crawlFaults' = crawlFaults \/ CrawlFault
    BY <1>1
  <2> QED
    BY <2>1, SeedsAndWebs DEF CrawlFault, CrawlInv, CrawlShape
<1>4. fresh \in Seq(Pages)
  <2>1. S \in SUBSET DOMAIN f
    OBVIOUS
  <2> HIDE DEF S, f
  <2> QED
    BY <1>2, <2>1, PickedSet
<1> HIDE DEF fresh
<1>5. some \in Seq(Pages) /\ DOMAIN some = 1..Len(some)
  <2>1. Len(fresh) \in Nat /\ m \in Nat /\ m <= Len(fresh)
    BY <1>4, SeedsAndWebs
  <2> HIDE DEF m
  <2> QED
    BY <1>4, <2>1
<1> HIDE DEF some
<1>6. found \in Seq(Items) /\ \A item \in ToSet(found) : item \in Items /\ item.etag = entries[item.page].etag
  <2>1. \A i \in DOMAIN some : found[i] \in Items /\ found[i].etag = entries[found[i].page].etag
    <3> SUFFICES ASSUME NEW i \in DOMAIN some PROVE found[i] \in Items /\ found[i].etag = entries[found[i].page].etag
      OBVIOUS
    <3>1. PICK p \in Pages : p = some[i]
      BY <1>5
    <3>2. entries[p].etag \in Versions /\ Behind(p).version \in Versions
      <4>1. Redirected[p] \in Pages
        BY SeedsAndWebs
      <4> QED
        BY <4>1 DEF CrawlInv, CrawlShape, PageEntry, Behind
    <3>3. found[i] = [page |-> p, etag |-> entries[p].etag, modified |-> Behind(p).version]
      BY <3>1
    <3> QED
      BY <3>2, <3>3 DEF Items
  <2>2. DOMAIN found = 1..Len(some) /\ Len(some) \in Nat
    BY <1>5
  <2>3. found = [i \in 1..Len(some) |-> found[i]]
    BY <1>5
  <2> HIDE DEF found, Items
  <2>4. found \in Seq(Items)
    BY <1>5, <2>1, <2>2, <2>3
  <2> QED
    BY <1>5, <2>1, <2>2, <2>4 DEF ToSet
<1>7. PICK li, ca, er : /\ crawl' = [crawl EXCEPT !.phase = "plan", !.frontier = <<>>, !.capped = ca, !.listed = li, !.error = er]
                        /\ ca \in BOOLEAN /\ er \in BOOLEAN /\ li \in Seq(Items)
                        /\ \A item \in ToSet(li) : \/ item \in ToSet(crawl.listed)
                                                   \/ item \in Items /\ item.etag = entries[item.page].etag
  <2> HIDE DEF found, Items
  <2>1. ASSUME crawl' = [crawl EXCEPT !.phase = "plan", !.frontier = <<>>, !.capped = Len(fresh) > MaxPages, !.listed = found]
        PROVE  crawl' = [crawl EXCEPT !.phase = "plan", !.frontier = <<>>, !.capped = Len(fresh) > MaxPages, !.listed = found, !.error = crawl.error]
    BY <1>2, <2>1 DEF CrawlType
  <2>2. ASSUME crawl' = [crawl EXCEPT !.phase = "plan", !.frontier = <<>>, !.error = TRUE]
        PROVE  crawl' = [crawl EXCEPT !.phase = "plan", !.frontier = <<>>, !.capped = crawl.capped, !.listed = crawl.listed, !.error = TRUE]
    BY <1>2, <2>2 DEF CrawlType
  <2>3. crawl.capped \in BOOLEAN /\ crawl.error \in BOOLEAN /\ crawl.listed \in Seq(Items) /\ (Len(fresh) > MaxPages) \in BOOLEAN
    BY <1>2 DEF CrawlType
  <2>4. CASE crawl' = [crawl EXCEPT !.phase = "plan", !.frontier = <<>>, !.capped = Len(fresh) > MaxPages, !.listed = found]
    BY <1>6, <2>1, <2>3, <2>4
  <2>5. CASE crawl' = [crawl EXCEPT !.phase = "plan", !.frontier = <<>>, !.error = TRUE]
    <3>1. \A item \in ToSet(crawl.listed) : item \in ToSet(crawl.listed)
      OBVIOUS
    <3>2. PICK li, ca : li = crawl.listed /\ ca = crawl.capped
      OBVIOUS
    <3>3. crawl' = [crawl EXCEPT !.phase = "plan", !.frontier = <<>>, !.capped = ca, !.listed = li, !.error = TRUE]
      BY <2>2, <2>5, <3>2
    <3>4. ca \in BOOLEAN /\ TRUE \in BOOLEAN /\ li \in Seq(Items) /\ \A item \in ToSet(li) : item \in ToSet(crawl.listed)
      BY <2>3, <3>2
    <3> QED
      BY <3>3, <3>4
  <2> QED
    BY <1>1, <2>4, <2>5
<1>8. /\ crawl' \in CrawlType /\ crawl'.phase = "plan" /\ crawl'.kind = crawl.kind /\ crawl'.listed = li
      /\ crawl'.seen = crawl.seen /\ crawl'.targets = crawl.targets /\ crawl'.results = crawl.results
      /\ crawl'.tasks = crawl.tasks /\ crawl'.outcomes = crawl.outcomes /\ crawl'.read = crawl.read /\ crawl'.took = crawl.took
      /\ crawl'.answered = crawl.answered
  <2> HIDE DEF Items
  <2>1. <<>> \in Seq(Pages)
    OBVIOUS
  <2> QED
    BY <1>2, <1>7, <2>1 DEF CrawlType
<1>9. CrawlShape' /\ InStep'
  BY <1>1, <1>2, <1>3, <1>8 DEF CrawlInv, CrawlShape, InStep
<1>10. RecordedWas' /\ AnsweredWas' /\ ProcessedIsIndexed' /\ ReadIsIndexed'
  BY <1>1, <1>8, SameSite DEF CrawlInv, AnsweredWas, ProcessedIsIndexed, ReadIsIndexed
<1>11. ListedWas'
  <2>1. \A p, v : Was(p, v)' <=> Was(p, v)
    BY <1>1, SameSite
  <2>2. ASSUME NEW item \in ToSet(li) \cup ToSet(crawl.tasks), item.page \in Marked
        PROVE  Was(item.page, item.etag) /\ item.etag >= entries[item.page].etag
    <3>1. CASE item \in ToSet(crawl.listed) \cup ToSet(crawl.tasks)
      BY <1>1, <2>2, <3>1 DEF CrawlInv, ListedWas
    <3>2. CASE item \in Items /\ item.etag = entries[item.page].etag
      <4>1. entries[item.page].etag \in Nat
        BY <3>2 DEF Items, CrawlInv, CrawlShape, Versions, PageEntry
      <4> QED
        BY <2>2, <3>2, <4>1 DEF CrawlInv, RecordedWas
    <3> QED
      BY <1>7, <2>2, <3>1, <3>2
  <2> QED
    BY <1>1, <1>2, <1>8, <2>1, <2>2, SeedsAndWebs DEF ListedWas
<1>12. Levels'
  BY <1>2, <1>8 DEF Levels, ReachIsCovered
<1> QED
  BY <1>9, <1>10, <1>11, <1>12 DEF CrawlInv

LEMMA PlanPagesKeeps == CrawlInv /\ PlanPages => CrawlInv'
<1> SUFFICES ASSUME CrawlInv, PlanPages PROVE CrawlInv'
  OBVIOUS
<1> DEFINE S == {i \in DOMAIN crawl.listed : Changed(crawl.listed[i])}
           tasks == Picked(crawl.listed, S)
           outcomes == [i \in DOMAIN tasks |-> NoOutcome]
<1>1. /\ UNCHANGED <<site, changes, entries, indexed, crawlFaults>> /\ crawl.phase = "plan"
      /\ crawl' = [crawl EXCEPT !.phase = "process", !.tasks = tasks, !.outcomes = outcomes]
  BY Zenon DEF PlanPages
<1>2. crawl \in CrawlType /\ crawl.listed \in Seq(Items)
  BY DEF CrawlInv, CrawlShape, CrawlType
<1>3. tasks \in Seq(Items) /\ ToSet(tasks) = {crawl.listed[i] : i \in S}
  <2>1. S \in SUBSET DOMAIN crawl.listed
    OBVIOUS
  <2> HIDE DEF S, Items
  <2> QED
    BY <1>2, <2>1, PickedSet
<1>4. PICK ts : ts = tasks
  OBVIOUS
<1>5. /\ ts \in Seq(Items) /\ \A item : item \in ToSet(ts) <=> item \in ToSet(crawl.listed) /\ Changed(item)
  <2>1. PICK listed : listed = crawl.listed
    OBVIOUS
  <2>2. ts \in Seq(Items) /\ ToSet(ts) = {listed[i] : i \in {j \in DOMAIN listed : Changed(listed[j])}}
    BY <1>3, <1>4, <2>1
  <2>3. ToSet(listed) = {listed[i] : i \in DOMAIN listed}
    BY DEF ToSet
  <2>4. \A item : item \in ToSet(ts) <=> item \in ToSet(listed) /\ Changed(item)
    BY <2>2, <2>3
  <2> QED
    BY <2>1, <2>2, <2>4
<1>6. PICK os : os = [i \in DOMAIN ts |-> NoOutcome]
  OBVIOUS
<1>7. os \in Seq(OutcomeType) /\ Len(os) = Len(ts) /\ \A i \in DOMAIN ts : os[i].state = "todo"
  <2>1. PICK o : o = NoOutcome
    OBVIOUS
  <2>2. o \in OutcomeType /\ o.state = "todo"
    BY <2>1, SeedsAndWebs DEF NoOutcome, OutcomeType, Versions
  <2>3. ts \in Seq(Items)
    BY <1>5
  <2> HIDE DEF OutcomeType, Items
  <2>4. os = [i \in 1..Len(ts) |-> o] /\ DOMAIN ts = 1..Len(ts) /\ Len(ts) \in Nat
    BY <1>6, <2>1, <2>3
  <2> QED
    BY <2>2, <2>4
<1>8. crawl' = [crawl EXCEPT !.phase = "process", !.tasks = ts, !.outcomes = os]
  BY <1>1, <1>4, <1>6
<1>9. /\ crawl' \in CrawlType /\ crawl'.phase = "process" /\ crawl'.kind = crawl.kind /\ crawl'.listed = crawl.listed
      /\ crawl'.seen = crawl.seen /\ crawl'.targets = crawl.targets /\ crawl'.results = crawl.results
      /\ crawl'.tasks = ts /\ crawl'.outcomes = os /\ crawl'.read = crawl.read /\ crawl'.took = crawl.took
      /\ crawl'.answered = crawl.answered /\ crawl'.robots = crawl.robots /\ crawl'.capped = crawl.capped
  <2> HIDE DEF Items, OutcomeType, tasks, outcomes
  <2> QED
    BY <1>2, <1>5, <1>7, <1>8 DEF CrawlType
<1>10. CrawlShape' /\ InStep'
  BY <1>1, <1>7, <1>9 DEF CrawlInv, CrawlShape, InStep
<1>11. RecordedWas' /\ AnsweredWas' /\ ReadIsIndexed'
  BY <1>1, <1>9, SameSite DEF CrawlInv, AnsweredWas, ReadIsIndexed
<1>12. ListedWas'
  <2>1. \A p, v : Was(p, v)' <=> Was(p, v)
    BY <1>1, SameSite
  <2> QED
    BY <1>1, <1>5, <1>9, <2>1 DEF CrawlInv, ListedWas
<1>13. ProcessedIsIndexed'
  <2>1. ASSUME NEW p \in Marked, crawl.took[p] # 0 PROVE \E i \in DOMAIN ts : ts[i].page = p
    <3>1. PICK item \in ToSet(crawl.listed) : item.page = p /\ item.etag = crawl.took[p]
      BY <1>1, <2>1 DEF CrawlInv, ListedWas, IsListed
    <3>2. item \in ToSet(crawl.listed) /\ crawl.took[p] > entries[p].etag
      BY <1>1, <2>1, <3>1 DEF CrawlInv, ListedWas
    <3>3. item.page = p /\ item.etag # 0 /\ item.etag # entries[p].etag
      <4>1. entries[p].etag \in Nat /\ crawl.took[p] \in Nat
        BY SeedsAndWebs DEF CrawlInv, CrawlShape, CrawlType, Versions, PageEntry
      <4> QED
        BY <2>1, <3>1, <3>2, <4>1
    <3>4. Changed(item)
      BY <3>3 DEF Changed, CrawlInv, RecordedWas
    <3> QED
      BY <1>5, <3>2, <3>3, <3>4 DEF ToSet
  <2> QED
    BY <1>7, <1>9, <2>1 DEF ProcessedIsIndexed
<1>14. Levels'
  BY <1>1, <1>9 DEF CrawlInv, Levels, ReachIsCovered, WithinDepth, AllowedPage
<1> QED
  BY <1>10, <1>11, <1>12, <1>13, <1>14 DEF CrawlInv

LEMMA ProcessKeeps == ASSUME CrawlInv, NEW i \in DOMAIN crawl.tasks, Process(i) PROVE CrawlInv'
<1>1. PICK task, p, entry, got :
        /\ task \in Items /\ p \in Pages
        /\ task = crawl.tasks[i] /\ p = task.page /\ entry = entries[p] /\ got = Answer(p)
  <2>1. crawl.tasks \in Seq(Items)
    BY DEF CrawlInv, CrawlShape, CrawlType
  <2>2. PICK task : task = crawl.tasks[i]
    OBVIOUS
  <2>3. task \in Items
    <3> HIDE DEF Items
    <3> QED
      BY <2>1, <2>2
  <2>4. task.page \in Pages
    BY <2>3 DEF Items
  <2>5. PICK p : p = task.page
    OBVIOUS
  <2>6. PICK entry, got : entry = entries[p] /\ got = Answer(p)
    OBVIOUS
  <2> QED
    BY <2>2, <2>3, <2>4, <2>5, <2>6
<1>2. /\ UNCHANGED <<site, changes, entries>> /\ crawl.phase = "process" /\ crawl \in CrawlType
      /\ crawl.outcomes \in Seq(OutcomeType) /\ crawl.tasks \in Seq(Items) /\ Len(crawl.outcomes) = Len(crawl.tasks)
      /\ DOMAIN crawl.outcomes = DOMAIN crawl.tasks
  <2>1. UNCHANGED <<site, changes, entries>> /\ crawl.phase = "process"
    BY DEF Process
  <2>2. crawl \in CrawlType /\ Len(crawl.outcomes) = Len(crawl.tasks)
    BY DEF CrawlInv, CrawlShape, InStep
  <2>3. PICK os \in Seq(OutcomeType), ts \in Seq(Items) : os = crawl.outcomes /\ ts = crawl.tasks
    BY <2>2 DEF CrawlType
  <2>4. DOMAIN os = 1..Len(os) /\ DOMAIN ts = 1..Len(ts)
    OBVIOUS
  <2> QED
    BY <2>1, <2>2, <2>3, <2>4
<1>3. /\ p \in Pages /\ task \in Items /\ task.etag \in Versions /\ task.modified \in Versions
      /\ entry.content \in Versions /\ entry.etag \in Versions /\ 0 \in Versions /\ Versions \subseteq Nat
  <2>1. p \in Pages /\ task \in Items /\ task.etag \in Versions /\ task.modified \in Versions
    BY <1>1 DEF Items
  <2>2. entry.content \in Versions /\ entry.etag \in Versions
    <3>1. entries \in [Pages -> PageEntry]
      BY DEF CrawlInv, CrawlShape
    <3> QED
      BY <1>1, <2>1, <3>1 DEF PageEntry
  <2>3. 0 \in Versions /\ Versions \subseteq Nat
    BY SeedsAndWebs DEF Versions
  <2> QED
    BY <2>1, <2>2, <2>3
<1>4. /\ got \in GotType
      /\ got.kind = "page" => /\ got.version = Behind(p).version /\ got.version # 0
                              /\ p \in Marked => got.version > entry.etag
      /\ got.kind = "same" => /\ got.version = entry.etag /\ Behind(p).version # 0
                              /\ p \in Marked => entry.etag = Behind(p).version
  BY <1>1, AnswerFacts
<1>5. /\ task \in ToSet(crawl.tasks)
      /\ p \in Marked => /\ Was(p, task.etag) /\ task.etag >= entry.etag /\ entry.content = entry.etag
                         /\ crawl.took[p] # 0 => Was(p, crawl.took[p]) /\ crawl.took[p] > entry.etag
  <2>1. task \in ToSet(crawl.tasks)
    BY <1>1 DEF ToSet
  <2> QED
    BY <1>1, <1>2, <2>1 DEF CrawlInv, ListedWas, RecordedWas
<1>6. PICK o \in OutcomeType :
        /\ crawl' = [crawl EXCEPT !.outcomes[i] = o] /\ o.state \in {"done", "failed"}
        /\ \/ indexed' = indexed
           \/ indexed' = [indexed EXCEPT ![p] = [live |-> TRUE, content |-> got.version]] /\ got.kind = "page"
        /\ o.state = "done" /\ p \in Marked =>
             /\ Was(p, o.etag) /\ o.etag = o.content /\ o.etag # 0
             /\ crawl.took[p] # 0 => /\ o.content >= crawl.took[p]
                                     /\ indexed'[p] = [live |-> TRUE, content |-> got.version]
                                     /\ got.version >= crawl.took[p]
  <2>1. CASE crawl' = [crawl EXCEPT !.outcomes[i] = [state |-> "failed", etag |-> 0, modified |-> 0, content |-> 0]] /\ UNCHANGED indexed
    <3>1. PICK o : o = [state |-> "failed", etag |-> 0, modified |-> 0, content |-> 0]
      OBVIOUS
    <3>2. o \in OutcomeType /\ o.state = "failed"
      BY <1>3, <3>1 DEF OutcomeType
    <3> QED
      BY <2>1, <3>1, <3>2
  <2>2. CASE /\ got.kind = "same" /\ UNCHANGED indexed
             /\ crawl' = [crawl EXCEPT !.outcomes[i] = [state |-> "done", etag |-> task.etag, modified |-> task.modified, content |-> entry.content]]
    <3>1. PICK o : o = [state |-> "done", etag |-> task.etag, modified |-> task.modified, content |-> entry.content]
      OBVIOUS
    <3>2. o \in OutcomeType /\ o.state = "done" /\ o.etag = task.etag /\ o.content = entry.content
      BY <1>3, <3>1 DEF OutcomeType
    <3>3. Behind(p).version # 0 /\ (p \in Marked => entry.etag = Behind(p).version)
      BY <1>4, <2>2
    <3>4. p \in Marked => task.etag = entry.etag
      <4>1. p \in Marked => task.etag <= entry.etag /\ task.etag >= entry.etag
        BY <1>5, <3>3 DEF Was
      <4>2. task.etag \in Nat /\ entry.etag \in Nat
        BY <1>3
      <4> QED
        BY <4>1, <4>2
    <3>5. p \in Marked => crawl.took[p] = 0
      <4>1. crawl.took[p] \in Nat /\ entry.etag \in Nat
        BY <1>2, <1>3 DEF CrawlType
      <4>2. p \in Marked /\ crawl.took[p] # 0 => crawl.took[p] <= entry.etag /\ crawl.took[p] > entry.etag
        BY <1>5, <3>3 DEF Was
      <4> QED
        BY <4>1, <4>2
    <3> QED
      BY <1>3, <1>5, <2>2, <3>1, <3>2, <3>3, <3>4, <3>5
  <2>3. CASE /\ got.kind = "page"
             /\ crawl' = [crawl EXCEPT !.outcomes[i] = [state |-> "done", etag |-> IF p \in Marked THEN got.version ELSE task.etag,
                                                        modified |-> IF Redirected[p] \in Dated THEN got.version ELSE task.modified,
                                                        content |-> got.version]]
             /\ indexed' = IF entry.state = "live" /\ entry.content = got.version THEN indexed
                           ELSE [indexed EXCEPT ![p] = [live |-> TRUE, content |-> got.version]]
    <3>1. PICK o : o = [state |-> "done", etag |-> IF p \in Marked THEN got.version ELSE task.etag,
                        modified |-> IF Redirected[p] \in Dated THEN got.version ELSE task.modified, content |-> got.version]
      OBVIOUS
    <3>2. got.version \in Versions
      BY <1>4 DEF GotType
    <3>3. /\ o \in OutcomeType /\ o.state = "done" /\ o.content = got.version
          /\ p \in Marked => o.etag = got.version
      BY <1>3, <3>1, <3>2 DEF OutcomeType
    <3>4. p \in Marked => Was(p, got.version)
      BY <1>3, <1>4, <2>3 DEF CrawlInv, RecordedWas
    <3>5. p \in Marked => indexed' = [indexed EXCEPT ![p] = [live |-> TRUE, content |-> got.version]]
      BY <1>3, <1>4, <1>5, <2>3, <3>2
    <3>6. p \in Marked /\ crawl.took[p] # 0 => got.version >= crawl.took[p]
      <4>1. crawl.took[p] \in Nat
        BY <1>2, <1>3 DEF CrawlType
      <4> QED
        BY <1>3, <1>4, <1>5, <2>3, <3>2, <4>1 DEF Was
    <3>7. indexed \in [Pages -> [live : BOOLEAN, content : Versions]]
      BY DEF CrawlInv, CrawlShape
    <3>8. p \in Marked => indexed'[p] = [live |-> TRUE, content |-> got.version]
      BY <1>3, <3>5, <3>7
    <3> QED
      BY <1>4, <2>3, <3>1, <3>3, <3>4, <3>6, <3>8
  <2> QED
    BY <1>1, <2>1, <2>2, <2>3 DEF Process
<1>7. crawlFaults' \in 0..MaxCrawlFaults
  BY SeedsAndWebs DEF Process, CrawlFault, CrawlInv, CrawlShape
<1>8. PICK os : os = [crawl.outcomes EXCEPT ![i] = o]
  OBVIOUS
<1>9. /\ os \in Seq(OutcomeType) /\ Len(os) = Len(crawl.outcomes) /\ DOMAIN os = DOMAIN crawl.outcomes
      /\ os[i] = o /\ \A j \in DOMAIN os : j # i => os[j] = crawl.outcomes[j]
  <2> HIDE DEF OutcomeType
  <2> QED
    BY <1>2, <1>6, <1>8
<1>10. crawl' = [crawl EXCEPT !.outcomes = os]
  BY <1>2, <1>6, <1>8 DEF CrawlType
<1>11. crawl' \in CrawlType /\ crawl'.outcomes = os
      /\ crawl'.phase = crawl.phase /\ crawl'.kind = crawl.kind /\ crawl'.depth = crawl.depth
      /\ crawl'.frontier = crawl.frontier /\ crawl'.seen = crawl.seen /\ crawl'.targets = crawl.targets
      /\ crawl'.robots = crawl.robots /\ crawl'.listed = crawl.listed /\ crawl'.tasks = crawl.tasks
      /\ crawl'.results = crawl.results /\ crawl'.read = crawl.read /\ crawl'.took = crawl.took
      /\ crawl'.answered = crawl.answered /\ crawl'.capped = crawl.capped
  <2> HIDE DEF OutcomeType
  <2> QED
    BY <1>2, <1>9, <1>10 DEF CrawlType
<1>12. CrawlShape' /\ InStep'
  <2>1. got.version \in Versions
    BY <1>4 DEF GotType
  <2>2. indexed \in [Pages -> [live : BOOLEAN, content : Versions]]
    BY DEF CrawlInv, CrawlShape
  <2>3. indexed' \in [Pages -> [live : BOOLEAN, content : Versions]]
    <3>1. PICK x : x = [live |-> TRUE, content |-> got.version]
      OBVIOUS
    <3>2. x \in [live : BOOLEAN, content : Versions]
      BY <2>1, <3>1
    <3>3. indexed' = indexed \/ indexed' = [indexed EXCEPT ![p] = x]
      BY <1>6, <3>1
    <3> QED
      BY <2>2, <3>2, <3>3
  <2> QED
    BY <1>2, <1>7, <1>9, <1>11, <2>3 DEF CrawlInv, CrawlShape, InStep
<1>13. RecordedWas' /\ AnsweredWas' /\ ListedWas'
  BY <1>2, <1>11, SameSite DEF CrawlInv, AnsweredWas, ListedWas
<1>14. ProcessedIsIndexed'
  <2>1. \A q, v : Was(q, v)' <=> Was(q, v)
    BY <1>2, SameSite
  <2>2. ASSUME NEW j \in DOMAIN crawl.tasks, NEW q \in Pages, q = crawl.tasks[j].page, q \in Marked, os[j].state = "done"
        PROVE  /\ Was(q, os[j].etag) /\ os[j].etag = os[j].content /\ os[j].etag # 0
               /\ crawl.took[q] # 0 => /\ os[j].content >= crawl.took[q]
                                       /\ indexed'[q].live /\ indexed'[q].content >= crawl.took[q]
    <3>1. CASE j = i
      <4>1. q = p
        BY <1>1, <2>2, <3>1
      <4> QED
        BY <1>6, <1>9, <2>2, <3>1, <4>1
    <3>2. CASE j # i
      <4>1. os[j] = crawl.outcomes[j]
        BY <1>2, <1>9, <3>2
      <4>2. /\ Was(q, os[j].etag) /\ os[j].etag = os[j].content /\ os[j].etag # 0
            /\ crawl.took[q] # 0 => /\ os[j].content >= crawl.took[q]
                                    /\ indexed[q].live /\ indexed[q].content >= crawl.took[q]
        BY <1>2, <2>2, <4>1 DEF CrawlInv, ProcessedIsIndexed
      <4>3. indexed'[q] = indexed[q] \/ (q = p /\ got.kind = "page" /\ indexed'[q] = [live |-> TRUE, content |-> got.version])
        BY <1>6 DEF CrawlInv, CrawlShape
      <4>4. got.kind = "page" /\ q = p /\ crawl.took[q] # 0 => got.version >= crawl.took[q]
        <5>1. crawl.took[q] \in Nat /\ got.version \in Nat
          BY <1>2, <1>3, <1>4 DEF CrawlType, GotType
        <5> QED
          BY <1>4, <1>5, <2>2, <5>1 DEF Was
      <4> QED
        BY <4>2, <4>3, <4>4
    <3> QED
      BY <3>1, <3>2
  <2>3. ASSUME NEW j \in DOMAIN crawl.tasks PROVE crawl.tasks[j].page \in Pages
    <3>1. crawl.tasks[j] \in Items
      <4> HIDE DEF Items
      <4> QED
        BY <1>2
    <3> QED
      BY <3>1 DEF Items
  <2> QED
    BY <1>2, <1>11, <2>1, <2>2, <2>3 DEF CrawlInv, ProcessedIsIndexed
<1>15. Levels' /\ ReadIsIndexed'
  BY <1>2, <1>11 DEF CrawlInv, Levels, ReachIsCovered, WithinDepth, AllowedPage, ReadIsIndexed
<1> QED
  BY <1>12, <1>13, <1>14, <1>15 DEF CrawlInv

LEMMA FinishCrawlKeeps == CrawlInv /\ FinishCrawl => CrawlInv'
<1> SUFFICES ASSUME CrawlInv, FinishCrawl PROVE CrawlInv'
  OBVIOUS
<1> DEFINE Done(p) == {i \in DOMAIN crawl.tasks : crawl.tasks[i].page = p /\ crawl.outcomes[i].state # "failed"}
           Latest(p) == crawl.outcomes[Max(Done(p))]
           New(p)  == [Latest(p) EXCEPT !.state = "live"]
<1>1. /\ crawl.phase = "process" /\ \A i \in DOMAIN crawl.tasks : crawl.outcomes[i].state # "todo"
      /\ entries' = [p \in Pages |-> IF p \in Missing THEN [entries[p] EXCEPT !.state = "gone"]
                                     ELSE IF Done(p) # {} THEN New(p) ELSE entries[p]]
      /\ indexed' = [p \in Pages |-> IF p \in Missing THEN [indexed[p] EXCEPT !.live = FALSE] ELSE indexed[p]]
      /\ crawl' = [crawl EXCEPT !.phase = "idle"]
      /\ UNCHANGED <<site, changes, crawlFaults>>
  BY Zenon DEF FinishCrawl
<1>2. /\ crawl \in CrawlType /\ CrawlShape
      /\ crawl.outcomes \in Seq(OutcomeType) /\ crawl.tasks \in Seq(Items) /\ Len(crawl.outcomes) = Len(crawl.tasks)
      /\ DOMAIN crawl.tasks = 1..Len(crawl.tasks) /\ Len(crawl.tasks) \in Nat
      /\ \A i \in DOMAIN crawl.tasks : crawl.tasks[i] \in Items /\ crawl.outcomes[i] \in OutcomeType
  <2>1. crawl \in CrawlType /\ CrawlShape /\ Len(crawl.outcomes) = Len(crawl.tasks)
    BY DEF CrawlInv, CrawlShape, InStep
  <2>2. crawl.outcomes \in Seq(OutcomeType) /\ crawl.tasks \in Seq(Items)
    BY <2>1 DEF CrawlType
  <2> HIDE DEF OutcomeType, Items
  <2> QED
    BY <2>1, <2>2
<1>3. /\ crawl' \in CrawlType /\ crawl'.phase = "idle" /\ crawl'.targets = crawl.targets /\ crawl'.results = crawl.results
      /\ crawl'.tasks = crawl.tasks /\ crawl'.outcomes = crawl.outcomes /\ crawl'.seen = crawl.seen
      /\ crawl'.answered = crawl.answered /\ crawl'.took = crawl.took
  BY <1>1, <1>2 DEF CrawlType
<1>4. \A p \in Pages : Done(p) # {} => /\ Max(Done(p)) \in DOMAIN crawl.tasks
                                       /\ crawl.tasks[Max(Done(p))].page = p /\ Latest(p) \in OutcomeType /\ Latest(p).state = "done"
  <2> SUFFICES ASSUME NEW p \in Pages, Done(p) # {}
               PROVE  /\ Max(Done(p)) \in DOMAIN crawl.tasks
                      /\ crawl.tasks[Max(Done(p))].page = p /\ Latest(p) \in OutcomeType /\ Latest(p).state = "done"
    OBVIOUS
  <2>1. PICK D : D = Done(p)
    OBVIOUS
  <2>2. D \in SUBSET (1..Len(crawl.tasks)) /\ D # {}
    BY <1>2, <2>1
  <2>3. IsFiniteSet(D) /\ D \in SUBSET Int
    <3>1. PICK n : n = Len(crawl.tasks)
      OBVIOUS
    <3>2. n \in Nat /\ D \in SUBSET (1..n)
      BY <1>2, <2>2, <3>1
    <3>3. IsFiniteSet(1..n) /\ 1..n \subseteq Int
      BY <3>2, FS_Interval
    <3> QED
      BY <3>2, <3>3, FS_Subset
  <2>4. Max(D) \in D
    BY <2>2, <2>3, MaxFacts
  <2>5. PICK k : k = Max(D)
    OBVIOUS
  <2>6. k \in DOMAIN crawl.tasks /\ crawl.tasks[k].page = p /\ crawl.outcomes[k].state # "failed"
    BY <2>1, <2>4, <2>5
  <2>7. crawl.outcomes[k] \in OutcomeType /\ crawl.outcomes[k].state = "done"
    <3>1. crawl.outcomes[k] \in OutcomeType /\ crawl.outcomes[k].state # "todo"
      BY <1>1, <1>2, <2>6
    <3> QED
      BY <2>6, <3>1 DEF OutcomeType
  <2> QED
    BY <2>1, <2>5, <2>6, <2>7
<1> HIDE DEF Done
<1>5. /\ entries' \in [Pages -> PageEntry]
      /\ indexed' \in [Pages -> [live : BOOLEAN, content : Versions]]
  <2>1. \A p \in Pages : Done(p) # {} => New(p) \in PageEntry
    BY <1>4 DEF OutcomeType, PageEntry
  <2>2. \A p \in Pages : entries[p] \in PageEntry
                         /\ indexed[p] \in [live : BOOLEAN, content : Versions]
    BY <1>2 DEF CrawlShape
  <2>3. \A p \in Pages : [entries[p] EXCEPT !.state = "gone"] \in PageEntry
    BY <2>2 DEF PageEntry
  <2> HIDE DEF Latest, New
  <2> QED
    BY <1>1, <2>1, <2>2, <2>3
<1>6. CrawlShape' /\ InStep'
  BY <1>1, <1>2, <1>3, <1>5 DEF CrawlInv, CrawlShape, InStep
<1>7. \A p, v : Was(p, v)' <=> Was(p, v)
  BY <1>1 DEF Was, Behind
<1>8. \A p \in Marked : Done(p) # {} =>
        /\ Was(p, Latest(p).etag) /\ Latest(p).etag = Latest(p).content /\ Latest(p).etag # 0
        /\ crawl.took[p] # 0 => /\ Latest(p).content >= crawl.took[p]
                                /\ indexed[p].live /\ indexed[p].content >= crawl.took[p]
  <2> SUFFICES ASSUME NEW p \in Marked, Done(p) # {}
               PROVE  /\ Was(p, Latest(p).etag) /\ Latest(p).etag = Latest(p).content /\ Latest(p).etag # 0
                      /\ crawl.took[p] # 0 => /\ Latest(p).content >= crawl.took[p]
                                              /\ indexed[p].live /\ indexed[p].content >= crawl.took[p]
    OBVIOUS
  <2>1. PICK k : k = Max(Done(p))
    OBVIOUS
  <2>2. k \in DOMAIN crawl.tasks /\ crawl.tasks[k].page = p /\ crawl.outcomes[k].state = "done"
    BY <1>4, <2>1, SeedsAndWebs
  <2>3. ProcessedIsIndexed
    BY DEF CrawlInv
  <2> QED
    BY <1>1, <2>1, <2>2, <2>3 DEF ProcessedIsIndexed
<1>9. RecordedWas'
  <2>1. ASSUME NEW p \in Marked
        PROVE  /\ Was(p, entries'[p].etag) /\ entries'[p].content = entries'[p].etag
               /\ entries'[p].state # "none" => entries'[p].etag # 0
               /\ entries'[p].etag = 0 => entries'[p].modified = 0
    <3>1. /\ p \in Pages /\ Was(p, entries[p].etag) /\ entries[p].content = entries[p].etag
          /\ entries[p].state # "none" => entries[p].etag # 0
          /\ entries[p].etag = 0 => entries[p].modified = 0
      BY SeedsAndWebs DEF CrawlInv, RecordedWas
    <3>2. CASE p \in Missing
      <4>1. entries[p].state = "live"
        BY <3>2 DEF Missing
      <4>2. entries'[p].etag = entries[p].etag /\ entries'[p].content = entries[p].content
        BY <1>1, <1>2, <3>1, <3>2 DEF CrawlShape, PageEntry
      <4> QED
        BY <3>1, <4>1, <4>2
    <3>3. CASE p \notin Missing /\ Done(p) # {}
      <4>1. entries'[p].etag = Latest(p).etag /\ entries'[p].content = Latest(p).content
        <5>1. entries'[p] = New(p) /\ Latest(p) \in OutcomeType
          BY <1>1, <1>4, <3>1, <3>3
        <5> HIDE DEF Latest
        <5> QED
          BY <5>1 DEF OutcomeType
      <4> HIDE DEF Latest, New
      <4> QED
        BY <1>8, <3>3, <4>1
    <3>4. CASE p \notin Missing /\ Done(p) = {}
      BY <1>1, <3>1, <3>4
    <3> QED
      BY <3>2, <3>3, <3>4
  <2> QED
    <3>1. \A p \in Pages : Was(p, Behind(p).version)'
      BY <1>1, <1>7 DEF CrawlInv, RecordedWas, Behind
    <3>2. Marked' = Marked
      BY DEF Marked
    <3> QED
      BY <1>7, <2>1, <3>1, <3>2 DEF RecordedWas
<1>10. AnsweredWas'
  <2>1. crawl'.results = <<>>
    <3>1. crawl.targets = <<>> /\ Len(crawl.results) = 0 /\ crawl.results \in Seq(GotType)
      BY <1>1, <1>2, EmptyLists DEF CrawlInv, InStep, CrawlType
    <3> HIDE DEF GotType
    <3> QED
      BY <1>3, <3>1
  <2> QED
    BY <2>1, EmptyLists DEF AnsweredWas
<1>11. ListedWas' /\ ProcessedIsIndexed' /\ Levels'
  BY <1>3 DEF ListedWas, ProcessedIsIndexed, Levels, ReachIsCovered
<1>12. ReadIsIndexed'
  <2>1. ASSUME NEW p \in Marked, crawl.took[p] # 0,
               \A i \in DOMAIN crawl.tasks : crawl.tasks[i].page = p => crawl.outcomes[i].state # "failed"
        PROVE  /\ indexed'[p].live /\ indexed'[p].content >= crawl.took[p]
               /\ entries'[p].state = "live" /\ entries'[p].content >= crawl.took[p]
    <3>1. p \in Pages /\ ListedWas /\ ProcessedIsIndexed
      BY SeedsAndWebs DEF CrawlInv
    <3>2. Done(p) # {}
      BY <1>1, <2>1, <3>1 DEF ProcessedIsIndexed, Done
    <3>3. p \notin Missing
      <4>1. PICK item \in ToSet(crawl.listed) : item.page = p
        BY <1>1, <2>1, <3>1 DEF ListedWas, IsListed
      <4> QED
        BY <4>1 DEF Missing, ListedPages, ToSet
    <3>4. entries'[p].state = "live" /\ entries'[p].content = Latest(p).content /\ indexed'[p] = indexed[p]
      <4>1. entries'[p] = New(p) /\ indexed'[p] = indexed[p] /\ Latest(p) \in OutcomeType
        BY <1>1, <1>4, <3>1, <3>2, <3>3
      <4> HIDE DEF Latest
      <4> QED
        BY <4>1 DEF OutcomeType
    <3> HIDE DEF Latest, New
    <3> QED
      BY <1>8, <2>1, <3>2, <3>4
  <2> QED
    BY <1>3, <2>1 DEF ReadIsIndexed
<1> QED
  BY <1>6, <1>9, <1>10, <1>11, <1>12 DEF CrawlInv

LEMMA CrawlNextInv == CrawlInv /\ [CrawlerNext]_crawlVars => CrawlInv'
<1> SUFFICES ASSUME CrawlInv, [CrawlerNext]_crawlVars PROVE CrawlInv'
  OBVIOUS
<1>1. ASSUME NEW p \in Pages, ChangePage(p) PROVE CrawlInv'
  BY <1>1, ChangePageKeeps
<1>2. ASSUME NEW i \in DOMAIN crawl.targets, Get(i) PROVE CrawlInv'
  BY <1>2, GetKeeps
<1>3. ASSUME NEW i \in DOMAIN crawl.tasks, Process(i) PROVE CrawlInv'
  BY <1>3, ProcessKeeps
<1>4. CASE UNCHANGED crawlVars
  <2>1. UNCHANGED <<site, changes, entries, indexed, crawl, crawlFaults>>
    BY <1>4 DEF crawlVars
  <2>2. RecordedWas' /\ \A p, v : Was(p, v)' <=> Was(p, v)
    BY <2>1, SameSite
  <2>3. CrawlShape' /\ InStep'
    BY <2>1 DEF CrawlInv, CrawlShape, InStep
  <2>4. AnsweredWas' /\ ListedWas'
    BY <2>1, <2>2 DEF CrawlInv, AnsweredWas, ListedWas
  <2>5. ProcessedIsIndexed'
    BY <2>1, <2>2 DEF CrawlInv, ProcessedIsIndexed
  <2>6. Levels'
    <3>1. WithinDepth' = WithinDepth
      BY <2>1 DEF WithinDepth, AllowedPage
    <3> QED
      BY <2>1, <3>1 DEF CrawlInv, Levels, Clicks, Allowed, AllowedPage, FromSeen, AtFrontier, ReachIsCovered
  <2>7. ReadIsIndexed'
    BY <2>1 DEF CrawlInv, ReadIsIndexed
  <2> QED
    BY <2>2, <2>3, <2>4, <2>5, <2>6, <2>7 DEF CrawlInv
<1> QED
  BY <1>1, <1>2, <1>3, <1>4, BeginCrawlKeeps, ReadRobotsKeeps, ChooseKeeps, CollectKeeps, ListSitemapKeeps, PlanPagesKeeps,
     FinishCrawlKeeps DEF CrawlerNext

(* A crawl of a website is honest (http_crawler.py): it asks for the pages within max_depth clicks
   over the links it read and for no other, short of the cap for all of them; a run hides a page
   only if no link led to it, it did not answer, or the cap was met; and what came with an ETag and
   was downloaded is indexed as it was then or newer, unless processing it failed; for any site, any
   changes to it, any failures and any number of runs. *)
THEOREM CrawlHonest == CrawlerSpec => []CrawlIsHonest
<1>1. CrawlerSpec => []CrawlInv
  BY CrawlInitInv, CrawlNextInv, PTL DEF CrawlerSpec
<1>2. CrawlInv => CrawlIsHonest
  <2> SUFFICES ASSUME CrawlInv PROVE CrawlIsHonest
    OBVIOUS
  <2>1. ASSUME crawl.phase = "process", Missing # {}
        PROVE  crawl.full /\ ~crawl.error /\ Missing \cap crawl.answered = {}
    <3>1. crawl.full /\ ~crawl.error /\ Missing \cap ListedPages = {}
      BY <2>1 DEF Missing
    <3>2. crawl.answered \subseteq ListedPages
      <4> SUFFICES ASSUME NEW p \in crawl.answered PROVE p \in ListedPages
        OBVIOUS
      <4>1. PICK item \in ToSet(crawl.listed) : item.page = p
        BY <2>1 DEF CrawlInv, ListedWas
      <4> QED
        BY <4>1 DEF ListedPages, ToSet
    <3> QED
      BY <3>1, <3>2
  <2>2. HiddenForAReason
    BY <2>1 DEF HiddenForAReason
  <2> QED
    BY <2>2 DEF CrawlInv, Levels, CrawlIsHonest
<1> QED
  BY <1>1, <1>2, PTL

(* Every state of a crawl has its type: no more than ingest_http_max_pages pages are asked for, and
   what answered was asked for. *)
THEOREM CrawlTypes == CrawlerSpec => []CrawlerTypeOK
<1>1. CrawlerSpec => []CrawlInv
  BY CrawlInitInv, CrawlNextInv, PTL DEF CrawlerSpec
<1>2. CrawlInv => CrawlerTypeOK
  <2> SUFFICES ASSUME CrawlInv PROVE CrawlerTypeOK
    OBVIOUS
  <2>1. CrawlShape /\ crawl \in CrawlType /\ crawl.answered \subseteq crawl.seen
    BY DEF CrawlInv, CrawlShape, InStep
  <2>2. Cardinality(crawl.seen) <= MaxPages
    <3>1. crawl.targets \in Seq(Pages) /\ crawl.seen \subseteq Pages
      BY <2>1 DEF CrawlType
    <3>2. Len(crawl.targets) \in Nat /\ Cardinality(crawl.seen) \in Nat
      BY <3>1, CrawlerAssumption, FS_Subset, FS_CardinalityType DEF CrawlerAssumption
    <3> QED
      BY <3>2, SeedsAndWebs DEF CrawlInv, InStep
  <2> QED
    BY <2>1, <2>2 DEF CrawlerTypeOK, CrawlShape, CrawlType
<1> QED
  BY <1>1, <1>2, PTL
=============================================================================
