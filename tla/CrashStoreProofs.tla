-------------------------- MODULE CrashStoreProofs --------------------------
(***************************************************************************)
(* The crash-consistent store implements the atomic snapshot, for every    *)
(* layout and every number of commits, loads, rejected writes and crashes. *)
(***************************************************************************)
EXTENDS CrashStore, TLAPS

(***************************************************************************)
(* The inductive invariant.  At rest, a published manifest is complete on  *)
(* disk and bound by the journal.                                          *)
(***************************************************************************)
Published ==
  /\ committed.generation = 0 => committed = NoManifest /\ journal.current = 0
  /\ committed.generation # 0 =>
       /\ committed.values \in Snapshots
       /\ committed.generation \in {journal.current, journal.pending}
       /\ Verified(committed)
  /\ journal.current # 0 => journal.current # journal.pending

Recovering == {"recover_journal", "recover_prepared"}
Writing == {"write_prepared", "write_journal", "write_component",
            "write_committed"}
Cleaning == {"finalize_journal", "remove_prepared"}

\* What the running operation knows of the disk.
Running ==
  /\ call.kind = "commit" => call.values \in Snapshots
  /\ call.kind # "commit" => call.values = NoSnapshot
  /\ step = "idle" => call.kind = "none"
  /\ step \in Recovering => /\ call.kind \in {"load", "commit"}
                            /\ call.loaded = committed.values
                            /\ call.kind = "commit" => used < MaxGeneration
  /\ step \in Recovering \cup Writing => call.current = committed.generation
  /\ step \in Writing \cup Cleaning =>
       /\ call.kind = "commit"
       /\ call.generation = used
       /\ call.generation # 0
  /\ step \in Writing => call.generation > committed.generation
  /\ step \in {"write_component", "write_committed", "finalize_journal"} =>
       journal = [current |-> call.current, pending |-> call.generation]
  /\ step = "finalize_journal" => call.current # call.generation
  /\ step \in {"write_prepared", "write_journal"} => call.index = 1
  /\ step = "write_component" => call.index \in 1..Len(Order)
  /\ step = "write_component" =>
       \A i \in 1..Len(Order) : i < call.index =>
         stored[call.generation][Order[i]] = call.values[Order[i]]
  /\ step = "write_committed" =>
       \A n \in Names : stored[call.generation][n] = call.values[n]
  /\ step \in Cleaning => committed = NewManifest

StoreInv == TypeOK /\ Published /\ Running

-----------------------------------------------------------------------------
LEMMA NullTypes ==
  /\ NoSnapshot \notin Snapshots
  /\ NoSnapshot \in [Names -> Payloads \cup {NoPayload}]
  /\ Snapshots \subseteq [Names -> Payloads \cup {NoPayload}]
  /\ NoManifest \in Manifest
  /\ NoJournal \in Journal
  /\ 0 \in Generations
<1>1. 1 \in 1..Len(Order)
  BY LayoutAssumption
<1>2. Order[1] \in Names
  BY <1>1 DEF Names
<1>3. NoSnapshot[Order[1]] = NoPayload
  BY <1>2 DEF NoSnapshot
<1>4. NoSnapshot \notin Snapshots
  BY <1>2, <1>3, LayoutAssumption DEF Snapshots
<1>5. 0 \in Generations
  BY LayoutAssumption DEF Generations
<1>6. /\ NoSnapshot \in [Names -> Payloads \cup {NoPayload}]
      /\ Snapshots \subseteq [Names -> Payloads \cup {NoPayload}]
  BY DEF NoSnapshot, Snapshots
<1> QED BY <1>4, <1>5, <1>6 DEF NoManifest, Manifest, NoJournal, Journal

\* load() answers the published values, and nothing before the first commit.
LEMMA LoadedIsPublished ==
  ASSUME TypeOK, Published
  PROVE  Loaded = committed.values
<1>1. CASE committed.generation = 0
  BY <1>1 DEF Published, Loaded, LoadStatus, NoManifest
<1>2. CASE committed.generation # 0
  BY <1>2 DEF Published, Loaded, LoadStatus
<1> QED BY <1>1, <1>2

LEMMA CallTypes ==
  ASSUME TypeOK
  PROVE  /\ call.kind \in {"none", "load", "commit"}
         /\ call.values \in Snapshots \cup {NoSnapshot}
         /\ call.loaded \in Snapshots \cup {NoSnapshot}
         /\ call.current \in Generations
         /\ call.generation \in Generations
         /\ call.index \in Nat
BY DEF TypeOK, Calls

\* An ended operation leaves the disk as it is and forgets everything else.
LEMMA EndKeeps ==
  ASSUME StoreInv, NEW a \in {"loaded", "committed", "refused", "lost"},
         NEW v \in Snapshots \cup {NoSnapshot}, End(a, v)
  PROVE  /\ call' \in Calls
         /\ step' = "idle"
         /\ call'.kind = "none"
         /\ call'.values = NoSnapshot
         /\ call'.current = 0
         /\ call'.generation = 0
         /\ call'.reply = [answer |-> a, values |-> v]
<1>1. call \in Calls /\ 0 \in Generations
  BY NullTypes DEF StoreInv, TypeOK
<1> QED BY <1>1 DEF End, Calls

LEMMA EndSafe ==
  ASSUME StoreInv, NEW a \in {"loaded", "committed", "refused", "lost"},
         NEW v \in Snapshots \cup {NoSnapshot}, End(a, v),
         committed' = committed, journal' = journal, stored' = stored,
         used' = used, prepared' \in {prepared, NoManifest}
  PROVE  StoreInv'
<1>1. /\ call' \in Calls /\ step' = "idle" /\ call'.kind = "none"
      /\ call'.values = NoSnapshot /\ call'.current = 0 /\ call'.generation = 0
  BY EndKeeps
<1>2. used \in Nat
  BY LayoutAssumption DEF StoreInv, TypeOK, Generations
<1>3. prepared'.generation <= used /\ prepared' \in Manifest
  BY <1>2, NullTypes DEF StoreInv, TypeOK, NoManifest
<1>4. TypeOK'
  BY <1>1, <1>2, <1>3 DEF StoreInv, TypeOK, Steps
<1>5. Published'
  BY DEF StoreInv, Published, Verified
<1>6. Running'
  BY <1>1 DEF Running, Recovering, Writing, Cleaning
<1> QED BY <1>4, <1>5, <1>6 DEF StoreInv

LEMMA StoreInit == Init => StoreInv
<1> SUFFICES ASSUME Init PROVE StoreInv
  OBVIOUS
<1>1. call \in Calls
  BY NullTypes DEF Init, Calls
<1>2. TypeOK
  BY <1>1, NullTypes DEF Init, TypeOK, Steps, NoManifest, NoJournal
<1>3. Published
  BY DEF Init, Published, NoManifest, NoJournal
<1>4. Running
  BY DEF Init, Running, Recovering, Writing, Cleaning
<1> QED BY <1>2, <1>3, <1>4 DEF StoreInv

LEMMA BeginSafe ==
  ASSUME StoreInv, NEW kind, NEW values, Begin(kind, values),
         \/ kind = "load" /\ values = NoSnapshot
         \/ kind = "commit" /\ values \in Snapshots /\ used < MaxGeneration
  PROVE  StoreInv'
<1>1. CASE End("refused", NoSnapshot)
  BY <1>1, EndSafe DEF Begin, disk
<1>2. CASE step' = "recover_journal"
  <2>1. /\ step' = "recover_journal" /\ UNCHANGED <<disk, used>>
        /\ call' = [call EXCEPT !.kind = kind, !.values = values,
                                !.loaded = Loaded,
                                !.current = committed.generation]
    BY <1>2 DEF Begin, End
  <2>2. Loaded = committed.values
    BY LoadedIsPublished DEF StoreInv
  <2>3. Loaded \in Snapshots \cup {NoSnapshot}
    BY <2>2 DEF StoreInv, Published, NoManifest
  <2>4. call \in Calls /\ committed.generation \in Generations
    BY DEF StoreInv, TypeOK, Manifest
  <2>5. /\ call' \in Calls /\ call'.kind = kind /\ call'.values = values
        /\ call'.loaded = committed.values
        /\ call'.current = committed.generation
        /\ call'.generation = call.generation
    BY <2>1, <2>2, <2>3, <2>4 DEF Calls
  <2>6. TypeOK'
    BY <2>1, <2>5 DEF StoreInv, TypeOK, Steps, disk
  <2>7. Published'
    BY <2>1 DEF StoreInv, Published, Verified, disk
  <2>8. Running'
    BY <2>1, <2>5 DEF StoreInv, Running, Recovering, Writing, Cleaning, disk
  <2> QED BY <2>6, <2>7, <2>8 DEF StoreInv
<1> QED BY <1>1, <1>2 DEF Begin

LEMMA RecoverJournalSafe ==
  ASSUME StoreInv, RecoverJournal
  PROVE  StoreInv'
<1>1. /\ step = "recover_journal" /\ step' = "recover_prepared"
      /\ UNCHANGED <<prepared, committed, stored, used, call>>
      /\ journal' \in {journal, RecoveredJournal}
  BY DEF RecoverJournal
<1>2. committed.generation \in Generations /\ used \in Nat
  BY LayoutAssumption DEF StoreInv, TypeOK, Manifest, Generations
<1>3. /\ journal' \in Journal
      /\ journal'.current <= used /\ journal'.pending <= used
  BY <1>1, <1>2, NullTypes
     DEF StoreInv, TypeOK, RecoveredJournal, NoJournal, Journal
<1>4. TypeOK'
  BY <1>1, <1>3 DEF StoreInv, TypeOK, Steps
<1>5. Published'
  BY <1>1, <1>2 DEF StoreInv, Published, Verified, RecoveredJournal, NoJournal
<1>6. Running'
  BY <1>1 DEF StoreInv, Running, Recovering, Writing, Cleaning
<1> QED BY <1>4, <1>5, <1>6 DEF StoreInv

LEMMA RecoverPreparedSafe ==
  ASSUME StoreInv, RecoverPrepared
  PROVE  StoreInv'
<1>1. CASE call.kind = "load" /\ End("loaded", call.loaded) /\ UNCHANGED used
  BY <1>1, EndSafe, CallTypes DEF RecoverPrepared, StoreInv
<1>2. CASE call.kind # "load"
  <2>1. /\ call.kind = "commit" /\ step = "recover_prepared"
        /\ used' = used + 1 /\ step' = "write_prepared"
        /\ call' = [call EXCEPT !.generation = used + 1, !.index = 1]
        /\ prepared' \in {prepared, NoManifest}
        /\ UNCHANGED <<committed, journal, stored>>
    BY <1>2 DEF RecoverPrepared
  <2>2. used < MaxGeneration
    BY <2>1 DEF StoreInv, Running, Recovering
  <2>3. used \in Nat /\ used + 1 \in Generations
    BY <2>2, LayoutAssumption DEF StoreInv, TypeOK, Generations
  <2>4. call \in Calls
    BY DEF StoreInv, TypeOK
  <2>5. /\ call' \in Calls /\ call'.kind = "commit" /\ call'.values = call.values
        /\ call'.current = call.current /\ call'.generation = used + 1
        /\ call'.index = 1
    BY <2>1, <2>3, <2>4 DEF Calls
  <2>6. /\ prepared' \in Manifest
        /\ \A g \in {prepared'.generation, committed'.generation, journal'.current,
                     journal'.pending, call'.current, call'.generation} : g <= used'
    <3>1. /\ prepared.generation \in Nat /\ committed.generation \in Nat
          /\ journal.current \in Nat /\ journal.pending \in Nat
          /\ call.current \in Nat
      BY CallTypes DEF StoreInv, TypeOK, Manifest, Journal, Generations
    <3> QED BY <2>1, <2>3, <2>5, <3>1, NullTypes
            DEF StoreInv, TypeOK, NoManifest
  <2>7. TypeOK'
    BY <2>1, <2>3, <2>5, <2>6 DEF StoreInv, TypeOK, Steps
  <2>8. Published'
    BY <2>1 DEF StoreInv, Published, Verified
  <2>9. Running'
    <3>1. committed.generation \in Nat /\ committed.generation <= used
      BY DEF StoreInv, TypeOK, Manifest, Generations
    <3>2. 1 \in 1..Len(Order)
      BY LayoutAssumption
    <3> QED BY <2>1, <2>3, <2>5, <3>1, <3>2
            DEF StoreInv, Running, Recovering, Writing, Cleaning
  <2> QED BY <2>7, <2>8, <2>9 DEF StoreInv
<1> QED BY <1>1, <1>2 DEF RecoverPrepared

LEMMA NewManifestType ==
  ASSUME StoreInv, step \in Writing
  PROVE  /\ NewManifest \in Manifest
         /\ NewManifest.generation = call.generation
         /\ NewManifest.values = call.values
         /\ call.values \in Snapshots
         /\ call.generation <= used
<1>1. call.values \in Snapshots /\ call.generation \in Generations
  BY CallTypes DEF StoreInv, Running
<1>2. call.values \in [Names -> Payloads \cup {NoPayload}]
  BY <1>1, NullTypes
<1>3. call.generation <= used
  BY DEF StoreInv, TypeOK
<1> QED BY <1>1, <1>2, <1>3 DEF NewManifest, Manifest

LEMMA WritePreparedSafe ==
  ASSUME StoreInv, WritePrepared
  PROVE  StoreInv'
<1>1. step \in Writing
  BY DEF WritePrepared, Writing
<1>2. TypeOK'
  BY <1>1, NewManifestType DEF StoreInv, TypeOK, WritePrepared, Steps
<1>3. Published'
  BY DEF StoreInv, Published, Verified, WritePrepared
<1>4. Running'
  BY DEF StoreInv, Running, WritePrepared, Recovering, Writing, Cleaning
<1> QED BY <1>2, <1>3, <1>4 DEF StoreInv

LEMMA WriteJournalSafe ==
  ASSUME StoreInv, WriteJournal
  PROVE  StoreInv'
<1>1. /\ step = "write_journal" /\ step' = "write_component"
      /\ journal' = [current |-> call.current, pending |-> call.generation]
      /\ UNCHANGED <<prepared, committed, stored, used, call>>
  BY DEF WriteJournal
<1>2. /\ call.current \in Generations /\ call.generation \in Generations
      /\ call.current <= used /\ call.generation <= used
  BY CallTypes DEF StoreInv, TypeOK
<1>3. /\ call.current = committed.generation
      /\ call.generation > committed.generation
      /\ call.generation # 0
  BY <1>1 DEF StoreInv, Running, Writing
<1>4. TypeOK'
  BY <1>1, <1>2 DEF StoreInv, TypeOK, Journal, Steps
<1>5. Published'
  <2>1. call.current # call.generation
    BY <1>2, <1>3 DEF Generations
  <2> QED BY <1>1, <1>3, <2>1 DEF StoreInv, Published, Verified
<1>6. Running'
  <2>1. call.index \in 1..Len(Order)
    BY <1>1, LayoutAssumption DEF StoreInv, Running
  <2>2. \A i \in 1..Len(Order) : i < call.index =>
          stored[call.generation][Order[i]] = call.values[Order[i]]
    <3>1. call.index = 1
      BY <1>1 DEF StoreInv, Running
    <3> QED BY <3>1, LayoutAssumption
  <2> QED BY <1>1, <1>3, <2>1, <2>2
          DEF StoreInv, Running, Recovering, Writing, Cleaning
<1> QED BY <1>4, <1>5, <1>6 DEF StoreInv

LEMMA WriteComponentSafe ==
  ASSUME StoreInv, WriteComponent
  PROVE  StoreInv'
<1> DEFINE g == call.generation
           n == Order[call.index]
<1>1. /\ step = "write_component"
      /\ stored' = [stored EXCEPT ![g][n] = call.values[n]]
      /\ call' = [call EXCEPT !.index = @ + 1]
      /\ step' = IF call.index = Len(Order) THEN "write_committed" ELSE step
      /\ UNCHANGED <<prepared, committed, journal, used>>
  BY DEF WriteComponent
<1>2. /\ call.index \in 1..Len(Order)
      /\ call.values \in Snapshots
      /\ g > committed.generation
      /\ \A i \in 1..Len(Order) : i < call.index =>
           stored[g][Order[i]] = call.values[Order[i]]
  BY <1>1 DEF StoreInv, Running, Writing
<1>3. n \in Names /\ g \in Generations /\ committed.generation \in Generations
  BY <1>2, CallTypes DEF StoreInv, TypeOK, Manifest, Names
<1>4. call.values[n] \in Payloads
  BY <1>2, <1>3 DEF Snapshots
<1>5. stored \in [Generations -> [Names -> Payloads \cup {NoPayload}]]
  BY DEF StoreInv, TypeOK
<1>6. /\ stored' \in [Generations -> [Names -> Payloads \cup {NoPayload}]]
      /\ stored'[g][n] = call.values[n]
      /\ \A m \in Names : m # n => stored'[g][m] = stored[g][m]
      /\ \A h \in Generations : h # g => stored'[h] = stored[h]
  BY <1>1, <1>3, <1>4, <1>5
<1>7. call \in Calls /\ call.index \in Nat /\ call.index + 1 \in Nat
  BY CallTypes DEF StoreInv, TypeOK
<1>8. /\ call' \in Calls /\ call'.kind = call.kind /\ call'.values = call.values
      /\ call'.current = call.current /\ call'.generation = g
      /\ call'.index = call.index + 1
  BY <1>1, <1>7 DEF Calls
<1>9. TypeOK'
  BY <1>1, <1>6, <1>8 DEF StoreInv, TypeOK, Steps
<1>10. Published'
  <2>1. committed.generation # g
    BY <1>2, <1>3 DEF Generations
  <2>2. stored'[committed.generation] = stored[committed.generation]
    BY <1>3, <1>6, <2>1
  <2> QED BY <1>1, <2>2 DEF StoreInv, Published, Verified
<1>11. \A i \in 1..Len(Order) : i < call.index + 1 =>
         stored'[g][Order[i]] = call.values[Order[i]]
  <2> SUFFICES ASSUME NEW i \in 1..Len(Order), i < call.index + 1
               PROVE  stored'[g][Order[i]] = call.values[Order[i]]
    OBVIOUS
  <2>1. Order[i] \in Names
    BY DEF Names
  <2>2. CASE i = call.index
    BY <1>6, <2>2
  <2>3. CASE i # call.index
    <3>1. i < call.index
      BY <1>7, <2>3, LayoutAssumption
    <3>2. Order[i] # n
      BY <1>2, <2>3, LayoutAssumption
    <3> QED BY <1>2, <1>6, <2>1, <3>1, <3>2
  <2> QED BY <2>2, <2>3
<1>12. CASE call.index = Len(Order)
  <2>1. \A m \in Names : stored'[g][m] = call.values[m]
    <3> SUFFICES ASSUME NEW m \in Names PROVE stored'[g][m] = call.values[m]
      OBVIOUS
    <3>1. PICK i \in 1..Len(Order) : m = Order[i]
      BY DEF Names
    <3>2. i < call.index + 1
      BY <1>12, LayoutAssumption
    <3> QED BY <1>11, <3>1, <3>2
  <2>2. Running'
    BY <1>1, <1>8, <1>12, <2>1
       DEF StoreInv, Running, Recovering, Writing, Cleaning
  <2> QED BY <1>9, <1>10, <2>2 DEF StoreInv
<1>13. CASE call.index # Len(Order)
  <2>1. call.index + 1 \in 1..Len(Order)
    BY <1>2, <1>7, <1>13, LayoutAssumption
  <2>2. Running'
    BY <1>1, <1>8, <1>11, <1>13, <2>1
       DEF StoreInv, Running, Recovering, Writing, Cleaning
  <2> QED BY <1>9, <1>10, <2>2 DEF StoreInv
<1> QED BY <1>12, <1>13

LEMMA WriteCommittedSafe ==
  ASSUME StoreInv, WriteCommitted
  PROVE  StoreInv'
<1>1. /\ step = "write_committed" /\ step' = "finalize_journal"
      /\ committed' = NewManifest
      /\ UNCHANGED <<prepared, journal, stored, used, call>>
  BY DEF WriteCommitted
<1>2. step \in Writing
  BY <1>1 DEF Writing
<1>3. /\ call.generation # 0 /\ call.generation > committed.generation
      /\ call.current = committed.generation
      /\ journal = [current |-> call.current, pending |-> call.generation]
      /\ \A n \in Names : stored[call.generation][n] = call.values[n]
  BY <1>1 DEF StoreInv, Running, Writing
<1>4. TypeOK'
  BY <1>1, <1>2, NewManifestType DEF StoreInv, TypeOK, Steps
<1>5. call.current # call.generation
  BY <1>3, CallTypes DEF StoreInv, Generations
<1>6. Published'
  BY <1>1, <1>2, <1>3, <1>5, NewManifestType DEF Published, Verified
<1>7. Running'
  BY <1>1, <1>3, <1>5
     DEF StoreInv, Running, Recovering, Writing, Cleaning, NewManifest
<1> QED BY <1>4, <1>6, <1>7 DEF StoreInv

LEMMA FinalizeJournalSafe ==
  ASSUME StoreInv, FinalizeJournal
  PROVE  StoreInv'
<1>1. /\ step = "finalize_journal" /\ step' = "remove_prepared"
      /\ journal' \in {journal, [current |-> call.generation, pending |-> 0]}
      /\ UNCHANGED <<prepared, committed, stored, used, call>>
  BY DEF FinalizeJournal
<1>2. /\ committed = NewManifest /\ call.generation # 0
      /\ committed.generation = call.generation
  BY <1>1 DEF StoreInv, Running, Cleaning, NewManifest
<1>3. call.generation \in Generations /\ call.generation <= used /\ used \in Nat
  BY CallTypes, LayoutAssumption DEF StoreInv, TypeOK, Generations
<1>4. /\ journal' \in Journal
      /\ journal'.current <= used /\ journal'.pending <= used
  BY <1>1, <1>3, NullTypes DEF StoreInv, TypeOK, Journal
<1>5. TypeOK'
  BY <1>1, <1>4 DEF StoreInv, TypeOK, Steps
<1>6. Published'
  BY <1>1, <1>2 DEF StoreInv, Published, Verified
<1>7. Running'
  BY <1>1 DEF StoreInv, Running, Recovering, Writing, Cleaning, NewManifest
<1> QED BY <1>5, <1>6, <1>7 DEF StoreInv

LEMMA StoreStep == StoreInv /\ [Next]_vars => StoreInv'
<1> SUFFICES ASSUME StoreInv, [Next]_vars PROVE StoreInv'
  OBVIOUS
<1>1. CASE BeginLoad
  BY <1>1, BeginSafe DEF BeginLoad
<1>2. ASSUME NEW v \in Snapshots, BeginCommit(v) PROVE StoreInv'
  BY <1>2, BeginSafe DEF BeginCommit
<1>3. CASE RecoverJournal
  BY <1>3, RecoverJournalSafe
<1>4. CASE RecoverPrepared
  BY <1>4, RecoverPreparedSafe
<1>5. CASE WritePrepared
  BY <1>5, WritePreparedSafe
<1>6. CASE WriteJournal
  BY <1>6, WriteJournalSafe
<1>7. CASE WriteComponent
  BY <1>7, WriteComponentSafe
<1>8. CASE WriteCommitted
  BY <1>8, WriteCommittedSafe
<1>9. CASE FinalizeJournal
  BY <1>9, FinalizeJournalSafe
<1>10. CASE RemovePrepared
  BY <1>10, EndSafe DEF RemovePrepared
<1>11. CASE WriteRejected
  BY <1>11, EndSafe DEF WriteRejected, disk
<1>12. CASE Crash
  BY <1>12, EndSafe DEF Crash, disk
<1>13. CASE UNCHANGED vars
  <2>1. TypeOK'
    BY <1>13 DEF vars, disk, StoreInv, TypeOK
  <2>2. Published'
    BY <1>13 DEF vars, disk, StoreInv, Published, Verified
  <2>3. Running'
    BY <1>13 DEF vars, disk, StoreInv, Running, NewManifest
  <2> QED BY <2>1, <2>2, <2>3 DEF StoreInv
<1> QED BY <1>1, <1>2, <1>3, <1>4, <1>5, <1>6, <1>7, <1>8, <1>9, <1>10, <1>11,
           <1>12, <1>13 DEF Next

LEMMA StoreInvariant == Spec => []StoreInv
BY StoreInit, StoreStep, PTL DEF Spec

-----------------------------------------------------------------------------
(***************************************************************************)
(* The refinement: the write of the committed manifest publishes, every    *)
(* other step is a stutter of the snapshot.                                *)
(***************************************************************************)
LEMMA SnapshotIsPublished == StoreInv => Loaded = committed.values
BY LoadedIsPublished DEF StoreInv

LEMMA SnapshotIsPublishedNext == StoreInv' => Loaded' = committed'.values
<1>1. CASE committed'.generation = 0
  BY <1>1 DEF StoreInv, Published, Loaded, LoadStatus, NoManifest
<1>2. CASE committed'.generation # 0
  BY <1>2 DEF StoreInv, Published, Loaded, LoadStatus
<1> QED BY <1>1, <1>2

\* The published values, and so the abstract snapshot, stay as they are.
LEMMA SnapshotKept ==
  ASSUME StoreInv, StoreInv', committed' = committed
  PROVE  Loaded' = Loaded
BY SnapshotIsPublished, SnapshotIsPublishedNext

LEMMA AtomicInit == Init => Atomic!Init
<1> SUFFICES ASSUME Init PROVE Atomic!Init
  OBVIOUS
<1>1. Loaded = NoSnapshot
  <2>1. StoreInv
    BY StoreInit
  <2> QED BY <2>1, SnapshotIsPublished DEF Init, NoManifest
<1> QED BY <1>1 DEF Init, Atomic!Init, Atomic!Answer

\* A step that keeps the snapshot, the request and the reply is a stutter.
LEMMA Stutter ==
  ASSUME StoreInv, StoreInv', committed' = committed,
         call'.values = call.values, call'.reply = call.reply,
         (step' \in Cleaning) <=> (step \in Cleaning)
  PROVE  UNCHANGED Atomic!vars
BY SnapshotKept DEF Atomic!vars, Cleaning

\* The end of a load, whatever it answers.
LEMMA LoadEnds ==
  ASSUME StoreInv, StoreInv', committed' = committed, call.values = NoSnapshot,
         step \notin Cleaning, NEW a, NEW v, End(a, v),
         \/ a = "loaded" /\ v = Loaded
         \/ a \in {"refused", "lost"} /\ v = NoSnapshot
  PROVE  Atomic!Next
<1>1. Loaded' = Loaded
  BY SnapshotKept
<1>2. /\ step' = "idle" /\ call'.values = NoSnapshot
      /\ call'.reply = [answer |-> a, values |-> v]
  BY DEF End, StoreInv, TypeOK, Calls
<1>3. Atomic!Load
  BY <1>1, <1>2 DEF Atomic!Load, Atomic!Answer, Cleaning
<1> QED BY <1>3 DEF Atomic!Next

\* The end of a commit: acknowledged once published, refused before.
LEMMA CommitEnds ==
  ASSUME StoreInv, StoreInv', committed' = committed, call.kind = "commit",
         NEW a \in {"committed", "refused", "lost"}, End(a, NoSnapshot),
         a = "committed" => step \in Cleaning,
         a = "refused" => step \notin Cleaning
  PROVE  Atomic!Next
<1>1. Loaded' = Loaded
  BY SnapshotKept
<1>2. /\ step' = "idle" /\ call'.values = NoSnapshot
      /\ call'.reply = [answer |-> a, values |-> NoSnapshot]
  BY DEF End, StoreInv, TypeOK, Calls
<1>3. call.values # NoSnapshot
  BY NullTypes DEF StoreInv, Running
<1>4. Atomic!EndCommit(a)
  BY <1>1, <1>2, <1>3 DEF Atomic!EndCommit, Atomic!Answer, Cleaning
<1> QED BY <1>4 DEF Atomic!Next

LEMMA AtomicStep ==
  StoreInv /\ StoreInv' /\ [Next]_vars => [Atomic!Next]_(Atomic!vars)
<1> SUFFICES ASSUME StoreInv, StoreInv', [Next]_vars
             PROVE  Atomic!Next \/ UNCHANGED Atomic!vars
  OBVIOUS
<1>1. call \in Calls
  BY DEF StoreInv, TypeOK
<1>2. step = "idle" => call.values = NoSnapshot
  BY DEF StoreInv, Running
<1>3. CASE BeginLoad
  <2>1. CASE End("refused", NoSnapshot)
    BY <1>2, <1>3, <2>1, LoadEnds DEF BeginLoad, Begin, disk, Cleaning
  <2>2. CASE step' = "recover_journal"
    BY <1>1, <1>2, <1>3, <2>2, Stutter DEF BeginLoad, Begin, End, disk, Cleaning, Calls
  <2> QED BY <2>1, <2>2, <1>3 DEF BeginLoad, Begin
<1>4. ASSUME NEW v \in Snapshots, BeginCommit(v)
      PROVE  Atomic!Next \/ UNCHANGED Atomic!vars
  <2>1. CASE End("refused", NoSnapshot)
    BY <1>2, <1>4, <2>1, LoadEnds DEF BeginCommit, Begin, disk, Cleaning
  <2>2. CASE step' = "recover_journal"
    <3>1. /\ committed' = committed /\ call'.values = v
          /\ call'.reply = call.reply /\ step = "idle"
          /\ step' = "recover_journal"
      BY <1>1, <1>4, <2>2 DEF BeginCommit, Begin, End, disk, Calls
    <3>2. Loaded' = Loaded
      BY <3>1, SnapshotKept
    <3>3. Atomic!BeginCommit(v)
      BY <1>2, <3>1, <3>2 DEF Atomic!BeginCommit, Cleaning
    <3> QED BY <3>3 DEF Atomic!Next
  <2> QED BY <2>1, <2>2, <1>4 DEF BeginCommit, Begin
<1>5. CASE RecoverJournal
  BY <1>5, Stutter DEF RecoverJournal, Cleaning
<1>6. CASE RecoverPrepared
  <2>1. CASE call.kind = "load"
    <3>1. /\ call.values = NoSnapshot /\ call.loaded = committed.values
          /\ step = "recover_prepared"
      BY <1>6, <2>1 DEF RecoverPrepared, StoreInv, Running, Recovering
    <3>2. call.loaded = Loaded
      BY <3>1, SnapshotIsPublished
    <3>3. End("loaded", call.loaded) /\ committed' = committed
      BY <1>6, <2>1 DEF RecoverPrepared
    <3> QED BY <3>1, <3>2, <3>3, LoadEnds DEF Cleaning
  <2>2. CASE call.kind # "load"
    BY <1>1, <1>6, <2>2, Stutter DEF RecoverPrepared, Cleaning, Calls
  <2> QED BY <2>1, <2>2
<1>7. CASE WritePrepared
  BY <1>7, Stutter DEF WritePrepared, Cleaning
<1>8. CASE WriteJournal
  BY <1>8, Stutter DEF WriteJournal, Cleaning
<1>9. CASE WriteComponent
  BY <1>1, <1>9, Stutter DEF WriteComponent, Cleaning, Calls
<1>10. CASE WriteCommitted
  <2>1. /\ step = "write_committed" /\ step' = "finalize_journal"
        /\ committed' = NewManifest /\ call' = call
    BY <1>10 DEF WriteCommitted
  <2>2. call.values \in Snapshots
    BY <2>1 DEF StoreInv, Running, Writing
  <2>3. Loaded' = call.values
    BY <2>1, SnapshotIsPublishedNext DEF NewManifest
  <2>4. Atomic!Publish
    BY <2>1, <2>2, <2>3, NullTypes DEF Atomic!Publish
  <2> QED BY <2>4 DEF Atomic!Next
<1>11. CASE FinalizeJournal
  BY <1>11, Stutter DEF FinalizeJournal, Cleaning
<1>12. CASE RemovePrepared
  <2>1. call.kind = "commit" /\ step \in Cleaning
    BY <1>12 DEF RemovePrepared, StoreInv, Running, Cleaning
  <2> QED BY <1>12, <2>1, CommitEnds DEF RemovePrepared
<1>13. CASE WriteRejected
  <2>1. call.kind = "commit" /\ step \notin Cleaning
    BY <1>13 DEF WriteRejected, StoreInv, Running, Writing, Cleaning
  <2> QED BY <1>13, <2>1, CommitEnds DEF WriteRejected, disk
<1>14. CASE Crash
  <2>1. CASE call.kind = "commit"
    BY <1>14, <2>1, CommitEnds DEF Crash, disk
  <2>2. CASE call.kind # "commit"
    <3>1. call.values = NoSnapshot /\ step \notin Cleaning
      BY <2>2 DEF StoreInv, Running, Cleaning
    <3> QED BY <1>14, <3>1, LoadEnds DEF Crash, disk
  <2> QED BY <2>1, <2>2
<1>15. CASE UNCHANGED vars
  BY <1>15, Stutter DEF vars, disk
<1> QED BY <1>3, <1>4, <1>5, <1>6, <1>7, <1>8, <1>9, <1>10, <1>11, <1>12, <1>13,
           <1>14, <1>15 DEF Next

\* For every layout and any number of commits, loads, rejected writes and
\* crashes, the store behaves as one snapshot that a commit replaces at one
\* instant (ADR-0020): acknowledged means replaced, refused means unchanged.
THEOREM CommitIsAtomic == Spec => AtomicSpec
<1>1. Spec => []StoreInv
  BY StoreInvariant
<1>2. Init => Atomic!Init
  BY AtomicInit
<1>3. StoreInv /\ StoreInv' /\ [Next]_vars => [Atomic!Next]_(Atomic!vars)
  BY AtomicStep
<1> QED BY <1>1, <1>2, <1>3, PTL DEF Spec, AtomicSpec, Atomic!Spec

\* Every key of the store holds a value of its format, and no record names a
\* generation that nextGeneration has not handed out.
THEOREM StoreTypeCorrect == Spec => []TypeOK
<1>1. StoreInv => TypeOK
  BY DEF StoreInv
<1> QED BY <1>1, StoreInvariant, PTL
=============================================================================
