----------------------------- MODULE CrashStore -----------------------------
(***************************************************************************)
(* createCrashConsistentStore of @ogp/mobile-storage, used by one app at a *)
(* time (the payer and merchant adapters run their calls one after the     *)
(* other).  One step is one awaited storage call: it succeeds, it rejects  *)
(* and changes nothing, or the process dies around it.                     *)
(*                                                                         *)
(* Generation 0 is null: an absent manifest has generation 0, and the      *)
(* absent journal is the one with both generations null, which is never    *)
(* written.  SHA-256 is taken to be injective: a manifest lists the        *)
(* payloads themselves.                                                    *)
(***************************************************************************)
EXTENDS Naturals, Sequences

CONSTANTS
  Order,          \* the components in the order of the configured layout
  Payloads,
  MaxGeneration   \* bound: generation ids that nextGeneration may return

NoPayload == "absent"
Names == {Order[i] : i \in 1..Len(Order)}
Snapshots == [Names -> Payloads]
Generations == 0..MaxGeneration
NoSnapshot == [n \in Names |-> NoPayload]

ASSUME LayoutAssumption ==
  /\ Len(Order) \in Nat \ {0}
  /\ \A i, j \in 1..Len(Order) : Order[i] = Order[j] => i = j
  /\ NoPayload \notin Payloads
  /\ MaxGeneration \in Nat

Manifest ==
  [generation: Generations, values: [Names -> Payloads \cup {NoPayload}]]
Journal == [current: Generations, pending: Generations]

NoManifest == [generation |-> 0, values |-> NoSnapshot]
NoJournal == [current |-> 0, pending |-> 0]

Steps ==
  {"idle", "recover_journal", "recover_prepared", "write_prepared",
   "write_journal", "write_component", "write_committed", "finalize_journal",
   "remove_prepared"}

VARIABLES
  prepared,     \* public: the prepared manifest
  committed,    \* public: the committed manifest
  journal,      \* protected: the journal
  stored,       \* generation -> component name -> payload
  used,         \* generation ids handed out so far
  step,         \* the storage call that the running operation awaits
  call          \* the running operation and its local variables

disk == <<prepared, committed, journal, stored>>
vars == <<disk, used, step, call>>

\* `values` is the snapshot a commit was given, `loaded` what load() found,
\* `generation` and `index` the commit's generation and next component;
\* `reply` is what the last operation to end answered.
Calls ==
  [kind: {"none", "load", "commit"}, values: Snapshots \cup {NoSnapshot},
   loaded: Snapshots \cup {NoSnapshot}, current: Generations,
   generation: Generations, index: Nat,
   reply: [answer: {"loaded", "committed", "refused", "lost"},
           values: Snapshots \cup {NoSnapshot}]]

Init ==
  /\ prepared = NoManifest
  /\ committed = NoManifest
  /\ journal = NoJournal
  /\ stored = [g \in Generations |-> NoSnapshot]
  /\ used = 0
  /\ step = "idle"
  /\ call = [kind |-> "none", values |-> NoSnapshot, loaded |-> NoSnapshot,
             current |-> 0, generation |-> 0, index |-> 0,
             reply |-> [answer |-> "lost", values |-> NoSnapshot]]

-----------------------------------------------------------------------------
\* parseManifest and parseComponent: every component is there, belongs to the
\* manifest's generation and has the manifest's digest.
Verified(m) == \A n \in Names : stored[m.generation][n] = m.values[n]

\* What load() answers.
LoadStatus ==
  CASE journal.current # 0 /\ journal.current = journal.pending -> "corrupt"
    [] committed.generation = 0 /\ journal.current # 0 -> "corrupt"
    [] /\ committed.generation = 0 /\ journal.current = 0
       /\ prepared.generation # 0 /\ journal.pending # 0
       /\ prepared.generation # journal.pending -> "corrupt"
    [] /\ committed.generation # 0
       /\ committed.generation \notin {journal.current, journal.pending}
         -> "corrupt"
    [] committed.generation # 0 /\ ~Verified(committed) -> "corrupt"
    [] OTHER -> IF committed.generation = 0 THEN "empty" ELSE "committed"

\* The snapshot that load() answers, if any.
Loaded == IF LoadStatus = "committed" THEN committed.values ELSE NoSnapshot

End(answer, values) ==
  /\ step' = "idle"
  /\ call' = [call EXCEPT !.kind = "none", !.values = NoSnapshot,
                          !.loaded = NoSnapshot, !.current = 0,
                          !.generation = 0, !.index = 0,
                          !.reply = [answer |-> answer, values |-> values]]

\* load() reads its keys.  A corrupt store, or a read that rejects, ends the
\* operation.
Begin(kind, values) ==
  /\ step = "idle"
  /\ \/ End("refused", NoSnapshot)
     \/ /\ LoadStatus # "corrupt"
        /\ step' = "recover_journal"
        /\ call' = [call EXCEPT !.kind = kind, !.values = values,
                                !.loaded = Loaded,
                                !.current = committed.generation]
  /\ UNCHANGED <<disk, used>>

BeginLoad == Begin("load", NoSnapshot)
BeginCommit(values) == used < MaxGeneration /\ Begin("commit", values)

MutantRecoveredJournal ==
  IF committed.generation = 0 THEN NoJournal
  ELSE [current |-> journal.current, pending |-> 0]

\* The journal as load() leaves it: removed, completed or rolled back.
RecoveredJournal ==
  IF committed.generation = 0 THEN NoJournal
  ELSE IF journal.pending # 0
  THEN [current |-> committed.generation, pending |-> 0]
  ELSE journal

\* Both clean-up writes of load() are best effort.
RecoverJournal ==
  /\ step = "recover_journal"
  /\ journal' \in {journal, RecoveredJournal}
  /\ step' = "recover_prepared"
  /\ UNCHANGED <<prepared, committed, stored, used, call>>

RecoverPrepared ==
  /\ step = "recover_prepared"
  /\ prepared' \in {prepared, NoManifest}
  /\ \/ call.kind = "load" /\ End("loaded", call.loaded) /\ UNCHANGED used
     \/ /\ call.kind = "commit"
        /\ used' = used + 1
        /\ step' = "write_prepared"
        /\ call' = [call EXCEPT !.generation = used + 1, !.index = 1]
  /\ UNCHANGED <<committed, journal, stored>>

NewManifest == [generation |-> call.generation, values |-> call.values]

WritePrepared ==
  /\ step = "write_prepared"
  /\ prepared' = NewManifest
  /\ step' = "write_journal"
  /\ UNCHANGED <<committed, journal, stored, used, call>>

WriteJournal ==
  /\ step = "write_journal"
  /\ journal' = [current |-> call.current, pending |-> call.generation]
  /\ step' = "write_component"
  /\ UNCHANGED <<prepared, committed, stored, used, call>>

WriteComponent ==
  /\ step = "write_component"
  /\ LET n == Order[call.index]
     IN  stored' = [stored EXCEPT ![call.generation][n] = call.values[n]]
  /\ call' = [call EXCEPT !.index = @ + 1]
  /\ step' = IF call.index = Len(Order) THEN "write_committed" ELSE step
  /\ UNCHANGED <<prepared, committed, journal, used>>

WriteCommitted ==
  /\ step = "write_committed"
  /\ committed' = NewManifest
  /\ step' = "finalize_journal"
  /\ UNCHANGED <<prepared, journal, stored, used, call>>

\* From here on a failure is clean-up that a later load completes.
FinalizeJournal ==
  /\ step = "finalize_journal"
  /\ journal' \in {journal, [current |-> call.generation, pending |-> 0]}
  /\ step' = "remove_prepared"
  /\ UNCHANGED <<prepared, committed, stored, used, call>>

RemovePrepared ==
  /\ step = "remove_prepared"
  /\ prepared' \in {prepared, NoManifest}
  /\ End("committed", NoSnapshot)
  /\ UNCHANGED <<committed, journal, stored, used>>

\* An awaited set() that commit() does not guard rejects: commit() throws.
WriteRejected ==
  /\ step \in {"write_prepared", "write_journal", "write_component",
               "write_committed"}
  /\ End("refused", NoSnapshot)
  /\ UNCHANGED <<disk, used>>

\* The process dies; what reached the disk stays there.
Crash ==
  /\ step # "idle"
  /\ End("lost", NoSnapshot)
  /\ UNCHANGED <<disk, used>>

Next ==
  \/ BeginLoad
  \/ \E v \in Snapshots : BeginCommit(v)
  \/ RecoverJournal
  \/ RecoverPrepared
  \/ WritePrepared
  \/ WriteJournal
  \/ WriteComponent
  \/ WriteCommitted
  \/ FinalizeJournal
  \/ RemovePrepared
  \/ WriteRejected
  \/ Crash

Spec == Init /\ [][Next]_vars

-----------------------------------------------------------------------------
\* Every key holds a value of its format, and generation ids are never reused.
TypeOK ==
  /\ prepared \in Manifest
  /\ committed \in Manifest
  /\ journal \in Journal
  /\ stored \in [Generations -> [Names -> Payloads \cup {NoPayload}]]
  /\ used \in Generations
  /\ step \in Steps
  /\ call \in Calls
  /\ \A g \in {prepared.generation, committed.generation, journal.current,
               journal.pending, call.current, call.generation} : g <= used

\* The store as one snapshot that is replaced at the instant the committed
\* manifest is written.
Atomic == INSTANCE AtomicSnapshot
            WITH snapshot <- Loaded,
                 request <- call.values,
                 published <- step \in {"finalize_journal", "remove_prepared"},
                 reply <- call.reply

\* ADR-0020: whatever storage call rejects and wherever the process dies, an
\* acknowledged commit has replaced the whole snapshot, a refused one nothing,
\* and a load never answers a mixture of generations or forgets a commit.
AtomicSpec == Atomic!Spec

\* ADR-0020, recovery matrix: "prepared only, or protected `pending` without
\* committed pointer" is rolled back, so a first commit that was cut short
\* never makes the store unreadable.
FirstCommitRollsBack ==
  (step = "idle" /\ committed.generation = 0 /\ journal.current = 0)
    => LoadStatus = "empty"
=============================================================================
