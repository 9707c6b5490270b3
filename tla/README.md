# Formal model of the Offline Guarantee Protocol

This directory holds TLA+ modules that model the on-chain program, the
crash-consistent mobile store, the payer and merchant applications with the QR
transport between them, payer provisioning and recovery, the claim relayer and the
host-side ledger and reconciliation of this repository,
TLC configurations that check them on small instances, and TLAPS proofs of the
most important safety properties for every instance. `PROJECT.json` maps each
definition to the source lines it models and lists runs, mutants, findings,
hazards and theorems.

## 1. The system

A payer locks collateral on Solana and opens a session. Offline, the payer signs
a chain of payment states; each signed state is a *credential* that a merchant
accepts by QR code. A payer that signs two successors of one state has *forked*.
Merchants (through relayers) submit credentials as claims before a deadline;
after it, anybody may freeze, classify, allocate, settle and close the session.
If the exposure `T` exceeds the locked cap `C`, every state edge gets its
pro-rata share of `C`.

| Component | State | Operations | Talks to | Correct when |
|---|---|---|---|---|
| On-chain program (`programs/offline-guarantee`) | config, payer profile, vault, sessions, claims (a sorted doubly linked list), state edges, fork records, token balances | 15 instructions; a failed one leaves no trace | relayers, payer and merchant apps (RPC) | liabilities are backed; bookkeeping does not depend on arrival order; every session closes |
| Crash-consistent store (`packages/mobile-storage`) | prepared and committed manifests, journal, components per generation | `load`, `commit`; a dozen storage calls each | payer and merchant storage adapters | a commit is atomic across crashes and rejected writes |
| Merchant app (`apps/merchant-mobile`) | durable claims and outstanding request, React state, a running synchronization | request, scan, receipt, history, synchronize, restart | store, relayer, RPC node | a request is answered once; local status never runs ahead of the chain; evidence is kept |
| Payer app (`apps/payer-mobile/App.tsx`) | durable branch state, React state, received frames | boot, scan request, authorize, show proof, scan receipt, restart | store, merchant app (QR) | what a merchant accepted survives on the payer's branch; an undelivered proof is shown again |
| Payer provisioning and recovery (`session-provisioning.ts`, `session-access.ts`, recovery files) | session material of a device, the running provisioning | authorize, read profile and session, create, register, certify, commit, recover | wallet, RPC, issuer, store | a device that is ready to pay has a session authorized on chain; one session is open; the payer gets back |
| Claim relayer (`apps/claim-relayer`) | request count, rate windows, submissions in flight | admit, time out, plan witnesses, send, confirm | RPC, merchant app (HTTP) | no success is reported that did not happen; a fresh plan is accepted; claims get through |
| Offline ledger, reconciliation (`packages/offline-ledger`, `packages/reconciliation`) | state graph (in memory) | build graph, find forks, classify, compute coverage | tools, merchant history | agrees with the program |
| QR transport (`packages/transports`) | frames received so far | encode, assemble, check a response | both apps | assembles one message, or nothing |
| Credentials, crypto, canonical codec, SDK, shared types | none | sign, verify, encode, derive, decode | all | byte layout; covered by shared vectors |

What is hard here: relayers submit in any order and choose the list witnesses;
finalization is permissionless and split over many transactions; the deadline is
a boundary between two instructions; the phone may die between any two storage
calls; a relayer's answer may be lost although its transaction lands; a
synchronization runs across awaits while the user goes on using the app; cameras
report stray and repeated codes, each of which starts its own handler; two phones of
one wallet, and nodes that lag behind, see the profile as free at the same time. The
`hazards` of `PROJECT.json` list each of these at its line.

## 2. Modules

| Module | Models | 
|---|---|
| `OfflineGuarantee` | every instruction of the on-chain program, for one payer; its type and safety invariants |
| `OfflineGuaranteeProperties` | what the incremental bookkeeping must equal, computed from the whole set of accounts; liveness; documented promises |
| `OfflineGuaranteeProofs` | types, reserve, active session and freeze of `OfflineGuarantee`, then the claim list, representatives, forks and exposure, proved; facts about sums over finite sets |
| `OfflineGuaranteeSettlementProofs` | classification, allocation, payments, the exact reserve and the record of successes, proved |
| `AtomicSnapshot` | the abstract specification of the store: one snapshot replaced at one instant |
| `CrashStore` | `createCrashConsistentStore` at the grain of one storage call, and its refinement mapping to `AtomicSnapshot` |
| `CrashStoreProofs` | the proof of that refinement |
| `MerchantApp` | the merchant app over an atomic store, a lossy submission port and the chain |
| `MerchantAppProofs` | proofs that local history never runs ahead of the chain, that a request is answered once and stays answerable |
| `ClaimRelayer` | the relayer's HTTP server and submissions, composed with `OfflineGuarantee` (EXTENDS): its transactions are the program's `SubmitClaimWith` |
| `ClaimRelayerProofs` | the proof that the composition refines the program, and of the relayer's answers and plans |
| `OfflineLedger` | what the host computes from a heap of credentials: state graph, forks, classification, coverage, local conflict warnings; EXTENDS `OfflineGuarantee`, against whose accounts it is compared |
| `OfflineLedgerProofs` | the proofs that the merchant's warnings are confirmed and that the host's reconstruction mirrors the chain |
| `QrTransport` | frames, their assembly, and what each phone checks of a message |
| `PayerApp` | the payer app over an atomic store, with the merchants that face it (EXTENDS `QrTransport`) |
| `PayerAppProofs` | the proofs about what the payer keeps and shows |
| `PayerProvisioning` | provisioning and recovery of several devices of one wallet against one profile |
| `PayerProvisioningProofs` | the proofs that a spendable session is backed and that one device at a time has one |
| `MCClaims`, `MCVault`, `MCCrashStore`, `MCMerchantApp`, `MCClaimRelayer`, `MCPayerApp`, `MCPayerProvisioning` | instances for TLC |

An operator whose name starts with `Mutant` is a plausible bug in the operator
that follows it. No specification uses it; substituting it must break the
property `PROJECT.json` names, which shows that the property depends on that code.

### OfflineGuarantee

*State.* One variable per account type, with the fields of `state.rs` that any
instruction reads: `config`, `profile`, `vault`, `session`, `claim`, `edge`,
`fork`, the three token balances and the clock `now`. Accounts of different
payers are different PDAs and share only the configuration, so one payer is the
whole system. An account that does not exist holds its default value.

*Actions.* One action is one instruction, e.g. `SubmitClaim(c)` is the whole of
`submit_claim`: the payload checks, the parent edge, the list insertion, the
representative change, fork detection and the profile's revocation. A `require!`
is a conjunct of the guard, because a failed transaction changes nothing.
`DonateTokens` is a direct SPL transfer to the vault's account, which the program
cannot prevent; `Tick` is the cluster clock.

*Data.* A state hash names the transition that hashes to it and a credential hash
names the signed wrapper (`Transition`, `Credential`), which takes SHA-256 to be
injective. Credential hashes are numbers, because the program orders them.
Signature, domain, device and payer checks are one Boolean (`authentic`) of a
credential. The relayer chooses any list witnesses; `CanInsertBetween` is what the
program accepts. `resolution_hash` is the sequence of records it commits to. Amounts
are natural numbers with `U64Max` in the guard of the only addition that can reach
it first. Events, bumps, reserved bytes and account sizes are left out.

### CrashStore and AtomicSnapshot

`step` is the storage call that the running operation awaits. Each call succeeds,
rejects (`WriteRejected`, or the best-effort branches of the clean-up writes), or
the process dies around it (`Crash`): a crash at a step is a death before its
write, a crash at the next step a death after it. A `set` that rejects is assumed
to have changed nothing, which is what the storage ports promise (ADR-0020).
Operations do not overlap: both adapters run them through `exclusive`.
Generation 0 stands for `null`; the digests in a manifest are the payloads
themselves (SHA-256 again taken to be injective).

The mapping: the snapshot is what `load` would answer, and it changes at the
instant the committed manifest is written.

### MerchantApp

Store operations wait in `pending` in the order of their calls and each replaces
the snapshot at one instant or rejects, which is what `AtomicSnapshot` promises.
`sync` holds the local variables of `synchronizeClaims` and the call that
`syncStoredClaim` awaits: first lookup, submission, confirmation, observation, and
the recheck after an ambiguous failure. Each call may fail; a relayer may have sent
a transaction whose answer is lost. `ChainStep` is the chain seen from a claim
account, with the status changes that `OfflineGuarantee` makes. `Kill` loses React
state, pending operations and the synchronization. Left out here: attempt counts and
error texts, the deadline labels; the frames of a stored proof are `PayerApp`'s and the
conflict warning is `OfflineLedger`'s.

### ClaimRelayer

`request` is what the server knows of each connection, `rate` and `concurrent` its
counters. `inflight` maps a credential to its running `#submit`: the call it awaits
and the local variables that later calls use. Every RPC read is a step, so the chain
may change between the reads of one plan: `Next` of `OfflineGuarantee` is a disjunct
of the composed next-state relation and stands for other relayers, the authorities
and the clock. `Send` runs the preflight, `Land` executes the transaction against
the program, `Drop` is a failure or an expiry. A call that rejects, a body that
cannot be used, a lost transaction and a process restart are faults; `MaxFaults`
bounds them. All error statuses but 409 CLAIM_ALREADY_EXISTS are one answer, because
no property tells them apart; stateless checks of the request (domain, hash, signature,
derived addresses) are part of `CallFails`. `Relayed` are the credentials that come
through this relayer; the others reach the chain on their own.

### OfflineLedger

Operators only; it adds no state. `BuildStateGraph` is `buildStateGraph` with its
passes: entries are visited in hash order, the nodes of a pass are parents for the
entries after them, and a pass that places nothing ends the loop. Lists that the code
sorts by content before it returns them are sets. `ReconcileSession` adds the
fixed point of conflicting children, the exposure, the commitment and the coverage;
exceptions of the code are the field `sound`. `Heap(s)` is what an auditor may hold:
every claim of the session and the credentials that could not be submitted for want
of a parent, each twice, between entries that do not encode.

### QrTransport and PayerApp

A branch is the sequence of requests paid since genesis; it stands for the hash of
its last credential too. A payload is a sequence of units (challenge, certificate,
credential) cut into frames that carry the whole payload's hash; `Assemble` is
`assemble`, and the set of frames only grows until a scan is started again. Byte
layouts and base64 are left out.

In `PayerApp` a store call waits in `queue` with the values its closure captured.
`Authorize` captures tip and request and waits for the device key; `Loaded` signs and
queues the commit; `PaymentStored` sets tip, history, frames and screen. Each call may
be refused. `Boot` restores what `restoreOnchainSession` accepts. The merchants' part
is what their phone shows and scans: `ScanCredential` up to the store update, and the
update itself, `ProofStored`, which reads the received frames only then. The store's
atomicity is what `AtomicSnapshot` promises. `overlapped` is a history variable: it
records that a payment was authorized while another one waited (see Divergences). The
development fixture mode, camera permissions and texts are left out, and a merchant
keeps its receipt on the screen.

### PayerProvisioning

`proc` is the `provisionNewPayerSession` that runs on a device: the call it awaits and
the local variables used later. The recovery port's two reads are two steps; the
first may be answered by a node that is behind. Transactions land, are lost, or fail
when the profile does not allow them. `local` is the device's material split into its
public and protected parts, because they are lost separately. The chain's part is the
profile, the status of each session and the registered authorizations, as
`OfflineGuarantee` has them; the pause, the identity's expiry and the collateral are
taken to allow a session. `MaxFaults` bounds failed calls, lost transactions, stale
reads and losses of data.

## 3. Runs

| Run | Bounds | Shows |
|---|---|---|
| `claims` | one session with cap 6 and limit 2; four payments from the genesis state, a descendant with two wrappers, one overspending credential; two merchants; times 1..4 | any order of submission, classification, allocation and settlement gives the bookkeeping of the reference definitions and of the host's reconstruction; local warnings are confirmed; every session closes, every claim ends Settled or Rejected |
| `vault` | from `Init`; two sessions one after the other, supply 5, amounts 1 and 3, `U64Max` 5, times 1..7 | the vault's balance and reserve over deposits, donations, withdrawals, pauses, reservations, releases and settlements (the payments themselves are checked in `claims`) |
| `store` | two components, two payloads, three commits | `CrashStore` implements `AtomicSnapshot` |
| `merchant` | three proofs, two requests (two proofs answer the first), two user operations waiting | requests, status and synchronizations under interleaving and kills |
| `relayer` | a payment and two wrappers of its descendant, one of them relayed; two connections, one slot, rate limit 1, one fault, no clock | answers are true and slots are counted, whatever is shared, late, lost or restarted; a plan made over several reads is one the program accepts, unless a claim came in between; the claim gets on chain |
| `payer` | two merchants whose requests fit the limit together, a request of another environment and one of the payer's own wallet; two units a frame, two frames, two waiting store calls | persistence before display, delivery, the payer's tip and what may replace a payment under interleaving, stray codes, refusals and kills |
| `provisioning` | two devices, three session ids, two faults | spendable sessions are backed, one device at a time has one, and the payer gets one again after the last fault |
| `resolution_hash`, `host_payouts`, `store_first_commit`, `merchant_evidence`, `stored_proof` | as the run of the same module | violations: see Findings |

*Why the bounds are enough.* The exposure 1+1+2+2+2 of the five edges exceeds the
cap 6 with a rounding remainder, so the same run covers sessions that are empty,
covered, forked, insolvent, and with dust handed out while the scan also meets a
rejected wrapper. The descendant's wrappers have hashes below and above the one of its
parent, so a host's pass meets one before and one after the parent. One fork suffices
for `ForkExact`'s counting, three siblings for "counted once". Two sessions are needed
for reuse of the vault and the active slot; a third repeats the second. Three
generations let a commit be cut short twice before one succeeds. `claims` starts in
the state reached by the six setup instructions its comment names; `vault` starts from
nothing. `MaxTime` is beyond every deadline. In `relayer` the second connection finds
the slot taken, or shares the submission that a timed-out one left behind. It stays
before the deadline, where submission is possible; what happens around it is the
program's, in `claims`. In `payer` two payments are enough for a second one to extend
the first, for a receipt of the first to be scanned for the second, for a bundle of
two frames to be mixed with one of another transfer, and for two store calls to
overtake a tap. In `provisioning` the third session id lets each device have held a
session that ended; two faults let a call fail on top of a lost transaction, a stale
read or a loss of data. `PayerReturns` asks for a spendable session from every state
after the last fault in which an id is left that cannot be drawn in vain (`IdsLeft`),
so it neither runs out of ids nor is met by running out of them; a fault may change
nothing, so fewer faults are covered as well. The one excuse besides a revocation is a
session that ends before its own run does (`Overtaken`), since the module has no clock
that would make a session last longer than its provisioning.

Deadlock is not checked in the on-chain runs, because time stops at `MaxTime` and a
program nobody calls stands still, nor in `provisioning`, where all devices may have
lost part of their store.

*Fairness.* `claims` assumes that time passes and that somebody keeps sending
each kind of permissionless instruction (any funded relayer can, and merchants have
the incentive). Nothing is assumed of the payer, of merchants
submitting, or of the authorities, and the protocol may be paused throughout.
`merchant` assumes that storage calls return and that network calls return or fail:
the relayer request and the confirmation have timeouts in `solana-claim-port.ts`;
for RPC lookups the platform's `fetch` is assumed to give up at some point. Each
call may fail every time.
`relayer` assumes that rate windows end, bodies arrive, RPC calls return and
transactions land or fail, and (strong fairness) that a merchant which keeps asking
is admitted at some point: `synchronizeClaims` runs again whenever the user asks.
Other relayers may submit or stay away, and faults are finitely many.
`provisioning` assumes that the payer tries again, that calls return, that sent
transactions are processed or dropped, and that a session ends with time and is closed
(which `claims` shows of the program); faults are finitely many. `payer` assumes
nothing: it checks safety only.

## 4. Proofs

`OfflineGuaranteeProofs` proves, for all sets of sessions, states, credentials and
merchants and all amounts, `Spec => []TypeOK`, `Spec => []LiabilityBacked`,
`Spec => []OneActiveSession` and `Spec => []FrozenCountersFinal`. None of the four
is inductive alone. The invariant is `SafetyInv`:

- `TypeOK` and `AccountsInOrder` (a profile that was not created has no active
  session, a vault that was not created has no reserve);
- `Lifecycle` for every session, which relates the status to the flags: nothing is
  allocated before the freeze nor settled before the allocation is complete, a
  Conflicted session has an authenticated fork, and a fork implies an edge. The
  last two are what excludes that a second `begin_finalization`, on a Conflicted
  session whose allocation is complete, takes the path for sessions without claims
  and releases the reserve of unpaid allocations. A session whose allocation is
  complete is marked insolvent exactly when its exposure exceeds its cap;
- `OneActiveSession`, needed because a second open session would share the
  reserve, `LiabilityBacked` and `FrozenCountersFinal`.

There is one lemma per shape of account update, and one step per action in the
preservation proof.

The second half of `OfflineGuaranteeProofs`, and `OfflineGuaranteeSettlementProofs`,
prove that the program's incremental bookkeeping equals definitions computed from the whole set of
accounts, for any number of claims, branches of any length and every order of
instructions. Two invariants come on top of `SafetyInv`:

- `ClaimsInv` (submission): `ListInv` says that the links of a session are the sorted
  doubly linked list of its claims; the lemma `InsertionPoint` derives from it that the
  only witnesses `insert_claim_in_order` accepts are the neighbours of the new claim, and
  `LinkBetween` that linking there keeps the list. `ExistInv` says that accounts exist in
  the order of their creation and that an edge continues its parent's balance, and that
  an unused claim account has no links (a witness with none would otherwise be accepted).
  `WrapperInv`, `ForkInv` and `ExposureInv` are the properties themselves, the last with
  the exact balance left at the end of each branch instead of the bound. From it:
  `ClaimListSorted`, `RepresentativeIsSmallest`, `ForkExact`, `ExposureExact`.
- `FinalInv` (finalization): verdicts, allocations and payments exist in this order
  (`EdgeInv`); the counters of a session count and add up the edges that reached each
  stage (`CountInv`) and a stage starts when the one before it is complete (`PhaseInv`);
  the allocation cursor is the least claim that was not scanned and all smaller ones were
  (`CursorInv`), so the number of edges allocated so far is the rank of the next one,
  and the dust rule gives the closed-form share (`ShareInv`). From it: `AllocationExact`,
  `ClassificationExact`, the action property `AllocationIsFinal`, and with the sums over
  merchants and sessions `PaymentsExact`, `ReserveExact` and `SuccessesExact`.

Most steps leave the books alone; one lemma (`StepKinds`) says which do not. Sums
and recursive definitions are unfolded by least counterexample: a set of numbers for
which a fact fails has a least member (`NatMin`), which contradicts the step below it.
The sum lemmas also need the sets to be finite, which `SetAssumption` states.

`OfflineLedgerProofs` proves what the host computes. `LocalWarningsConfirmed` follows
from the invariants above: what a bundle describes lies on the branch of its payment,
so two descriptions with one parent are two children on chain.
`ReconciliationMirrorsChain` compares two programs written apart, for any set of
credentials and any hash order, and is proved in five parts:

- *Terms.* `TermsInv` keeps what `submit_claim` checked: the terms of a session make a
  certificate that `validateCertificateChain` accepts, a claim on chain keeps to them,
  and an edge continues the parent it was accepted with. From it, `ChainDecides`: the
  host, at the parent, accepts exactly the credentials that the chain has.
- *Loops.* The host's loops are folds. `Work` puts their three operators together, so
  that one lemma shows that the recursive function behind a fold exists; `Places`,
  `Passes` and `Spreads` give its equations, and what a loop computes follows from
  the smallest set of entries for which it would be wrong.
- *Graph.* `GraphBuilt`: a pass that places nothing leaves nothing whose parent is in
  the graph, and there are more passes than credentials, so the graph ends with one
  credential for every edge on chain and refuses every credential that is not there,
  whatever order the hashes give.
- *Forks and conflicts.* The children the host counts under a parent are the ones the
  program counted (`ForkMeans`). Spreading conflicts to children either stops or adds
  an edge in every round, so it has reached every descendant of a fork when the rounds
  are over (`ConflictsFound`, against `classify_edge` through `ClassificationExact`).
- *Amounts.* The host adds over credentials and the program over edges (`SumImage`).
  Every edge is ranked among the claims and the ranks below the dust are counted
  exactly (`RankCount`, `ProRata`), so the base shares and the dust add up to the
  coverage, the host's checks of its own result never fail, and a payment on chain is
  the host's base share or one unit more (`HostCoverage`).

The unit itself may go to another merchant on the host: Findings, `host_payouts`.

`ClaimRelayerProofs` proves `RelaySpec => Spec`: the program under the relayer runs by
its own specification, so every theorem above holds in the composition. Its invariant
`RelayInv` counts the places of the server over shared, timed-out and restarted
requests, ties a "landed" result to the claim account, and says of every plan that its
session either got another claim since the list was read or still has the list, the
neighbours and the representative that the plan names. That gives `RelayTypeOK`,
`AnswersAreTrue` and `PlanFitsProgram`; the last needs that the relayer's search and
the program's check agree on a sorted list of any length (`FoundNeighbours`,
`NeighboursAccepted`). The preflight's outcome (ENABLED) is left open in these proofs:
they hold whichever way it goes.

`CrashStoreProofs` proves `Spec => AtomicSpec` for every layout, payload set and
number of generations. The invariant `StoreInv` adds to the types that a committed
manifest is verified and named by the journal, and what each step of a running
operation has already written.

`MerchantAppProofs` proves `StatusBacked`, `ChallengeAnsweredOnce` and
`WaitingIsAnswerable` for any set of credentials and challenges and any queue. For the
first, the claims of the running synchronization and of every waiting persist are backed
as well as the stored ones; chain steps preserve this because no account disappears, and
`settled` and `rejected` are terminal. For the other two, `AnswerInv` says what a queue
of waiting store operations can hold: nothing was proved for a waiting request, a
waiting proof of an answered request will find nothing outstanding, and no request waits
between two proofs of one request, the one on the screen included.

`PayerAppProofs` proves `AcceptedIsDurable`, `DeliveredMeansAccepted`,
`PendingIsShown`, `TipIsDurable` and the action property `ReplacementNeedsOverlap` for every
set of requests, every limit and every number of waiting store calls. `AlwaysInv` holds
in every state: what waiting calls carry, what the cameras have seen, that the proof is
on display exactly while it is unacknowledged, and that a snapshot saying delivered,
stored or waiting, is held by its merchant. `CarefulInv` holds while no payment was
authorized during another one's wait: every waiting payment is the stored tip or extends
it by one new request, and a waiting receipt is for the stored tip. TLC checked both
with two and with three waiting calls before they were proved.

`PayerProvisioningProofs` proves `ProvisioningTypeOK`, `OfflineReadyIsBacked` and
`OneOpenSession` for any number of devices, sessions and faults. The invariant follows
a session id from the run that drew it to the protected storage that receives it: one
run or one device has it, an authorization is registered only for an account that
exists, and a run past a check has seen what it checked.

The assumptions are those of the modules, named and evaluated by TLC in the runs:
constants have their types, the sets over which amounts are added are finite, and hashes
of sessions and payments differ. No theorem bounds the size of a set or a number.

*Only model-checked:* liveness (`SessionsClose`, `ClaimsResolve`, `SyncEnds`,
`ClaimsLand`, `PayerReturns`), which is out of the prover's reach. Every invariant and
action property of the passing runs is also a theorem. The five violations are runs of
TLC.

## 5. Findings

1. **A second `begin_finalization`** (`resolution_hash`). It accepts status
   Conflicted without looking at `allocation_complete`. A covered forked session is
   Conflicted while it is paid, so anybody may call it again: `resolution_hash` goes
   back to its seed and nothing rebuilds it (ADR-0017 says it commits to the
   allocations), and the status becomes Reconciling, where `docs/protocol.md:461`
   says CONFLICTED while full allocations settle. Payments are not affected
   (`AllocationIsFinal`, `PaymentsExact`).
2. **First commit** (`store_first_commit`). Two interrupted first commits with a
   failed clean-up between them leave a journal and a prepared manifest of different
   generations, which `load` calls corrupt; ADR-0020 promises a rollback.
3. **Lost evidence** (`merchant_evidence`). `synchronizeClaims` writes the claims it
   loaded at its start back after each network call, and erases a proof that was
   stored meanwhile.
4. **The host's representative** (`host_payouts`). `buildStateGraph` accepts the wrapper
   of an edge that it meets first after its parent. When the smaller hash comes before
   the parent's in hash order and the larger one after it, the larger one is accepted in
   the same pass and the smaller one becomes the duplicate. The program keeps the
   smaller one (`docs/protocol.md:256`), so the rounding units of
   `allocateDeterministicCoverage`, "Pure mirror of ADR-0017's authoritative on-chain
   allocation rule", go to other merchants. Everything else agrees
   (`ReconciliationMirrorsChain`).
5. **Unreadable stored proof** (`stored_proof`). `scanCredential` validates the frames it
   has and stores the ones the camera has collected when the store's turn comes. A stray
   code in between, or a scan started again, makes the stored proof unreadable, and the
   accepted payment cannot be claimed.

### Divergences seen while modelling, without a run

- *Two authorizations at once.* `authorizePayment` signs over the tip its closure
  captured and awaits the store twice; AUTORIZAR stays enabled, and Cancelar
  leaves the call under way. A second request confirmed meanwhile is signed over the
  same tip and takes the first one's place on the durable branch: an accidental fork,
  which `docs/requirements-traceability.md:38` ("Rehydrate verified final tip") and
  ADR-0020 ("concurrent UI actions cannot interleave generations") mean to exclude.
  `AcceptedIsDurable`, `PendingIsShown` and `TipIsDurable` say nothing of behaviours in
  which it happened (`~overlapped`); `ReplacementNeedsOverlap` says that it is the only
  way in which a stored payment is ever replaced.
- *Permanent loss.* A device that keeps its public records and loses the protected ones
  has a store that neither loads nor commits (`payer-crash-storage.ts:37`), so it never
  gets a session again although the profile is free; ADR-0019 says offline access is lost
  temporarily. A reinstallation that clears both is not affected (`PayerReturns`).
- *No clock at the merchant.* `docs/protocol.md:292` has the merchant reject when its
  clock is past `expires_at`; `validateMerchantResponse` reads no clock.
- *No way back from the proof.* The payer leaves the proof's screen only by a receipt; a
  merchant that concluded, or never accepted, leaves the payer unable to pay others.
- *Pause and release.* While paused, `submit_claim` is refused, but the deadline passes
  and finalization releases unclaimed reserve; `docs/architecture.md:144` says a pause
  must not unlock reserved collateral.
- *Unbounded submissions.* A 504 frees the server's place while the submission goes on
  (`Timeout`), so more than `maxConcurrent` submissions run; `docs/sprint-8-report.md:224`
  says they are capped at eight. What the server counts are requests (`RelayTypeOK`).

## 6. Not modelled, and the plan

Not modelled because they keep no state or are pure data layout: codec, crypto,
SDK decoders, shared types, configuration parsing; scripts, spikes, the H0 probe screen
and the video are not part of the running system. Legacy migration of the storage
adapters and the payer's development fixtures are left out.

Next, in this order:

1. A composition of several `MerchantApp`s with `OfflineGuarantee`: a merchant that never
   submits blocks the claims below its own.
2. `PayerApp` over `CrashStore` itself instead of the atomic snapshot.
