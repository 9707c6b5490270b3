-------------------------- MODULE PayerProvisioning --------------------------
(***************************************************************************)
(* How a payer gets a session onto a device and gets back after losing it: *)
(* provisionNewPayerSession, the recovery controller and the access gate,  *)
(* run on several devices of one wallet against one profile on the chain.  *)
(* Every awaited call is a step; it may fail, its transaction may land     *)
(* late or never, and the app may die before its answer is used.           *)
(*                                                                         *)
(* A session id stands for the three random values drawn together: the id, *)
(* the device key and the authorization nonce, so that a session's fields  *)
(* and signatures are the ones of its id.  The statuses between the end of *)
(* the session and its closing ("reconciling", "settled", "conflicted",    *)
(* "insolvent") are told apart by no step and count as "claim-window".     *)
(***************************************************************************)
EXTENDS Naturals, FiniteSets

CONSTANTS
  Devices,
  MaxSessions,  \* bound: session ids that may be drawn
  MaxFaults     \* bound: failed calls, lost transactions, stale reads, losses

ASSUME ProvisioningAssumption ==
  /\ IsFiniteSet(Devices)
  /\ MaxSessions \in Nat /\ MaxFaults \in Nat

\* Ids are interchangeable: they are numbered in the order they are drawn.
Sessions == 1..MaxSessions
NoSession == 0

VARIABLES
  profile,   \* UserProfile: active_session and offline_access_enabled
  status,    \* session id -> status of its OfflineSession account
  authorized,\* sessions whose device authorization hash is registered
  txs,       \* transactions sent and not yet processed
  drawn,     \* number of session ids drawn so far
  local,     \* device -> the material it stores
  proc,      \* device -> the running provisionNewPayerSession
  faults

chainVars == <<profile, status, authorized>>
vars == <<chainVars, txs, drawn, local, proc, faults>>

MaybeSession == Sessions \cup {NoSession}
Profile == [active: MaybeSession, access: BOOLEAN]
SessionStatus == {"none", "active", "claim-window", "closed"}

\* `public` is the committed provisioning record and branch state, `secret`
\* the protected journal and device key that belong to them.
Material == [public: MaybeSession, secret: MaybeSession]
NoMaterial == [public |-> NoSession, secret |-> NoSession]

\* `at` is the awaited call, `local` what restoreLocal found, `profile` what
\* the profile read answered, `session` the id drawn.
Steps == {"idle", "profile", "session", "create", "created", "authorize",
          "registered", "issue", "commit"}
Proc == [at: Steps, local: MaybeSession, profile: Profile, session: MaybeSession]

NewProfile == [active |-> NoSession, access |-> TRUE]
Idle == [at |-> "idle", local |-> NoSession, profile |-> NewProfile,
         session |-> NoSession]

Init ==
  /\ profile = NewProfile
  /\ status = [s \in Sessions |-> "none"]
  /\ authorized = {}
  /\ txs = {}
  /\ drawn = 0
  /\ local = [d \in Devices |-> NoMaterial]
  /\ proc = [d \in Devices |-> Idle]
  /\ faults = 0

-----------------------------------------------------------------------------
\* The crash-consistent store refuses to load or to commit when the public
\* pointer and the protected journal do not belong together.
Corrupt(m) == m.public # m.secret

\* restoreLocal: the session that the complete material restores to.
Restored(m) == IF Corrupt(m) THEN NoSession ELSE m.public

\* decideSessionAccess.  `here` is the restored local session, `authority` the
\* confirmed profile with the status of its active session.
DecideSessionAccess(connected, here, authority, sessionStatus, wallet) ==
  CASE ~connected /\ here # NoSession -> "offline-ready"
    [] ~connected /\ here = NoSession -> "online-recovery-required"
    [] connected /\ ~authority.access -> "offline-access-revoked"
    [] connected /\ authority.access /\ authority.active # NoSession ->
         IF here = authority.active /\ sessionStatus = "active"
         THEN "offline-ready" ELSE "active-session-blocks-reprovisioning"
    [] connected /\ authority.access /\ authority.active = NoSession ->
         IF wallet THEN "new-session-allowed" ELSE "wallet-authorization-required"

\* evaluatePayerRecovery without a connection, as the app's boot calls it.
OfflineReady(d) ==
  DecideSessionAccess(FALSE, Restored(local[d]), NewProfile, "none", FALSE)
    = "offline-ready"

-----------------------------------------------------------------------------
(***************************************************************************)
(* provisionNewPayerSession.                                               *)
(***************************************************************************)
Step(d, p) == proc' = [proc EXCEPT ![d] = p]

Advance(d, from, to) ==
  /\ proc[d].at = from
  /\ Step(d, [proc[d] EXCEPT !.at = to])

\* The wallet authorizes the owner; then storage.load, which throws on a
\* corrupt store.
Start(d) ==
  /\ proc[d].at = "idle"
  /\ ~Corrupt(local[d])
  /\ Step(d, [Idle EXCEPT !.at = "profile", !.local = Restored(local[d])])
  /\ UNCHANGED <<chainVars, txs, drawn, local, faults>>

\* Only "new-session-allowed" goes on; every other outcome throws.
Decided(d, authority, sessionStatus) ==
  IF DecideSessionAccess(TRUE, proc[d].local, authority, sessionStatus, TRUE)
       = "new-session-allowed"
  THEN Step(d, [proc[d] EXCEPT !.at = "create"])
  ELSE Step(d, Idle)

\* Profiles that a node behind the others may still answer with.
StaleProfiles ==
  [active: {NoSession} \cup {s \in Sessions : status[s] # "none"},
   access: {TRUE}]

\* fetchConfirmedRecovery, first read.
ReadProfile(d) ==
  /\ proc[d].at = "profile"
  /\ \E p \in {profile} \cup StaleProfiles :
       /\ p # profile => faults < MaxFaults
       /\ faults' = IF p = profile THEN faults ELSE faults + 1
       /\ IF p.active = NoSession
          THEN Decided(d, p, "none")
          ELSE Step(d, [proc[d] EXCEPT !.at = "session", !.profile = p])
  /\ UNCHANGED <<chainVars, txs, drawn, local>>

\* Second read: the session account named by the first, which is never older.
ReadSession(d) ==
  /\ proc[d].at = "session"
  /\ Decided(d, proc[d].profile, status[proc[d].profile.active])
  /\ UNCHANGED <<chainVars, txs, drawn, local, faults>>

\* Fresh entropy, then the wallet signs and sends create_offline_session.
Create(d) ==
  /\ proc[d].at = "create"
  /\ drawn < MaxSessions
  /\ drawn' = drawn + 1
  /\ txs' = txs \cup {<<"create", drawn'>>}
  /\ Step(d, [proc[d] EXCEPT !.at = "created", !.session = drawn'])
  /\ UNCHANGED <<chainVars, local, faults>>

\* confirmAndFetchSession and assertCreatedFacts.
ConfirmCreated(d) ==
  /\ Advance(d, "created", "authorize")
  /\ status[proc[d].session] = "active"
  /\ proc[d].session \notin authorized
  /\ UNCHANGED <<chainVars, txs, drawn, local, faults>>

MutantRegister(d) ==
  /\ Advance(d, "authorize", "commit")
  /\ txs' = txs \cup {<<"register", proc[d].session>>}
  /\ UNCHANGED <<chainVars, drawn, local, faults>>

\* The wallet signs the device authorization and sends its registration.
Register(d) ==
  /\ Advance(d, "authorize", "registered")
  /\ txs' = txs \cup {<<"register", proc[d].session>>}
  /\ UNCHANGED <<chainVars, drawn, local, faults>>

Registered(s) == status[s] = "active" /\ s \in authorized

\* confirmAndFetchSession, assertSameSession and the registered hash.
ConfirmRegistered(d) ==
  /\ Advance(d, "registered", "issue")
  /\ Registered(proc[d].session)
  /\ UNCHANGED <<chainVars, txs, drawn, local, faults>>

\* The issuer refetches the registered session and signs the certificate;
\* validateCertificateChain and assertCertificate hold of what it signs.
Issue(d) ==
  /\ Advance(d, "issue", "commit")
  /\ Registered(proc[d].session)
  /\ UNCHANGED <<chainVars, txs, drawn, local, faults>>

MutantCommitted(d) ==
  IF local[d] = NoMaterial
  THEN [public |-> proc[d].session, secret |-> proc[d].session] ELSE local[d]

Committed(d) == [public |-> proc[d].session, secret |-> proc[d].session]

\* persistConfirmedProvisioning replaces whatever the device held before.
Commit(d) ==
  /\ proc[d].at = "commit"
  /\ Step(d, Idle)
  /\ local' = [local EXCEPT ![d] = IF Corrupt(@) THEN @ ELSE Committed(d)]
  /\ UNCHANGED <<chainVars, txs, drawn, faults>>

\* The awaited call can only fail: no id is left to draw, the transaction
\* failed, or the session has ended meanwhile.
Hopeless(d) ==
  LET s == proc[d].session
  IN  CASE proc[d].at = "create" -> drawn = MaxSessions
        [] proc[d].at = "created" ->
             <<"create", s>> \notin txs /\ status[s] # "active"
        [] proc[d].at = "registered" ->
             \/ status[s] # "active"
             \/ <<"register", s>> \notin txs /\ s \notin authorized
        [] proc[d].at = "issue" -> status[s] # "active"
        [] OTHER -> FALSE

GiveUp(d) ==
  /\ Hopeless(d)
  /\ Step(d, Idle)
  /\ UNCHANGED <<chainVars, txs, drawn, local, faults>>

-----------------------------------------------------------------------------
(***************************************************************************)
(* Faults.                                                                 *)
(***************************************************************************)
Fault ==
  /\ faults < MaxFaults
  /\ faults' = faults + 1

\* A call fails, its answer is lost, or the app dies; a commit that was
\* running may have been published.
Fail(d) ==
  /\ Fault
  /\ proc[d].at # "idle"
  /\ Step(d, Idle)
  /\ local' \in {local} \cup
       IF proc[d].at = "commit" /\ ~Corrupt(local[d])
       THEN {[local EXCEPT ![d] = Committed(d)]} ELSE {}
  /\ UNCHANGED <<chainVars, txs, drawn>>

\* A transaction whose blockhash expires is never processed.
Drop(tx) ==
  /\ Fault
  /\ txs' = txs \ {tx}
  /\ UNCHANGED <<chainVars, drawn, local, proc>>

\* The app is reinstalled or its data cleared, the device key is lost, or the
\* public records of a device are copied here, never the protected part.
Lose(d) ==
  /\ Fault
  /\ proc[d].at = "idle"
  /\ \E m \in {NoMaterial, [local[d] EXCEPT !.secret = NoSession]}
          \cup {[local[d] EXCEPT !.public = local[e].public] : e \in Devices} :
       local' = [local EXCEPT ![d] = m]
  /\ UNCHANGED <<chainVars, txs, drawn, proc>>

-----------------------------------------------------------------------------
(***************************************************************************)
(* The chain, as in OfflineGuarantee.                                      *)
(***************************************************************************)
MutantCanCreate(s) ==
  status[s] = "none" /\ profile.access

\* The profile's checks of create_offline_session.  The pause, the identity's
\* expiry and the collateral are taken to allow it; OfflineGuarantee has them.
CanCreate(s) ==
  /\ status[s] = "none"
  /\ profile.access /\ profile.active = NoSession

\* A transaction that does not apply fails and is over.
LandCreate(s) ==
  /\ <<"create", s>> \in txs
  /\ txs' = txs \ {<<"create", s>>}
  /\ IF CanCreate(s)
     THEN /\ status' = [status EXCEPT ![s] = "active"]
          /\ profile' = [profile EXCEPT !.active = s]
     ELSE UNCHANGED <<status, profile>>
  /\ UNCHANGED <<authorized, drawn, local, proc, faults>>

LandRegister(s) ==
  /\ <<"register", s>> \in txs
  /\ txs' = txs \ {<<"register", s>>}
  /\ authorized' = authorized \cup {s}
  /\ UNCHANGED <<profile, status, drawn, local, proc, faults>>

\* Time passes, claims are submitted, the session is finalized and closed by
\* anybody; a fork found on the way revokes the profile's access.
EndSession(s) ==
  /\ status[s] = "active"
  /\ status' = [status EXCEPT ![s] = "claim-window"]
  /\ UNCHANGED <<profile, authorized, txs, drawn, local, proc, faults>>

RevokeOfflineAccess(s) ==
  /\ status[s] \in {"active", "claim-window"} /\ s \in authorized
  /\ profile' = [profile EXCEPT !.access = FALSE]
  /\ UNCHANGED <<status, authorized, txs, drawn, local, proc, faults>>

MutantCloseSession(s) ==
  /\ status[s] = "claim-window"
  /\ status' = [status EXCEPT ![s] = "closed"]
  /\ UNCHANGED <<profile, authorized, txs, drawn, local, proc, faults>>

CloseSession(s) ==
  /\ status[s] = "claim-window"
  /\ status' = [status EXCEPT ![s] = "closed"]
  /\ profile' = [profile EXCEPT !.active = NoSession]
  /\ UNCHANGED <<authorized, txs, drawn, local, proc, faults>>

-----------------------------------------------------------------------------
Provision(d) ==
  \/ ReadProfile(d)
  \/ ReadSession(d)
  \/ Create(d)
  \/ ConfirmCreated(d)
  \/ Register(d)
  \/ ConfirmRegistered(d)
  \/ Issue(d)
  \/ Commit(d)
  \/ GiveUp(d)

Chain(s) ==
  \/ LandCreate(s)
  \/ LandRegister(s)
  \/ EndSession(s)
  \/ CloseSession(s)

Next ==
  \/ \E d \in Devices : Start(d)
  \/ \E d \in Devices : Provision(d)
  \/ \E d \in Devices : Fail(d)
  \/ \E d \in Devices : Lose(d)
  \/ \E tx \in txs : Drop(tx)
  \/ \E s \in Sessions : Chain(s)
  \/ \E s \in Sessions : RevokeOfflineAccess(s)

Spec == Init /\ [][Next]_vars

\* The payer keeps trying, calls return, transactions are processed, and a
\* session is ended by time and closed by anybody who wants its claims paid.
Fairness ==
  /\ \A d \in Devices : WF_vars(Start(d)) /\ WF_vars(Provision(d))
  /\ \A s \in Sessions : WF_vars(Chain(s))

FairSpec == Spec /\ Fairness

-----------------------------------------------------------------------------
\* Accounts, transactions, stored material and local variables have their
\* shapes, and the profile names a session exactly while it is open.
ProvisioningTypeOK ==
  /\ profile \in Profile
  /\ status \in [Sessions -> SessionStatus]
  /\ authorized \subseteq Sessions
  /\ txs \subseteq {"create", "register"} \X Sessions
  /\ drawn \in 0..MaxSessions
  /\ local \in [Devices -> Material]
  /\ proc \in [Devices -> Proc]
  /\ faults \in 0..MaxFaults
  /\ \A s \in Sessions :
       status[s] \in {"active", "claim-window"} <=> profile.active = s

\* A device can pay offline only with a session that was created on the chain
\* and has this device's registered authorization, wherever provisioning was
\* cut (provisionNewPayerSession commits local material last).  The session may
\* have ended since: the gate is asked offline.
OfflineReadyIsBacked ==
  \A d \in Devices : OfflineReady(d)
    => /\ Restored(local[d]) \in authorized
       /\ status[Restored(local[d])] # "none"

\* Two devices of one wallet never hold open sessions at the same time, even
\* when both are told by stale reads that the profile is free: the collateral
\* is exposed once (ADR-0019, decisions 5 and 7).
OneOpenSession ==
  \A d, e \in Devices :
    (/\ OfflineReady(d) /\ OfflineReady(e)
     /\ status[Restored(local[d])] # "closed"
     /\ status[Restored(local[e])] # "closed") => d = e

Spendable ==
  \E d \in Devices : OfflineReady(d) /\ status[Restored(local[d])] = "active"

\* Sessions whose creation is under way although the run that sent it is over.
Orphans ==
  {s \in Sessions : /\ <<"create", s>> \in txs
                    /\ \A d \in Devices : proc[d].session # s}

\* An id is left beyond the ones that can be drawn in vain: by the runs that
\* already saw the profile free, and by one run of each device for every orphan.
IdsLeft ==
  drawn + Cardinality({d \in Devices : proc[d].at = "create"})
        + Cardinality(Devices) * Cardinality(Orphans) < MaxSessions

\* A run is overtaken by the end of the session it is provisioning.
Overtaken ==
  \E d \in Devices : /\ proc[d].session # NoSession
                     /\ status[proc[d].session] \in {"claim-window", "closed"}

\* The payer gets back: whatever was lost (an answer, a transaction, the
\* device's data, a session created and orphaned), once the last fault has
\* struck a device comes to hold an active session that it can spend, unless the
\* session ends before the run that provisions it or access is revoked.  An id
\* must be left to draw, and a device's store must load
\* (provisionNewPayerSession, decideSessionAccess).
PayerReturns ==
  (/\ faults = MaxFaults /\ IdsLeft
   /\ profile.access /\ \E d \in Devices : ~Corrupt(local[d]))
    ~> (Spendable \/ Overtaken \/ ~profile.access)
=============================================================================
