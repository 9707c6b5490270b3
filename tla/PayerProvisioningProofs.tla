----------------------- MODULE PayerProvisioningProofs -----------------------
(***************************************************************************)
(* What a device may pay with is on the chain, and only one device at a    *)
(* time holds an open session, for any number of devices, sessions and     *)
(* faults.  Neither property is inductive: provisioning carries a session  *)
(* from the draw of its id to the commit, and the protected part of the    *)
(* material outlives the public part and the other way round.  The         *)
(* invariant follows a session id through the run that drew it and the     *)
(* protected storage that receives it, and says that one device has it.    *)
(***************************************************************************)
EXTENDS PayerProvisioning, TLAPS

\* The steps after the id is drawn, after the account was seen on the chain,
\* and after the registered authorization was seen.
HasSession == {"created", "authorize", "registered", "issue", "commit"}
SawAccount == {"authorize", "registered", "issue", "commit"}
SawRegistration == {"issue", "commit"}

\* A drawn id belongs to the run that drew it or to the device that stored it.
ProcInv(d) ==
  /\ proc[d].session # NoSession <=> proc[d].at \in HasSession
  /\ proc[d].session <= drawn
  /\ proc[d].at \in SawAccount => status[proc[d].session] # "none"
  /\ proc[d].at \in SawRegistration => proc[d].session \in authorized

LocalInv(d) ==
  /\ local[d].secret <= drawn
  /\ local[d].secret # NoSession => local[d].secret \in authorized

OneHolder ==
  \A d, e \in Devices :
    /\ proc[d].session # NoSession /\ proc[d].session = proc[e].session => d = e
    /\ local[d].secret # NoSession /\ local[d].secret = local[e].secret => d = e
    /\ local[d].secret # NoSession => local[d].secret # proc[e].session

RegisteredExists ==
  /\ \A s \in authorized : status[s] # "none"
  /\ \A s \in Sessions : <<"register", s>> \in txs => status[s] # "none"

ProvisioningInv ==
  /\ ProvisioningTypeOK
  /\ \A d \in Devices : ProcInv(d) /\ LocalInv(d)
  /\ OneHolder
  /\ RegisteredExists

-----------------------------------------------------------------------------
LEMMA SessionsAreNumbers ==
  /\ Sessions \subseteq Nat
  /\ NoSession \in Nat /\ NoSession \notin Sessions
  /\ MaybeSession \subseteq Nat
  /\ \A s \in Sessions : s >= 1
BY ProvisioningAssumption DEF Sessions, NoSession, MaybeSession

LEMMA IdleProc ==
  /\ NewProfile \in Profile
  /\ Idle \in Proc /\ Idle.session = NoSession /\ Idle.at = "idle"
  /\ NoMaterial \in Material
BY DEF NewProfile, Profile, Idle, Proc, Steps, MaybeSession, NoMaterial, Material

LEMMA ProvisioningInit == Init => ProvisioningInv
<1> SUFFICES ASSUME Init PROVE ProvisioningInv
  OBVIOUS
<1>1. ProvisioningTypeOK
  BY IdleProc, SessionsAreNumbers, ProvisioningAssumption
     DEF Init, ProvisioningTypeOK, SessionStatus, NewProfile
<1>2. ASSUME NEW d \in Devices PROVE ProcInv(d) /\ LocalInv(d)
  BY IdleProc
     DEF Init, ProcInv, LocalInv, HasSession, SawAccount, SawRegistration,
         NoMaterial, NoSession
<1>3. OneHolder
  BY IdleProc DEF Init, OneHolder, NoMaterial
<1>4. RegisteredExists
  BY DEF Init, RegisteredExists
<1> QED BY <1>1, <1>2, <1>3, <1>4 DEF ProvisioningInv

\* What the invariant says of one device, for the steps of that device.
LEMMA DeviceFacts ==
  ASSUME ProvisioningInv, NEW d \in Devices
  PROVE  /\ proc \in [Devices -> Proc] /\ local \in [Devices -> Material]
         /\ proc[d] \in Proc /\ proc[d].session \in MaybeSession
         /\ proc[d].at \in Steps
         /\ local[d] \in Material
         /\ local[d].secret \in MaybeSession /\ local[d].public \in MaybeSession
         /\ drawn \in Nat /\ drawn <= MaxSessions
         /\ faults \in 0..MaxFaults
BY ProvisioningAssumption
   DEF ProvisioningInv, ProvisioningTypeOK, Proc, Material

-----------------------------------------------------------------------------
(***************************************************************************)
(* Steps that leave the chain, the draws and the stored material alone and *)
(* move the run of one device to p.                                        *)
(***************************************************************************)
LEMMA RunMoves ==
  ASSUME ProvisioningInv, NEW d \in Devices, NEW p \in Proc, Step(d, p),
         p.session \in {proc[d].session, NoSession},
         p.session # NoSession <=> p.at \in HasSession,
         p.at \in SawAccount => status[p.session] # "none",
         p.at \in SawRegistration => p.session \in authorized,
         faults' \in 0..MaxFaults,
         txs' \subseteq {"create", "register"} \X Sessions,
         \A s \in Sessions : <<"register", s>> \in txs' => status[s] # "none",
         UNCHANGED <<chainVars, drawn, local>>
  PROVE  ProvisioningInv'
<1> USE DEF chainVars
<1>0. /\ proc' = [proc EXCEPT ![d] = p] /\ proc \in [Devices -> Proc]
      /\ proc' \in [Devices -> Proc]
      /\ proc'[d] = p /\ \A e \in Devices : e # d => proc'[e] = proc[e]
  BY DeviceFacts DEF Step
<1>1. ProvisioningTypeOK'
  BY <1>0 DEF ProvisioningInv, ProvisioningTypeOK
<1>2. NoSession <= drawn
  BY DeviceFacts, SessionsAreNumbers DEF NoSession
<1>3. ASSUME NEW e \in Devices PROVE ProcInv(e)' /\ LocalInv(e)'
  BY <1>0, <1>2 DEF ProvisioningInv, ProcInv, LocalInv
<1>4. OneHolder'
  BY <1>0 DEF ProvisioningInv, OneHolder
<1>5. RegisteredExists'
  BY DEF ProvisioningInv, RegisteredExists
<1> QED BY <1>1, <1>3, <1>4, <1>5 DEF ProvisioningInv

LEMMA RunEnds ==
  ASSUME ProvisioningInv, NEW d \in Devices, Step(d, Idle),
         faults' \in 0..MaxFaults, UNCHANGED <<chainVars, txs, drawn, local>>
  PROVE  ProvisioningInv'
<1>1. Idle.at \notin HasSession /\ Idle.at \notin SawAccount
      /\ Idle.at \notin SawRegistration
  BY IdleProc DEF HasSession, SawAccount, SawRegistration
<1> QED BY <1>1, IdleProc, RunMoves
        DEF ProvisioningInv, ProvisioningTypeOK, RegisteredExists

LEMMA Starts ==
  ASSUME ProvisioningInv, NEW d \in Devices, Start(d) PROVE ProvisioningInv'
<1> DEFINE p == [Idle EXCEPT !.at = "profile", !.local = Restored(local[d])]
<1>1. Restored(local[d]) \in MaybeSession
  BY DeviceFacts DEF Restored, MaybeSession
<1>2. p \in Proc /\ p.at = "profile" /\ p.session = NoSession
  BY <1>1, IdleProc DEF Proc, Steps, Idle
<1>3. Step(d, p) /\ UNCHANGED <<chainVars, txs, drawn, local, faults>>
  BY DEF Start
<1> HIDE DEF p
<1> QED BY <1>2, <1>3, RunMoves, DeviceFacts
        DEF HasSession, SawAccount, SawRegistration, ProvisioningInv,
            ProvisioningTypeOK, RegisteredExists

LEMMA DecidedKeeps ==
  ASSUME ProvisioningInv, NEW d \in Devices, NEW a, NEW st, Decided(d, a, st),
         proc[d].at \in {"profile", "session"},
         faults' \in 0..MaxFaults, UNCHANGED <<chainVars, txs, drawn, local>>
  PROVE  ProvisioningInv'
<1> DEFINE p == [proc[d] EXCEPT !.at = "create"]
<1>1. CASE Step(d, Idle)
  BY <1>1, RunEnds
<1>2. CASE Step(d, p)
  <2>1. proc[d].session = NoSession
    BY DEF ProvisioningInv, ProcInv, HasSession
  <2>2. p \in Proc /\ p.at = "create" /\ p.session = NoSession
    BY <2>1, DeviceFacts DEF Proc, Steps
  <2> HIDE DEF p
  <2> QED BY <1>2, <2>2, RunMoves
          DEF HasSession, SawAccount, SawRegistration, ProvisioningInv,
              ProvisioningTypeOK, RegisteredExists
<1> QED BY <1>1, <1>2 DEF Decided

LEMMA Reads ==
  ASSUME ProvisioningInv, NEW d \in Devices, ReadProfile(d) \/ ReadSession(d)
  PROVE  ProvisioningInv'
<1>1. CASE ReadProfile(d)
  <2>1. PICK a \in {profile} \cup StaleProfiles :
          /\ a # profile => faults < MaxFaults
          /\ faults' = IF a = profile THEN faults ELSE faults + 1
          /\ IF a.active = NoSession THEN Decided(d, a, "none")
             ELSE Step(d, [proc[d] EXCEPT !.at = "session", !.profile = a])
    BY <1>1 DEF ReadProfile
  <2>2. faults' \in 0..MaxFaults
    BY <2>1, DeviceFacts, ProvisioningAssumption
  <2>3. proc[d].at = "profile" /\ UNCHANGED <<chainVars, txs, drawn, local>>
    BY <1>1 DEF ReadProfile
  <2>4. CASE Decided(d, a, "none")
    BY <2>2, <2>3, <2>4, DecidedKeeps
  <2>5. CASE Step(d, [proc[d] EXCEPT !.at = "session", !.profile = a])
    <3> DEFINE p == [proc[d] EXCEPT !.at = "session", !.profile = a]
    <3>1. a \in Profile
      BY DEF StaleProfiles, Profile, MaybeSession, ProvisioningInv, ProvisioningTypeOK
    <3>2. proc[d].session = NoSession
      BY <2>3 DEF ProvisioningInv, ProcInv, HasSession
    <3>3. p \in Proc /\ p.at = "session" /\ p.session = NoSession
      BY <3>1, <3>2, DeviceFacts DEF Proc, Steps
    <3> HIDE DEF p
    <3> QED BY <2>2, <2>3, <2>5, <3>3, RunMoves
            DEF p, HasSession, SawAccount, SawRegistration, ProvisioningInv,
                ProvisioningTypeOK, RegisteredExists
  <2> QED BY <2>1, <2>4, <2>5
<1>2. CASE ReadSession(d)
  BY <1>2, DecidedKeeps, DeviceFacts DEF ReadSession
<1> QED BY <1>1, <1>2

\* A fresh id: nobody has it and nothing on the chain carries it.
LEMMA Creates ==
  ASSUME ProvisioningInv, NEW d \in Devices, Create(d) PROVE ProvisioningInv'
<1> DEFINE s == drawn + 1
           p == [proc[d] EXCEPT !.at = "created", !.session = s]
<1>1. /\ s \in Sessions /\ drawn' = s /\ drawn \in Nat /\ drawn' \in 0..MaxSessions
      /\ s # NoSession
  BY DeviceFacts, ProvisioningAssumption DEF Create, Sessions, NoSession
<1>2. p \in Proc /\ p.at = "created" /\ p.session = s
  BY <1>1, DeviceFacts DEF Proc, Steps, MaybeSession
<1>3. /\ proc' = [proc EXCEPT ![d] = p]
      /\ txs' = txs \cup {<<"create", s>>}
      /\ UNCHANGED <<profile, status, authorized, local, faults>>
  BY <1>1 DEF Create, Step, chainVars
<1>s. s > drawn
  BY <1>1
<1> HIDE DEF p, s
<1>4. /\ proc' \in [Devices -> Proc] /\ proc'[d] = p
      /\ \A e \in Devices : e # d => proc'[e] = proc[e]
  BY <1>2, <1>3, DeviceFacts
<1>5. ProvisioningTypeOK'
  BY <1>1, <1>3, <1>4 DEF ProvisioningInv, ProvisioningTypeOK
<1>6. \A e \in Devices : /\ proc[e].session \in Nat /\ proc[e].session <= drawn
                         /\ local[e].secret \in Nat /\ local[e].secret <= drawn
  BY DeviceFacts, SessionsAreNumbers DEF ProvisioningInv, ProcInv, LocalInv
<1>7. \A e \in Devices : /\ proc[e].session <= s /\ local[e].secret <= s
                         /\ proc[e].session # s /\ local[e].secret # s
  BY <1>1, <1>s, <1>6, SessionsAreNumbers
<1>8. ASSUME NEW e \in Devices PROVE ProcInv(e)' /\ LocalInv(e)'
  <2>1. s <= s
    BY <1>1, SessionsAreNumbers
  <2> QED BY <1>1, <1>2, <1>3, <1>4, <1>7, <2>1
          DEF ProvisioningInv, ProcInv, LocalInv, HasSession, SawAccount,
              SawRegistration
<1>9. OneHolder'
  BY <1>2, <1>3, <1>4, <1>7 DEF ProvisioningInv, OneHolder
<1>10. RegisteredExists'
  BY <1>3 DEF ProvisioningInv, RegisteredExists
<1> QED BY <1>5, <1>8, <1>9, <1>10 DEF ProvisioningInv

LEMMA Advances ==
  ASSUME ProvisioningInv, NEW d \in Devices, NEW from \in HasSession,
         NEW to \in HasSession, Advance(d, from, to),
         to \in SawAccount => status[proc[d].session] # "none",
         to \in SawRegistration => proc[d].session \in authorized,
         faults' \in 0..MaxFaults,
         txs' \subseteq {"create", "register"} \X Sessions,
         \A s \in Sessions : <<"register", s>> \in txs' => status[s] # "none",
         UNCHANGED <<chainVars, drawn, local>>
  PROVE  ProvisioningInv'
<1> DEFINE p == [proc[d] EXCEPT !.at = to]
<1>1. p \in Proc /\ p.at = to /\ p.session = proc[d].session
  BY DeviceFacts DEF Proc, Steps, HasSession
<1>2. proc[d].session # NoSession
  BY DEF Advance, ProvisioningInv, ProcInv
<1>3. Step(d, p)
  BY DEF Advance
<1> HIDE DEF p
<1> QED BY <1>1, <1>2, <1>3, RunMoves

LEMMA Confirms ==
  ASSUME ProvisioningInv, NEW d \in Devices,
         \/ ConfirmCreated(d) \/ Register(d) \/ ConfirmRegistered(d) \/ Issue(d)
  PROVE  ProvisioningInv'
<1> DEFINE s == proc[d].session
<1>0. /\ faults \in 0..MaxFaults
      /\ txs \subseteq {"create", "register"} \X Sessions
      /\ \A x \in Sessions : <<"register", x>> \in txs => status[x] # "none"
  BY DEF ProvisioningInv, ProvisioningTypeOK, RegisteredExists
<1>s. proc[d].at \in HasSession => s \in Sessions
  BY DeviceFacts DEF ProvisioningInv, ProcInv, MaybeSession
<1>a. proc[d].at \in SawAccount => status[s] # "none"
  BY DEF ProvisioningInv, ProcInv
<1>1. CASE ConfirmCreated(d)
  BY <1>0, <1>1, Advances
     DEF ConfirmCreated, HasSession, SawAccount, SawRegistration
<1>2. CASE Register(d)
  <2>1. s \in Sessions /\ status[s] # "none"
    BY <1>2, <1>s, <1>a DEF Register, Advance, HasSession, SawAccount
  <2>2. txs' = txs \cup {<<"register", s>>} /\ UNCHANGED faults
    BY <1>2 DEF Register
  <2>3. /\ txs' \subseteq {"create", "register"} \X Sessions
        /\ \A x \in Sessions : <<"register", x>> \in txs' => status[x] # "none"
    BY <1>0, <2>1, <2>2
  <2> QED BY <1>0, <1>2, <2>1, <2>2, <2>3, Advances
          DEF Register, HasSession, SawAccount, SawRegistration
<1>3. CASE ConfirmRegistered(d)
  BY <1>0, <1>3, Advances
     DEF ConfirmRegistered, Registered, HasSession, SawAccount, SawRegistration
<1>4. CASE Issue(d)
  BY <1>0, <1>4, Advances
     DEF Issue, Registered, HasSession, SawAccount, SawRegistration
<1> QED BY <1>1, <1>2, <1>3, <1>4

\* The id passes from the run to the protected storage of the same device.
LEMMA Publishes ==
  ASSUME ProvisioningInv, NEW d \in Devices, proc[d].at = "commit", Step(d, Idle),
         local' = [local EXCEPT ![d] = Committed(d)],
         faults' \in 0..MaxFaults, UNCHANGED <<chainVars, txs, drawn>>
  PROVE  ProvisioningInv'
<1> USE DEF chainVars
<1> DEFINE s == proc[d].session
<1>1. s # NoSession /\ s \in authorized /\ s <= drawn /\ s \in MaybeSession
  BY DeviceFacts
     DEF ProvisioningInv, ProcInv, HasSession, SawRegistration
<1>2. Committed(d) \in Material /\ Committed(d).secret = s
  BY <1>1 DEF Committed, Material
<1>3. /\ proc' \in [Devices -> Proc] /\ local' \in [Devices -> Material]
      /\ proc'[d] = Idle /\ local'[d].secret = s
      /\ \A e \in Devices : e # d => proc'[e] = proc[e] /\ local'[e] = local[e]
  BY <1>2, DeviceFacts, IdleProc DEF Step
<1>4. ProvisioningTypeOK'
  BY <1>3 DEF ProvisioningInv, ProvisioningTypeOK
<1>5. NoSession <= drawn
  BY DeviceFacts, SessionsAreNumbers DEF NoSession
<1>6. ASSUME NEW e \in Devices PROVE ProcInv(e)' /\ LocalInv(e)'
  BY <1>1, <1>3, <1>5, IdleProc
     DEF ProvisioningInv, ProcInv, LocalInv, HasSession, SawAccount, SawRegistration
<1>7. OneHolder'
  BY <1>1, <1>3, IdleProc DEF ProvisioningInv, OneHolder
<1>8. RegisteredExists'
  BY DEF ProvisioningInv, RegisteredExists
<1> QED BY <1>4, <1>6, <1>7, <1>8 DEF ProvisioningInv

LEMMA Commits ==
  ASSUME ProvisioningInv, NEW d \in Devices, Commit(d) PROVE ProvisioningInv'
<1>0. faults' \in 0..MaxFaults
  BY DeviceFacts DEF Commit
<1>1. CASE Corrupt(local[d])
  <2>1. local' = local
    BY <1>1, DeviceFacts DEF Commit
  <2> QED BY <1>0, <2>1, RunEnds DEF Commit
<1>2. CASE ~Corrupt(local[d])
  <2>1. local' = [local EXCEPT ![d] = Committed(d)]
    BY <1>2 DEF Commit
  <2> QED BY <1>0, <2>1, Publishes DEF Commit
<1> QED BY <1>1, <1>2

LEMMA ProvisionSteps ==
  ASSUME ProvisioningInv, NEW d \in Devices, Provision(d) PROVE ProvisioningInv'
<1>1. CASE GiveUp(d)
  BY <1>1, RunEnds, DeviceFacts DEF GiveUp
<1> QED BY <1>1, Reads, Creates, Confirms, Commits DEF Provision

-----------------------------------------------------------------------------
(***************************************************************************)
(* Faults.                                                                 *)
(***************************************************************************)
LEMMA FaultCounted ==
  ASSUME ProvisioningInv, Fault PROVE faults' \in 0..MaxFaults
BY ProvisioningAssumption DEF Fault, ProvisioningInv, ProvisioningTypeOK

LEMMA Fails ==
  ASSUME ProvisioningInv, NEW d \in Devices, Fail(d) PROVE ProvisioningInv'
<1>1. CASE local' = local
  BY <1>1, FaultCounted, RunEnds DEF Fail
<1>2. CASE proc[d].at = "commit" /\ local' = [local EXCEPT ![d] = Committed(d)]
  BY <1>2, FaultCounted, Publishes DEF Fail
<1> QED BY <1>1, <1>2 DEF Fail

LEMMA Drops ==
  ASSUME ProvisioningInv, NEW tx \in txs, Drop(tx) PROVE ProvisioningInv'
<1> USE DEF chainVars, Drop
<1>1. ProvisioningTypeOK'
  BY FaultCounted DEF ProvisioningInv, ProvisioningTypeOK
<1>2. \A e \in Devices : ProcInv(e)' /\ LocalInv(e)'
  BY DEF ProvisioningInv, ProcInv, LocalInv
<1>3. OneHolder' /\ RegisteredExists'
  BY DEF ProvisioningInv, OneHolder, RegisteredExists
<1> QED BY <1>1, <1>2, <1>3 DEF ProvisioningInv

\* Whatever is lost or copied, no protected part appears anywhere.
LEMMA Loses ==
  ASSUME ProvisioningInv, NEW d \in Devices, Lose(d) PROVE ProvisioningInv'
<1> USE DEF chainVars
<1>1. PICK m \in {NoMaterial, [local[d] EXCEPT !.secret = NoSession]}
              \cup {[local[d] EXCEPT !.public = local[e].public] : e \in Devices} :
        local' = [local EXCEPT ![d] = m]
  BY DEF Lose
<1>2. m \in Material /\ m.secret \in {NoSession, local[d].secret}
  <2>1. CASE m = NoMaterial
    BY <2>1, IdleProc DEF NoMaterial
  <2>2. CASE m = [local[d] EXCEPT !.secret = NoSession]
    BY <2>2, DeviceFacts DEF Material, MaybeSession
  <2>3. ASSUME NEW e \in Devices, m = [local[d] EXCEPT !.public = local[e].public]
        PROVE  m \in Material /\ m.secret = local[d].secret
    BY <2>3, DeviceFacts DEF Material
  <2> QED BY <1>1, <2>1, <2>2, <2>3
<1>3. /\ local' \in [Devices -> Material] /\ local'[d] = m
      /\ \A e \in Devices : e # d => local'[e] = local[e]
  BY <1>1, <1>2, DeviceFacts
<1>4. NoSession <= drawn
  BY DeviceFacts, SessionsAreNumbers DEF NoSession
<1>5. ProvisioningTypeOK'
  BY <1>3, FaultCounted DEF Lose, ProvisioningInv, ProvisioningTypeOK
<1>6. \A e \in Devices : ProcInv(e)' /\ LocalInv(e)'
  BY <1>2, <1>3, <1>4 DEF Lose, ProvisioningInv, ProcInv, LocalInv
<1>7. OneHolder'
  BY <1>2, <1>3 DEF Lose, ProvisioningInv, OneHolder
<1>8. RegisteredExists'
  BY DEF Lose, ProvisioningInv, RegisteredExists
<1> QED BY <1>5, <1>6, <1>7, <1>8 DEF ProvisioningInv

-----------------------------------------------------------------------------
(***************************************************************************)
(* The chain: an account that exists stays, and one is open at a time.     *)
(***************************************************************************)
LEMMA ChainMoves ==
  ASSUME ProvisioningInv, ProvisioningTypeOK', txs' \subseteq txs,
         \A s \in Sessions : status[s] # "none" => status'[s] # "none",
         authorized \subseteq authorized',
         \A s \in authorized' \ authorized : s \in Sessions /\ status[s] # "none",
         UNCHANGED <<drawn, local, proc>>
  PROVE  ProvisioningInv'
<1>1. authorized \subseteq Sessions
  BY DEF ProvisioningInv, ProvisioningTypeOK
<1>2. \A s \in authorized' : s \in Sessions /\ status[s] # "none"
  BY <1>1 DEF ProvisioningInv, RegisteredExists
<1>3. RegisteredExists'
  BY <1>2 DEF ProvisioningInv, RegisteredExists
<1>4. ASSUME NEW e \in Devices PROVE ProcInv(e)' /\ LocalInv(e)'
  <2>1. proc[e].at \in SawAccount => proc[e].session \in Sessions
    BY DeviceFacts
       DEF ProvisioningInv, ProcInv, SawAccount, HasSession, MaybeSession
  <2>2. ProcInv(e) /\ LocalInv(e)
    BY DEF ProvisioningInv
  <2> QED BY <2>1, <2>2 DEF ProcInv, LocalInv
<1>5. OneHolder'
  BY DEF ProvisioningInv, OneHolder
<1> QED BY <1>3, <1>4, <1>5 DEF ProvisioningInv

LEMMA ChainTypes ==
  ASSUME ProvisioningInv, NEW s \in Sessions, NEW st \in SessionStatus,
         status' = [status EXCEPT ![s] = st], profile' \in Profile,
         authorized' \subseteq Sessions, txs' \subseteq txs,
         \A x \in Sessions : x # s =>
           (profile'.active = x <=> profile.active = x),
         st \in {"active", "claim-window"} <=> profile'.active = s,
         UNCHANGED <<drawn, local, proc, faults>>
  PROVE  ProvisioningTypeOK'
<1>1. status' \in [Sessions -> SessionStatus]
  BY DEF ProvisioningInv, ProvisioningTypeOK
<1>2. \A x \in Sessions :
        status'[x] \in {"active", "claim-window"} <=> profile'.active = x
  BY DEF ProvisioningInv, ProvisioningTypeOK
<1> QED BY <1>1, <1>2 DEF ProvisioningInv, ProvisioningTypeOK

LEMMA ChainSteps ==
  ASSUME ProvisioningInv, NEW s \in Sessions, Chain(s) \/ RevokeOfflineAccess(s)
  PROVE  ProvisioningInv'
<1>0. /\ profile \in Profile /\ status \in [Sessions -> SessionStatus]
      /\ authorized \subseteq Sessions
      /\ \A x \in Sessions :
           status[x] \in {"active", "claim-window"} <=> profile.active = x
  BY DEF ProvisioningInv, ProvisioningTypeOK
<1>1. CASE LandCreate(s)
  <2>1. CASE CanCreate(s)
    <3>1. /\ status' = [status EXCEPT ![s] = "active"]
          /\ profile' = [profile EXCEPT !.active = s]
          /\ profile.active = NoSession
      BY <1>1, <2>1 DEF LandCreate, CanCreate
    <3>2. profile' \in Profile /\ profile'.active = s
      BY <1>0, <3>1 DEF Profile, MaybeSession
    <3>3. ProvisioningTypeOK'
      BY <1>0, <1>1, <3>1, <3>2, SessionsAreNumbers, ChainTypes
         DEF LandCreate, SessionStatus
    <3> QED BY <1>0, <1>1, <3>1, <3>3, ChainMoves DEF LandCreate
  <2>2. CASE ~CanCreate(s)
    <3>1. UNCHANGED <<profile, status, authorized, drawn, local, proc, faults>>
          /\ txs' \subseteq txs
      BY <1>1, <2>2 DEF LandCreate
    <3>2. ProvisioningTypeOK'
      BY <3>1 DEF ProvisioningInv, ProvisioningTypeOK
    <3> QED BY <3>1, <3>2, ChainMoves
  <2> QED BY <2>1, <2>2
<1>2. CASE LandRegister(s)
  <2>1. status[s] # "none"
    BY <1>2 DEF LandRegister, ProvisioningInv, RegisteredExists
  <2>2. ProvisioningTypeOK'
    BY <1>2 DEF LandRegister, ProvisioningInv, ProvisioningTypeOK
  <2> QED BY <1>2, <2>1, <2>2, ChainMoves DEF LandRegister
<1>3. CASE EndSession(s)
  <2>1. ProvisioningTypeOK'
    BY <1>0, <1>3, ChainTypes DEF EndSession, SessionStatus
  <2> QED BY <1>0, <1>3, <2>1, ChainMoves DEF EndSession
<1>4. CASE CloseSession(s)
  <2>1. profile.active = s
    BY <1>0, <1>4 DEF CloseSession
  <2>2. profile' \in Profile /\ profile'.active = NoSession
    BY <1>0, <1>4 DEF CloseSession, Profile, MaybeSession
  <2>c. /\ status' = [status EXCEPT ![s] = "closed"]
        /\ UNCHANGED <<authorized, txs, drawn, local, proc, faults>>
    BY <1>4 DEF CloseSession
  <2>d. /\ "closed" \in SessionStatus
        /\ NoSession # s
        /\ \A x \in Sessions : x # s => profile'.active # x /\ profile.active # x
    BY <2>1, <2>2, SessionsAreNumbers DEF SessionStatus
  <2>3. ProvisioningTypeOK'
    BY <1>0, <2>2, <2>c, <2>d, ChainTypes
  <2> QED BY <1>0, <1>4, <2>3, ChainMoves DEF CloseSession
<1>5. CASE RevokeOfflineAccess(s)
  <2>1. profile' \in Profile /\ profile'.active = profile.active
    BY <1>0, <1>5 DEF RevokeOfflineAccess, Profile
  <2>2. ProvisioningTypeOK'
    BY <1>5, <2>1 DEF RevokeOfflineAccess, ProvisioningInv, ProvisioningTypeOK
  <2> QED BY <1>5, <2>2, ChainMoves DEF RevokeOfflineAccess
<1> QED BY <1>1, <1>2, <1>3, <1>4, <1>5 DEF Chain

LEMMA ProvisioningStep == ProvisioningInv /\ [Next]_vars => ProvisioningInv'
<1> SUFFICES ASSUME ProvisioningInv, [Next]_vars PROVE ProvisioningInv'
  OBVIOUS
<1>1. CASE UNCHANGED vars
  BY <1>1
     DEF vars, chainVars, ProvisioningInv, ProvisioningTypeOK, ProcInv, LocalInv,
         OneHolder, RegisteredExists
<1> QED BY <1>1, Starts, ProvisionSteps, Fails, Loses, Drops, ChainSteps DEF Next

LEMMA ProvisioningInvariant == Spec => []ProvisioningInv
BY ProvisioningInit, ProvisioningStep, PTL DEF Spec

-----------------------------------------------------------------------------
\* For any number of devices, ids and faults, the profile names a session
\* exactly while it is open (create_offline_session, close_session) and every
\* run and record keeps its shape.
THEOREM ProvisioningTypeCorrect == Spec => []ProvisioningTypeOK
<1>1. ProvisioningInv => ProvisioningTypeOK
  BY DEF ProvisioningInv
<1> QED BY <1>1, ProvisioningInvariant, PTL

LEMMA ReadyHolds ==
  ASSUME ProvisioningInv, NEW d \in Devices, OfflineReady(d)
  PROVE  /\ Restored(local[d]) = local[d].secret
         /\ Restored(local[d]) # NoSession
         /\ Restored(local[d]) \in authorized
         /\ Restored(local[d]) \in Sessions
         /\ status[Restored(local[d])] # "none"
<1>1. Restored(local[d]) # NoSession
  BY DEF OfflineReady, DecideSessionAccess
<1>2. Restored(local[d]) = local[d].secret
  BY <1>1 DEF Restored, Corrupt
<1>3. Restored(local[d]) \in authorized
  BY <1>1, <1>2 DEF ProvisioningInv, LocalInv
<1> QED BY <1>1, <1>2, <1>3
        DEF ProvisioningInv, ProvisioningTypeOK, RegisteredExists

\* Wherever provisioning is cut and whatever is lost or copied, a device that
\* is ready to pay offline holds a session with a registered authorization on
\* the chain (provisionNewPayerSession, decideSessionAccess).
THEOREM OfflineReadyAlwaysBacked == Spec => []OfflineReadyIsBacked
<1>1. ProvisioningInv => OfflineReadyIsBacked
  BY ReadyHolds DEF OfflineReadyIsBacked
<1> QED BY <1>1, ProvisioningInvariant, PTL

\* Two devices of one wallet are never ready to pay with open sessions at the
\* same time, however stale the answers they provisioned on (ADR-0019).
THEOREM AlwaysOneOpenSession == Spec => []OneOpenSession
<1>1. ASSUME ProvisioningInv PROVE OneOpenSession
  <2> SUFFICES ASSUME NEW d \in Devices, NEW e \in Devices,
                      OfflineReady(d), OfflineReady(e),
                      status[Restored(local[d])] # "closed",
                      status[Restored(local[e])] # "closed"
               PROVE  d = e
    BY DEF OneOpenSession
  <2>1. /\ status[Restored(local[d])] \in {"active", "claim-window"}
        /\ status[Restored(local[e])] \in {"active", "claim-window"}
    BY <1>1, ReadyHolds DEF ProvisioningInv, ProvisioningTypeOK, SessionStatus
  <2>2. Restored(local[d]) = Restored(local[e])
    BY <1>1, <2>1, ReadyHolds DEF ProvisioningInv, ProvisioningTypeOK
  <2> QED BY <1>1, <2>2, ReadyHolds DEF ProvisioningInv, OneHolder
<1> QED BY <1>1, ProvisioningInvariant, PTL
=============================================================================
