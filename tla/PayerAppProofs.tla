--------------------------- MODULE PayerAppProofs ---------------------------
(***************************************************************************)
(* What the payer keeps and shows, proved for every set of requests, every *)
(* limit and every number of waiting store calls.                          *)
(*                                                                         *)
(* The invariant has two halves.  The first holds in every state: what     *)
(* each waiting call carries, what each camera has seen, and that a screen *)
(* shows a proof exactly while the stored one is unacknowledged.  The      *)
(* second needs that no payment was authorized while another one waited:   *)
(* then every waiting payment either is the stored tip or extends it by    *)
(* one new request, and a waiting receipt is for the stored tip.           *)
(***************************************************************************)
EXTENDS PayerApp, SequenceTheorems, TLAPS

Branches == Seq(Payees)

Payloads == Seq(Requests \cup {Certificate})

AllFrames == UNION {Frames(k, p) : k \in OfflineMessageKind, p \in Payloads}

Snapshots ==
  [frames : SUBSET AllFrames, parent : Branches, pending : BOOLEAN]

\* The calls authorizePayment and scanReceipt make.
LoadOf(b, r) ==
  [kind |-> "load", snapshot |-> Snapshot({}, b, FALSE), request |-> <<r>>]

PaymentOf(b, r) ==
  [kind |-> "payment", request |-> <<r>>,
   snapshot |-> Snapshot(BundleFrames(Append(b, r)), Append(b, r), TRUE)]

ReceiptOf(b) ==
  [kind |-> "receipt", request |-> Nothing,
   snapshot |-> Snapshot(BundleFrames(b), b, FALSE)]

Ops ==
  {LoadOf(b, r) : b \in Branches, r \in Payees}
    \cup {PaymentOf(b, r) : b \in Branches, r \in Payees}
    \cup {ReceiptOf(b) : b \in Branches \ {<<>>}}

PayerScreens ==
  {"home", "scan-challenge", "confirm", "show-credential", "scan-receipt",
   "complete"}

PayerTypeInv ==
  /\ durable \in Snapshots
  /\ queue \in Seq(Ops)
  /\ ui \in [status : {"stopped", "ready", "online-recovery-required"},
             screen : PayerScreens, challenge : Seq(Requests),
             branch : Branches, last : Branches, outgoing : SUBSET AllFrames]
  /\ received \in SUBSET AllFrames
  /\ merchant \in [Payees ->
       [screen : {"show-challenge", "scan-credential", "verified"},
        received : SUBSET AllFrames, validated : Branches,
        stored : SUBSET AllFrames, accepted : Branches]]
  /\ overlapped \in BOOLEAN

-----------------------------------------------------------------------------
Displays == {"show-credential", "scan-receipt"}

\* A screen shows the proof exactly while the stored one is unacknowledged.
ShownInv ==
  /\ queue # <<>> => ui.status = "ready"
  /\ durable.pending => durable.parent # <<>>
  /\ durable.parent # <<>> => durable.frames = BundleFrames(durable.parent)
  /\ ui.status = "ready" => (durable.pending <=> ui.screen \in Displays)
  /\ (ui.status = "ready" /\ ui.screen \in Displays)
       => /\ ui.branch # <<>> /\ ui.last = ui.branch
          /\ ui.outgoing = BundleFrames(ui.branch)

\* What the payer's camera has seen.
SeenInv ==
  /\ At("scan-challenge") =>
       \A f \in received : \E r \in Requests : f.hash = <<r>>
  /\ At("confirm") => \E r \in Payees : ui.challenge = <<r>>
  /\ At("scan-receipt") =>
       \A f \in received : \E r \in Payees :
         /\ merchant[r].accepted # Nothing
         /\ f.hash = EncodeReceipt(merchant[r].accepted)

\* What a merchant has seen, validated and accepted.
IsChallengeFrame(f) == f.kind = "challenge"

IsProofOf(f, b) == b # <<>> /\ f.hash = EncodeBundle(b)

MerchantInv ==
  \A r \in Payees :
    /\ merchant[r].screen = "verified" <=> merchant[r].accepted # Nothing
    /\ merchant[r].validated # Nothing => Last(merchant[r].validated) = r
    /\ merchant[r].accepted # Nothing => Last(merchant[r].accepted) = r
    /\ \A f \in merchant[r].received :
         IsChallengeFrame(f) \/ \E b \in Branches : IsProofOf(f, b)

HeldBy(b) == merchant[Last(b)].accepted = b

\* A snapshot that says delivered, stored or waiting, is held by its merchant.
HeldInv ==
  /\ (~durable.pending /\ durable.parent # <<>>) => HeldBy(durable.parent)
  /\ \A i \in 1..Len(queue) :
       queue[i].kind = "receipt" => HeldBy(queue[i].snapshot.parent)

AlwaysInv == ShownInv /\ SeenInv /\ MerchantInv /\ HeldInv

-----------------------------------------------------------------------------
Leads(b, d) == Len(b) <= Len(d) /\ \A i \in 1..Len(b) : b[i] = d[i]

Paid(d, r) == \E i \in 1..Len(d) : d[i] = r

Unrepeated(d) == \A i, j \in 1..Len(d) : d[i] = d[j] => i = j

IsPay(op) == op.kind \in {"load", "payment"}

\* The branch that a waiting payment is to store.
Result(op) ==
  IF op.kind = "load" THEN Append(op.snapshot.parent, op.request[1])
  ELSE op.snapshot.parent

\* It is the stored branch, or that branch and one new request.
NextOf(d, op) ==
  \/ Result(op) = d
  \/ Result(op) = Append(d, op.request[1]) /\ ~Paid(d, op.request[1])

QueueOk(q, d, shown) ==
  /\ \A i \in 1..Len(q) : IsPay(q[i]) => NextOf(d, q[i])
  /\ \A i, j \in 1..Len(q) :
       IsPay(q[i]) /\ IsPay(q[j]) => q[i].request = q[j].request
  /\ \A i \in 1..Len(q) : q[i].kind = "receipt" => q[i].snapshot.parent = d
  /\ \A i, j \in 1..Len(q) :
       (i < j /\ IsPay(q[i]) /\ q[j].kind = "receipt") => Result(q[i]) = d
  /\ shown => \A i \in 1..Len(q) : IsPay(q[i]) => Result(q[i]) = d

QueueInv == QueueOk(queue, durable.parent, ui.screen \in Displays)

TipInv == ui.status = "ready" => ui.branch = durable.parent

FreshInv ==
  /\ At("scan-challenge") =>
       \A f \in received : \A r \in Payees : f.hash = <<r>> => ~Paid(ui.branch, r)
  /\ At("confirm") =>
       \A r \in Payees : ui.challenge = <<r>> => ~Paid(ui.branch, r)

\* Payments before the last one, and the last one once it is acknowledged,
\* are in their merchants' hands.
Settled == IF durable.pending THEN Len(durable.parent) - 1 ELSE Len(durable.parent)

BranchInv ==
  /\ Unrepeated(durable.parent)
  /\ \A i \in 1..Settled : merchant[durable.parent[i]].accepted # Nothing

PrefixInv ==
  \A r \in Payees :
    /\ Leads(merchant[r].accepted, durable.parent)
    /\ Leads(merchant[r].validated, durable.parent)
    /\ \A f \in merchant[r].received :
         IsChallengeFrame(f)
           \/ \E b \in Branches : IsProofOf(f, b) /\ Leads(b, durable.parent)

CarefulInv ==
  ~overlapped => QueueInv /\ TipInv /\ FreshInv /\ BranchInv /\ PrefixInv

PayerInv == PayerTypeInv /\ AlwaysInv /\ CarefulInv

-----------------------------------------------------------------------------
(***************************************************************************)
(* Frames and payloads.                                                    *)
(***************************************************************************)

\* Every frame names its kind and the payload it is cut from.
LEMMA FrameNames ==
  ASSUME NEW k, NEW p, NEW f \in Frames(k, p)
  PROVE  f.kind = k /\ f.hash = p
BY DEF Frames

\* The frames of a payload of this protocol are frames of the universe.
LEMMA FramesInUniverse ==
  ASSUME NEW k \in OfflineMessageKind, NEW p \in Payloads
  PROVE  Frames(k, p) \in SUBSET AllFrames
BY DEF AllFrames

LEMMA ChallengeFramesInUniverse ==
  ASSUME NEW r \in Requests
  PROVE  Frames("challenge", EncodeChallenge(r)) \in SUBSET AllFrames
<1>1. <<r>> \in Payloads BY DEF Payloads
<1> QED BY <1>1, FramesInUniverse DEF EncodeChallenge, OfflineMessageKind

LEMMA BundlePayload ==
  ASSUME NEW b \in Branches
  PROVE  /\ EncodeBundle(b) \in Payloads
         /\ EncodeBundle(b) # <<>>
         /\ Tail(EncodeBundle(b)) = b
<1> DEFINE S == Requests \cup {Certificate}
<1>1. b \in Seq(S) BY DEF Branches, Payees
<1>2. <<Certificate>> \in Seq(S) /\ Len(<<Certificate>>) = 1 OBVIOUS
<1>3. Len(b) \in Nat BY <1>1
<1> DEFINE e == <<Certificate>> \o b
<1>4. /\ e \in Seq(S)
      /\ Len(e) = 1 + Len(b)
      /\ \A i \in 1..(1 + Len(b)) : e[i] = IF i <= 1 THEN <<Certificate>>[i] ELSE b[i - 1]
  BY <1>1, <1>2, ConcatProperties
<1>5. e # <<>> BY <1>3, <1>4
<1>6. /\ Tail(e) \in Seq(S)
      /\ Len(Tail(e)) = Len(e) - 1
      /\ \A i \in 1..Len(Tail(e)) : Tail(e)[i] = e[i + 1]
  BY <1>4, <1>5, HeadTailProperties
<1>7. Tail(e) = b
  <2>1. Len(Tail(e)) = Len(b) BY <1>3, <1>4, <1>6
  <2>2. \A i \in 1..Len(Tail(e)) : Tail(e)[i] = b[i]
    <3> TAKE i \in 1..Len(Tail(e))
    <3> HIDE DEF e
    <3>1. i + 1 \in 1..(1 + Len(b)) /\ ~(i + 1 <= 1) /\ i + 1 - 1 = i
      BY <1>3, <2>1
    <3>2. e[i + 1] = b[i + 1 - 1] BY <1>4, <3>1
    <3> QED BY <1>6, <3>1, <3>2
  <2> HIDE DEF e
  <2> QED BY <1>1, <1>6, <2>1, <2>2, SeqEqual
<1> QED BY <1>4, <1>5, <1>7 DEF EncodeBundle, Payloads

LEMMA BundleFramesInUniverse ==
  ASSUME NEW b \in Branches
  PROVE  BundleFrames(b) \in SUBSET AllFrames
BY BundlePayload, FramesInUniverse DEF BundleFrames, OfflineMessageKind

LEMMA LastOfBranch ==
  ASSUME NEW b \in Branches, b # <<>>
  PROVE  Last(b) \in Payees /\ Last(b) = b[Len(b)] /\ Len(b) \in Nat \ {0}
BY EmptySeq, ElementOfSeq DEF Branches, Last

LEMMA ReceiptPayload ==
  ASSUME NEW b \in Branches, b # <<>>
  PROVE  EncodeReceipt(b) \in Payloads /\ EncodeReceipt(b) # <<>>
<1>1. Last(b) \in Payees BY LastOfBranch
<1> DEFINE S == Requests \cup {Certificate}
<1>2. b \in Seq(S) BY DEF Branches, Payees
<1>3. Last(b) \in S BY <1>1 DEF Payees
<1> HIDE DEF S
<1>4. Append(b, Last(b)) \in Seq(S) /\ Append(b, Last(b)) # <<>>
  BY <1>2, <1>3, AppendProperties
<1> QED BY <1>4 DEF S, Payloads, EncodeReceipt

\* A receipt names one credential.
LEMMA ReceiptInjective ==
  ASSUME NEW b \in Branches, b # <<>>, NEW c \in Branches, c # <<>>,
         EncodeReceipt(b) = EncodeReceipt(c)
  PROVE  b = c
<1>1. Last(b) \in Payees /\ Last(c) \in Payees BY LastOfBranch
<1> QED BY <1>1, AppendInjective DEF EncodeReceipt, Branches

\* What assemble returns is the payload that every scanned frame names.
LEMMA AssembleNames ==
  ASSUME NEW k, NEW F, Assemble(k, F) # Nothing
  PROVE  /\ F # {}
         /\ \A f \in F : f.kind = k /\ f.hash = Assemble(k, F)
<1>1. /\ F # {}
      /\ \A f \in F : f.kind = k
      /\ OneTransfer(F)
      /\ Assemble(k, F) = (CHOOSE f \in F : TRUE).hash
  BY DEF Assemble
<1>2. (CHOOSE f \in F : TRUE) \in F BY <1>1
<1>3. \A f, g \in F : f.hash = g.hash BY <1>1 DEF OneTransfer
<1> QED BY <1>1, <1>2, <1>3

\* What a merchant reads out of frames of proofs and stray codes is a proof.
LEMMA ReceiveNames ==
  ASSUME NEW F, ReceiveCredential(F) # Nothing
  PROVE  \E f \in F : /\ f.kind = "bundle"
                      /\ ReceiveCredential(F) = Tail(f.hash)
<1>1. /\ Assemble("bundle", F) # Nothing
      /\ ReceiveCredential(F) = Tail(Assemble("bundle", F))
  BY DEF ReceiveCredential
<1>2. /\ F # {}
      /\ \A f \in F : f.kind = "bundle" /\ f.hash = Assemble("bundle", F)
  BY <1>1, AssembleNames
<1> QED BY <1>1, <1>2

-----------------------------------------------------------------------------
(***************************************************************************)
(* Branches and their prefixes.                                            *)
(***************************************************************************)
LEMMA LeadsIsPrefix ==
  ASSUME NEW b \in Branches, NEW d \in Branches, Leads(b, d)
  PROVE  IsPrefix(b, d)
<1>1. Len(b) \in Nat /\ Len(d) \in Nat /\ Len(b) <= Len(d)
  BY LenProperties DEF Leads, Branches
<1> DEFINE n == Len(b)
<1>2. \A i \in 1..n : b[i] \in Payees /\ d[i] \in Payees /\ b[i] = d[i]
  BY <1>1, ElementOfSeq DEF Branches, Leads
<1>3. /\ SubSeq(b, 1, n) \in Branches
      /\ Len(SubSeq(b, 1, n)) = IF 1 <= n THEN n - 1 + 1 ELSE 0
      /\ \A i \in 1..(n - 1 + 1) : SubSeq(b, 1, n)[i] = b[1 + i - 1]
  BY <1>1, <1>2, SubSeqProperties DEF Branches
<1>4. /\ SubSeq(d, 1, n) \in Branches
      /\ Len(SubSeq(d, 1, n)) = IF 1 <= n THEN n - 1 + 1 ELSE 0
      /\ \A i \in 1..(n - 1 + 1) : SubSeq(d, 1, n)[i] = d[1 + i - 1]
  BY <1>1, <1>2, SubSeqProperties DEF Branches
<1> HIDE DEF n
<1>5. n \in Nat BY <1>1 DEF n
<1>6. Len(SubSeq(b, 1, n)) = n /\ Len(SubSeq(d, 1, n)) = n BY <1>3, <1>4, <1>5
<1>7. \A i \in 1..n : SubSeq(b, 1, n)[i] = SubSeq(d, 1, n)[i]
  <2> TAKE i \in 1..n
  <2>1. i \in 1..(n - 1 + 1) /\ 1 + i - 1 = i BY <1>5
  <2> QED BY <1>2, <1>3, <1>4, <2>1
<1>8. SubSeq(b, 1, n) = SubSeq(d, 1, n)
  BY <1>3, <1>4, <1>6, <1>7, SeqEqual DEF Branches
<1> QED BY <1>1, <1>8 DEF n, IsPrefix

LEMMA LeadsRefl ==
  ASSUME NEW b \in Branches
  PROVE  Leads(b, b)
BY LenProperties DEF Leads, Branches

LEMMA LeadsEmpty ==
  ASSUME NEW b \in Branches
  PROVE  Leads(<<>>, b)
BY LenProperties DEF Leads, Branches

LEMMA LeadsTrans ==
  ASSUME NEW b \in Branches, NEW c \in Branches, NEW d \in Branches,
         Leads(b, c), Leads(c, d)
  PROVE  Leads(b, d)
<1>1. Len(b) \in Nat /\ Len(c) \in Nat /\ Len(d) \in Nat
  BY LenProperties DEF Branches
<1> QED BY <1>1 DEF Leads

\* One more request.
LEMMA Extend ==
  ASSUME NEW b \in Branches, NEW r \in Payees
  PROVE  /\ Append(b, r) \in Branches
         /\ Append(b, r) # <<>>
         /\ Len(Append(b, r)) = Len(b) + 1
         /\ Len(b) \in Nat
         /\ \A i \in 1..Len(b) : Append(b, r)[i] = b[i]
         /\ Append(b, r)[Len(b) + 1] = r
         /\ Last(Append(b, r)) = r
         /\ Leads(b, Append(b, r))
         /\ b \o <<r>> = Append(b, r)
<1>1. Len(b) \in Nat BY LenProperties DEF Branches
<1>2. /\ Append(b, r) \in Branches
      /\ Append(b, r) # <<>>
      /\ Len(Append(b, r)) = Len(b) + 1
      /\ \A i \in 1..Len(b) : Append(b, r)[i] = b[i]
      /\ Append(b, r)[Len(b) + 1] = r
  BY AppendProperties DEF Branches
<1>3. b \o <<r>> = Append(b, r) BY AppendIsConcat DEF Branches
<1> QED BY <1>1, <1>2, <1>3 DEF Last, Leads

LEMMA ExtendPaid ==
  ASSUME NEW b \in Branches, NEW r \in Payees
  PROVE  Paid(Append(b, r), r)
<1>1. Len(b) + 1 \in 1..Len(Append(b, r)) BY Extend
<1> QED BY <1>1, Extend DEF Paid

LEMMA ExtendUnrepeated ==
  ASSUME NEW b \in Branches, NEW r \in Payees, Unrepeated(b), ~Paid(b, r)
  PROVE  Unrepeated(Append(b, r))
<1> DEFINE e == Append(b, r)
<1>1. SUFFICES ASSUME NEW i \in 1..Len(e), NEW j \in 1..Len(e), e[i] = e[j]
               PROVE  i = j
  BY DEF Unrepeated
<1>2. /\ Len(e) = Len(b) + 1 /\ Len(b) \in Nat
      /\ \A k \in 1..Len(b) : e[k] = b[k]
      /\ e[Len(b) + 1] = r
  BY Extend
<1> HIDE DEF e
<1>3. CASE i \in 1..Len(b) /\ j \in 1..Len(b)
  BY <1>1, <1>2, <1>3 DEF Unrepeated
<1>4. CASE i \in 1..Len(b) /\ j = Len(b) + 1
  BY <1>1, <1>2, <1>4 DEF Paid
<1>5. CASE j \in 1..Len(b) /\ i = Len(b) + 1
  BY <1>1, <1>2, <1>5 DEF Paid
<1>6. CASE i = Len(b) + 1 /\ j = Len(b) + 1 BY <1>6
<1>7. \A k \in 1..Len(e) : k \in 1..Len(b) \/ k = Len(b) + 1 BY <1>2
<1> QED BY <1>3, <1>4, <1>5, <1>6, <1>7

\* Two prefixes of an unrepeated branch that end in the same request are one.
LEMMA SameLast ==
  ASSUME NEW b \in Branches, NEW d \in Branches, b # <<>>, d # <<>>,
         Leads(b, d), Unrepeated(d), Last(b) = Last(d)
  PROVE  b = d
<1>1. /\ Len(b) \in Nat \ {0} /\ Len(d) \in Nat \ {0}
      /\ b[Len(b)] = d[Len(d)]
  BY LastOfBranch
<1>2. Len(b) \in 1..Len(d) /\ Len(d) \in 1..Len(d) /\ d[Len(b)] = d[Len(d)]
  BY <1>1 DEF Leads
<1>3. Len(b) = Len(d) BY <1>2 DEF Unrepeated
<1>4. \A i \in 1..Len(b) : b[i] = d[i] BY DEF Leads
<1> QED BY <1>3, <1>4, SeqEqual DEF Branches

-----------------------------------------------------------------------------
(***************************************************************************)
(* The waiting calls.                                                      *)
(***************************************************************************)
LEMMA PayOp ==
  ASSUME NEW op \in Ops, IsPay(op)
  PROVE  \E b \in Branches, r \in Payees :
           /\ op.request = <<r>> /\ op.request[1] = r
           /\ Result(op) = Append(b, r) /\ Result(op) \in Branches
           /\ op.kind = "load" => op.snapshot.parent = b
           /\ op.kind = "payment" => op = PaymentOf(b, r)
<1>1. CASE op \in {LoadOf(b, r) : b \in Branches, r \in Payees}
  <2>1. PICK b \in Branches, r \in Payees : op = LoadOf(b, r) BY <1>1
  <2> QED BY <2>1, Extend DEF LoadOf, Result, Snapshot
<1>2. CASE op \in {PaymentOf(b, r) : b \in Branches, r \in Payees}
  <2>1. PICK b \in Branches, r \in Payees : op = PaymentOf(b, r) BY <1>2
  <2> QED BY <2>1, Extend DEF PaymentOf, Result, Snapshot
<1>3. CASE op \in {ReceiptOf(b) : b \in Branches \ {<<>>}}
  <2>1. PICK b : op = ReceiptOf(b) BY <1>3
  <2>2. op.kind = "receipt" BY <2>1 DEF ReceiptOf
  <2> QED BY <2>2 DEF IsPay
<1> QED BY <1>1, <1>2, <1>3 DEF Ops

LEMMA ReceiptOp ==
  ASSUME NEW op \in Ops, op.kind = "receipt"
  PROVE  \E b \in Branches : b # <<>> /\ op = ReceiptOf(b) /\ op.snapshot.parent = b
<1>1. \A b, r : LoadOf(b, r).kind = "load" /\ PaymentOf(b, r).kind = "payment"
  BY DEF LoadOf, PaymentOf
<1>2. PICK b \in Branches \ {<<>>} : op = ReceiptOf(b)
  BY <1>1 DEF Ops
<1> QED BY <1>2 DEF ReceiptOf, Snapshot

LEMMA OpKinds ==
  ASSUME NEW op \in Ops
  PROVE  op.kind \in {"load", "payment", "receipt"}
<1>1. \A b, r : LoadOf(b, r).kind = "load" /\ PaymentOf(b, r).kind = "payment"
  BY DEF LoadOf, PaymentOf
<1>2. \A b : ReceiptOf(b).kind = "receipt" BY DEF ReceiptOf
<1> QED BY <1>1, <1>2 DEF Ops

LEMMA QueueAppend ==
  ASSUME NEW q \in Seq(Ops), NEW op \in Ops
  PROVE  /\ Append(q, op) \in Seq(Ops)
         /\ Append(q, op) # <<>>
         /\ Len(Append(q, op)) = Len(q) + 1
         /\ Len(q) \in Nat
         /\ \A i \in 1..Len(q) : Append(q, op)[i] = q[i]
         /\ Append(q, op)[Len(q) + 1] = op
         /\ \A i \in 1..Len(Append(q, op)) : i \in 1..Len(q) \/ i = Len(q) + 1
<1>1. Len(q) \in Nat BY LenProperties
<1> QED BY <1>1, AppendProperties

LEMMA QueueTail ==
  ASSUME NEW q \in Seq(Ops), q # <<>>
  PROVE  /\ Tail(q) \in Seq(Ops)
         /\ Len(q) \in Nat /\ 1 \in 1..Len(q)
         /\ Head(q) = q[1] /\ Head(q) \in Ops
         /\ Len(Tail(q)) = Len(q) - 1
         /\ \A i \in 1..Len(Tail(q)) : Tail(q)[i] = q[i + 1] /\ i + 1 \in 1..Len(q)
<1>1. Len(q) \in Nat \ {0} BY EmptySeq
<1>2. Head(q) = q[1] BY DEF Head
<1> QED BY <1>1, <1>2, HeadTailProperties

\* A call that is answered leaves the others in order.
LEMMA QueueOkTail ==
  ASSUME NEW q \in Seq(Ops), q # <<>>, NEW d, NEW s, QueueOk(q, d, s)
  PROVE  QueueOk(Tail(q), d, s)
<1> DEFINE t == Tail(q)
<1>1. /\ Len(q) \in Nat /\ Len(t) = Len(q) - 1
      /\ \A i \in 1..Len(t) : t[i] = q[i + 1] /\ i + 1 \in 1..Len(q)
  BY QueueTail
<1>2. \A i, j \in 1..Len(t) : i < j => i + 1 < j + 1 BY <1>1
<1> HIDE DEF t
<1>3. \A i, j \in 1..Len(t) :
        (i < j /\ IsPay(t[i]) /\ t[j].kind = "receipt") => Result(t[i]) = d
  BY <1>1, <1>2 DEF QueueOk
<1>4. \A i \in 1..Len(t) : t[i].kind = "receipt" => t[i].snapshot.parent = d
  BY <1>1 DEF QueueOk
<1>5. \A i \in 1..Len(t) : IsPay(t[i]) => NextOf(d, t[i]) BY <1>1 DEF QueueOk
<1>6. \A i, j \in 1..Len(t) :
        IsPay(t[i]) /\ IsPay(t[j]) => t[i].request = t[j].request
  BY <1>1 DEF QueueOk
<1>7. s => \A i \in 1..Len(t) : IsPay(t[i]) => Result(t[i]) = d
  BY <1>1 DEF QueueOk
<1>8. QueueOk(t, d, s) BY <1>3, <1>4, <1>5, <1>6, <1>7 DEF QueueOk
<1> QED BY <1>8 DEF t

\* A payment joins calls for the same request.
LEMMA QueueOkPay ==
  ASSUME NEW q \in Seq(Ops), NEW d, NEW s \in BOOLEAN, QueueOk(q, d, s),
         NEW op \in Ops, IsPay(op), NextOf(d, op), s => Result(op) = d,
         \A i \in 1..Len(q) : IsPay(q[i]) => q[i].request = op.request
  PROVE  QueueOk(Append(q, op), d, s)
<1> DEFINE t == Append(q, op)
<1>1. /\ Len(q) \in Nat /\ Len(t) = Len(q) + 1
      /\ \A i \in 1..Len(q) : t[i] = q[i]
      /\ t[Len(q) + 1] = op
      /\ \A i \in 1..Len(t) : i \in 1..Len(q) \/ i = Len(q) + 1
  BY QueueAppend
<1> HIDE DEF t
<1>2. op.kind # "receipt" BY DEF IsPay
<1>3. \A i \in 1..Len(t) : IsPay(t[i]) => NextOf(d, t[i]) BY <1>1 DEF QueueOk
<1>4. \A i, j \in 1..Len(t) :
        IsPay(t[i]) /\ IsPay(t[j]) => t[i].request = t[j].request
  BY <1>1 DEF QueueOk
<1>5. \A i \in 1..Len(t) : t[i].kind = "receipt" => t[i].snapshot.parent = d
  BY <1>1, <1>2 DEF QueueOk
<1>6. \A i, j \in 1..Len(t) :
        (i < j /\ IsPay(t[i]) /\ t[j].kind = "receipt") => Result(t[i]) = d
  <2> SUFFICES ASSUME NEW i \in 1..Len(t), NEW j \in 1..Len(t),
                      i < j, IsPay(t[i]), t[j].kind = "receipt"
               PROVE  Result(t[i]) = d
    OBVIOUS
  <2>1. j \in 1..Len(q) BY <1>1, <1>2
  <2>2. i \in 1..Len(q) BY <1>1, <2>1
  <2> QED BY <1>1, <2>1, <2>2 DEF QueueOk
<1>7. s => \A i \in 1..Len(t) : IsPay(t[i]) => Result(t[i]) = d
  BY <1>1 DEF QueueOk
<1>8. QueueOk(t, d, s) BY <1>3, <1>4, <1>5, <1>6, <1>7 DEF QueueOk
<1> QED BY <1>8 DEF t

\* A receipt is called for while every waiting payment is the stored one.
LEMMA QueueOkReceipt ==
  ASSUME NEW q \in Seq(Ops), NEW d, QueueOk(q, d, TRUE),
         NEW op \in Ops, op.kind = "receipt", op.snapshot.parent = d
  PROVE  QueueOk(Append(q, op), d, TRUE)
<1> DEFINE t == Append(q, op)
<1>1. /\ Len(q) \in Nat /\ Len(t) = Len(q) + 1
      /\ \A i \in 1..Len(q) : t[i] = q[i]
      /\ t[Len(q) + 1] = op
      /\ \A i \in 1..Len(t) : i \in 1..Len(q) \/ i = Len(q) + 1
  BY QueueAppend
<1> HIDE DEF t
<1>2. ~IsPay(op) BY DEF IsPay
<1>3. \A i \in 1..Len(t) : IsPay(t[i]) => i \in 1..Len(q) /\ Result(t[i]) = d
  BY <1>1, <1>2 DEF QueueOk
<1>4. \A i \in 1..Len(t) : IsPay(t[i]) => NextOf(d, t[i]) BY <1>3 DEF NextOf
<1>5. \A i, j \in 1..Len(t) :
        IsPay(t[i]) /\ IsPay(t[j]) => t[i].request = t[j].request
  BY <1>1, <1>3 DEF QueueOk
<1>6. \A i \in 1..Len(t) : t[i].kind = "receipt" => t[i].snapshot.parent = d
  BY <1>1 DEF QueueOk
<1>7. QueueOk(t, d, TRUE) BY <1>3, <1>4, <1>5, <1>6 DEF QueueOk
<1> QED BY <1>7 DEF t

LEMMA QueueOkAnyScreen ==
  ASSUME NEW q \in Seq(Ops), NEW d, NEW s \in BOOLEAN, NEW u \in BOOLEAN,
         QueueOk(q, d, s), u => s
  PROVE  QueueOk(q, d, u)
BY DEF QueueOk

\* The first payment is stored: every other one is for the same branch, and no
\* receipt for an older branch waits behind it.
LEMMA QueueOkStored ==
  ASSUME NEW q \in Seq(Ops), q # <<>>, NEW d \in Branches, NEW s, QueueOk(q, d, s),
         Head(q).kind = "payment"
  PROVE  QueueOk(Tail(q), Result(Head(q)), TRUE)
<1> DEFINE op == q[1]
           t == Tail(q)
           e == Result(op)
<1>1. /\ Head(q) = op /\ op \in Ops /\ 1 \in 1..Len(q) /\ Len(q) \in Nat
      /\ Len(t) = Len(q) - 1
      /\ \A i \in 1..Len(t) : t[i] = q[i + 1] /\ i + 1 \in 1..Len(q)
  BY QueueTail
<1>2. IsPay(op) BY <1>1 DEF IsPay
<1>3. PICK b \in Branches, r \in Payees :
        op.request = <<r>> /\ op.request[1] = r /\ e = Append(b, r) /\ e \in Branches
  BY <1>1, <1>2, PayOp
<1>4. \A i \in 1..Len(q) : IsPay(q[i]) => q[i].request = op.request /\ NextOf(d, q[i])
  BY <1>1, <1>2 DEF QueueOk
<1>5. \A i \in 1..Len(q) : IsPay(q[i]) => \E c \in Branches : Result(q[i]) = Append(c, r)
  <2> SUFFICES ASSUME NEW i \in 1..Len(q), IsPay(q[i])
               PROVE  \E c \in Branches : Result(q[i]) = Append(c, r)
    OBVIOUS
  <2>1. q[i] \in Ops BY ElementOfSeq
  <2>2. PICK c \in Branches, x \in Payees :
          q[i].request[1] = x /\ Result(q[i]) = Append(c, x)
    BY <2>1, PayOp
  <2> QED BY <1>3, <1>4, <2>2
<1>6. \A i \in 1..Len(q) : IsPay(q[i]) => Paid(Result(q[i]), r)
  BY <1>5, ExtendPaid
<1>7. \A i \in 1..Len(q) : IsPay(q[i]) => Result(q[i]) = e
  <2> SUFFICES ASSUME NEW i \in 1..Len(q), IsPay(q[i])
               PROVE  Result(q[i]) = e
    OBVIOUS
  <2>1. NextOf(d, q[i]) /\ NextOf(d, op) BY <1>1, <1>2, <1>4
  <2>2. q[i].request[1] = r BY <1>3, <1>4
  <2>3. Paid(Result(q[i]), r) /\ Paid(e, r) BY <1>1, <1>2, <1>6
  <2> HIDE DEF op
  <2> QED BY <1>3, <2>1, <2>2, <2>3 DEF NextOf
<1>8. \A j \in 1..Len(t) : t[j].kind = "receipt" => t[j].snapshot.parent = e
  <2> SUFFICES ASSUME NEW j \in 1..Len(t), t[j].kind = "receipt"
               PROVE  t[j].snapshot.parent = e
    OBVIOUS
  <2>1. t[j] = q[j + 1] /\ j + 1 \in 1..Len(q) /\ 1 < j + 1 BY <1>1
  <2>2. q[j + 1].snapshot.parent = d BY <2>1 DEF QueueOk
  <2>3. Result(q[1]) = d BY <1>1, <1>2, <2>1 DEF QueueOk
  <2> QED BY <2>1, <2>2, <2>3
<1>9. \A i \in 1..Len(t) : IsPay(t[i]) =>
        Result(t[i]) = e /\ t[i].request = op.request
  BY <1>1, <1>4, <1>7
<1> HIDE DEF t, op, e
<1>10. \A i \in 1..Len(t) : IsPay(t[i]) => NextOf(e, t[i]) BY <1>9 DEF NextOf
<1>11. QueueOk(t, e, TRUE) BY <1>8, <1>9, <1>10 DEF QueueOk
<1> QED BY <1>1, <1>11 DEF t, e

-----------------------------------------------------------------------------
(***************************************************************************)
(* The invariant holds initially.                                          *)
(***************************************************************************)
LEMMA PayerInit == Init => PayerInv
<1> SUFFICES ASSUME Init PROVE PayerInv OBVIOUS
<1> USE DEF Init
<1>1. <<>> \in Branches /\ <<>> \in Seq(Ops) /\ <<>> \in Seq(Requests) /\ Len(<<>>) = 0
  BY DEF Branches
<1>2. PayerTypeInv
  BY <1>1 DEF PayerTypeInv, Snapshots, Snapshot, Stopped, Waiting, PayerScreens, Nothing
<1>3. ShownInv BY DEF ShownInv, Snapshot, Stopped
<1>4. SeenInv BY DEF SeenInv, At, Stopped
<1>5. MerchantInv BY DEF MerchantInv, Waiting, Nothing
<1>6. HeldInv BY <1>1 DEF HeldInv, Snapshot
<1>7. QueueInv BY <1>1 DEF QueueInv, QueueOk
<1>8. TipInv BY DEF TipInv, Stopped
<1>9. FreshInv BY DEF FreshInv, At, Stopped
<1>10. BranchInv BY <1>1 DEF BranchInv, Unrepeated, Settled, Snapshot
<1>11. PrefixInv BY <1>1, LeadsEmpty DEF PrefixInv, Waiting, Snapshot, Nothing
<1> QED BY <1>2, <1>3, <1>4, <1>5, <1>6, <1>7, <1>8, <1>9, <1>10, <1>11
        DEF PayerInv, AlwaysInv, CarefulInv

-----------------------------------------------------------------------------
(***************************************************************************)
(* Start and end of the process.                                           *)
(***************************************************************************)
LEMMA BootStep == PayerInv /\ Boot => PayerInv'
<1> SUFFICES ASSUME PayerInv, Boot PROVE PayerInv' OBVIOUS
<1> USE DEF PayerInv, AlwaysInv
<1> DEFINE down == [Stopped EXCEPT !.status = "online-recovery-required"]
<1>1. ui' = Resumed(durable) \/ ui' = down BY DEF Boot
<1>2. /\ durable' = durable /\ queue' = queue /\ received' = received
      /\ merchant' = merchant /\ overlapped' = overlapped
  BY DEF Boot
<1>3. queue = <<>> /\ Len(queue) = 0 BY DEF Boot, ShownInv
<1>4. durable.parent \in Branches /\ durable.frames \in SUBSET AllFrames
      /\ durable.pending \in BOOLEAN
  BY DEF PayerTypeInv, Snapshots
<1>5. <<>> \in Branches /\ <<>> \in Seq(Requests) BY DEF Branches
<1>6. CASE ui' = down
  <2>1. /\ ui'.status = "online-recovery-required" /\ ui'.screen = "home"
        /\ ui' \in [status : {"stopped", "ready", "online-recovery-required"},
                    screen : PayerScreens, challenge : Seq(Requests),
                    branch : Branches, last : Branches, outgoing : SUBSET AllFrames]
    BY <1>5, <1>6 DEF Stopped, PayerScreens, Nothing
  <2>2. PayerTypeInv' BY <1>2, <2>1 DEF PayerTypeInv
  <2>3. ShownInv' BY <1>2, <1>3, <2>1 DEF ShownInv
  <2>4. SeenInv' BY <2>1 DEF SeenInv, At
  <2>5. MerchantInv' BY <1>2 DEF MerchantInv
  <2>6. HeldInv' BY <1>2 DEF HeldInv, HeldBy
  <2>7. CarefulInv'
    <3> SUFFICES ASSUME ~overlapped' PROVE (QueueInv /\ TipInv /\ FreshInv /\ BranchInv /\ PrefixInv)'
      BY DEF CarefulInv
    <3>1. QueueInv' BY <1>2, <1>3 DEF QueueInv, QueueOk
    <3>2. TipInv' /\ FreshInv' BY <2>1 DEF TipInv, FreshInv, At
    <3>3. BranchInv' BY <1>2 DEF CarefulInv, BranchInv, Settled
    <3>4. PrefixInv' BY <1>2 DEF CarefulInv, PrefixInv
    <3> QED BY <3>1, <3>2, <3>3, <3>4
  <2> QED BY <2>2, <2>3, <2>4, <2>5, <2>6, <2>7
<1>7. CASE ui' = Resumed(durable)
  <2>1. /\ ui'.status = "ready"
        /\ ui'.screen = IF durable.pending THEN "show-credential" ELSE "home"
        /\ ui'.branch = durable.parent /\ ui'.last = durable.parent
        /\ ui'.outgoing = IF durable.pending THEN durable.frames ELSE {}
        /\ ui'.challenge = <<>>
    BY <1>7 DEF Resumed, Stopped, Nothing
  <2>2. ui' \in [status : {"stopped", "ready", "online-recovery-required"},
                 screen : PayerScreens, challenge : Seq(Requests),
                 branch : Branches, last : Branches, outgoing : SUBSET AllFrames]
    BY <1>4, <1>5, <1>7 DEF Resumed, Stopped, Nothing, PayerScreens
  <2>3. PayerTypeInv' BY <1>2, <2>2 DEF PayerTypeInv
  <2>4. ShownInv' BY <1>2, <1>3, <1>4, <2>1 DEF ShownInv, Displays
  <2>5. SeenInv' BY <2>1 DEF SeenInv, At
  <2>6. MerchantInv' BY <1>2 DEF MerchantInv
  <2>7. HeldInv' BY <1>2 DEF HeldInv, HeldBy
  <2>8. CarefulInv'
    <3> SUFFICES ASSUME ~overlapped' PROVE (QueueInv /\ TipInv /\ FreshInv /\ BranchInv /\ PrefixInv)'
      BY DEF CarefulInv
    <3>1. QueueInv' BY <1>2, <1>3 DEF QueueInv, QueueOk
    <3>2. TipInv' BY <1>2, <2>1 DEF TipInv
    <3>3. FreshInv' BY <2>1 DEF FreshInv, At
    <3>4. BranchInv' BY <1>2 DEF CarefulInv, BranchInv, Settled
    <3>5. PrefixInv' BY <1>2 DEF CarefulInv, PrefixInv
    <3> QED BY <3>1, <3>2, <3>3, <3>4, <3>5
  <2> QED BY <2>3, <2>4, <2>5, <2>6, <2>7, <2>8
<1> QED BY <1>1, <1>6, <1>7

LEMMA SnapshotTyped ==
  ASSUME NEW F \in SUBSET AllFrames, NEW b \in Branches, NEW p \in BOOLEAN
  PROVE  Snapshot(F, b, p) \in Snapshots
BY DEF Snapshot, Snapshots

LEMMA CallSnapshots ==
  ASSUME NEW b, NEW r
  PROVE  /\ PaymentOf(b, r).snapshot = Snapshot(BundleFrames(Append(b, r)), Append(b, r), TRUE)
         /\ ReceiptOf(b).snapshot = Snapshot(BundleFrames(b), b, FALSE)
BY DEF PaymentOf, ReceiptOf

LEMMA CallParents ==
  ASSUME NEW b, NEW r
  PROVE  /\ PaymentOf(b, r).snapshot.parent = Append(b, r)
         /\ ReceiptOf(b).snapshot.parent = b
BY DEF PaymentOf, ReceiptOf, Snapshot

\* The first waiting call, if it is a payment, is published.
LEMMA PaymentPublished ==
  ASSUME PayerInv, queue # <<>>, Head(queue).kind = "payment",
         durable' = Head(queue).snapshot, merchant' = merchant
  PROVE  /\ durable' \in Snapshots
         /\ durable'.parent = Result(Head(queue))
         /\ durable'.parent \in Branches /\ durable'.parent # <<>>
         /\ durable'.pending /\ durable'.frames = BundleFrames(durable'.parent)
         /\ ~overlapped => /\ Leads(durable.parent, durable'.parent)
                           /\ BranchInv' /\ PrefixInv'
<1> USE DEF PayerInv, AlwaysInv
<1> DEFINE op == Head(queue)
           d == durable.parent
           e == durable'.parent
<1>1. queue \in Seq(Ops) /\ d \in Branches /\ durable.pending \in BOOLEAN
  BY DEF PayerTypeInv, Snapshots
<1>2. op \in Ops /\ op = queue[1] /\ 1 \in 1..Len(queue) BY <1>1, QueueTail
<1>3. IsPay(op) BY DEF IsPay
<1>4. PICK b \in Branches, r \in Payees :
        /\ op.request[1] = r /\ Result(op) = Append(b, r) /\ op = PaymentOf(b, r)
  BY <1>2, <1>3, PayOp
<1>5. /\ durable' = Snapshot(BundleFrames(Append(b, r)), Append(b, r), TRUE)
      /\ e = Append(b, r) /\ e = Result(op)
  <2>1. op.snapshot = Snapshot(BundleFrames(Append(b, r)), Append(b, r), TRUE)
    BY <1>4, CallSnapshots
  <2>2. op.snapshot.parent = Append(b, r) BY <2>1 DEF Snapshot
  <2> QED BY <1>4, <2>1, <2>2
<1>6. e \in Branches /\ e # <<>>
  <2>1. Append(b, r) \in Branches /\ Append(b, r) # <<>> BY Extend
  <2> QED BY <1>5, <2>1
<1>7. BundleFrames(e) \in SUBSET AllFrames BY <1>6, BundleFramesInUniverse
<1>8. durable' \in Snapshots
  <2>1. durable' = Snapshot(BundleFrames(e), e, TRUE) BY <1>5
  <2> HIDE DEF e
  <2> QED BY <1>6, <1>7, <2>1, SnapshotTyped
<1>9. durable'.pending /\ durable'.frames = BundleFrames(e)
  BY <1>5 DEF Snapshot
<1>10. ASSUME ~overlapped
       PROVE  Leads(d, e) /\ BranchInv' /\ PrefixInv'
  <2>1. QueueInv /\ BranchInv /\ PrefixInv BY <1>10 DEF CarefulInv
  <2>2. NextOf(d, op) BY <1>2, <1>3, <2>1 DEF QueueInv, QueueOk
  <2>3. e = d \/ (e = Append(d, r) /\ ~Paid(d, r)) BY <1>4, <1>5, <2>2 DEF NextOf
  <2>4. Leads(d, e) BY <1>1, <2>3, LeadsRefl, Extend
  <2>5. Len(d) \in Nat BY <1>1, LenProperties DEF Branches
  <2>6. Unrepeated(e)
    <3>1. Unrepeated(d) BY <2>1 DEF BranchInv
    <3> QED BY <1>1, <2>3, <3>1, ExtendUnrepeated
  <2>7. \A i \in 1..Settled' : merchant'[e[i]].accepted # Nothing
    <3>1. Settled' = Len(e) - 1 BY <1>9 DEF Settled
    <3>2. CASE e = d
      <4>1. \A i \in 1..(Len(d) - 1) : i \in 1..Settled BY <2>5 DEF Settled
      <4> HIDE DEF d, e
      <4> QED BY <2>1, <3>1, <3>2, <4>1 DEF BranchInv, d
    <3>3. CASE e = Append(d, r) /\ ~Paid(d, r)
      <4>1. Len(e) = Len(d) + 1 /\ \A i \in 1..Len(d) : e[i] = d[i]
        <5>1. /\ Len(Append(d, r)) = Len(d) + 1
              /\ \A i \in 1..Len(d) : Append(d, r)[i] = d[i]
          BY <1>1, Extend
        <5> QED BY <3>3, <5>1
      <4>2. Settled' = Len(d) BY <2>5, <3>1, <4>1
      <4>3. Result(op) # d
        <5>1. Len(e) # Len(d) BY <2>5, <4>1
        <5> QED BY <1>5, <5>1
      <4>4. ui.status = "ready" /\ ui.screen \notin Displays
        BY <1>2, <1>3, <2>1, <4>3 DEF ShownInv, QueueInv, QueueOk
      <4>5. Settled = Len(d) BY <4>4 DEF ShownInv, Settled
      <4> HIDE DEF d, e
      <4> QED BY <2>1, <4>1, <4>2, <4>5 DEF BranchInv, d
    <3> QED BY <2>3, <3>2, <3>3
  <2>8. BranchInv' BY <2>6, <2>7 DEF BranchInv
  <2>9. PrefixInv'
    <3> SUFFICES ASSUME NEW x \in Payees
                 PROVE  /\ Leads(merchant[x].accepted, e)
                        /\ Leads(merchant[x].validated, e)
                        /\ \A f \in merchant[x].received :
                             IsChallengeFrame(f)
                               \/ \E c \in Branches : IsProofOf(f, c) /\ Leads(c, e)
      BY DEF PrefixInv
    <3>1. merchant[x].accepted \in Branches /\ merchant[x].validated \in Branches
      BY DEF PayerTypeInv
    <3> HIDE DEF d, e
    <3>2. \A c \in Branches : Leads(c, d) => Leads(c, e)
      BY <1>1, <1>6, <2>4, LeadsTrans
    <3> QED BY <2>1, <3>1, <3>2 DEF PrefixInv, d
  <2> QED BY <2>4, <2>8, <2>9
<1> QED BY <1>5, <1>6, <1>8, <1>9, <1>10

\* The first waiting call, if it is a receipt, is published.
LEMMA ReceiptPublished ==
  ASSUME PayerInv, queue # <<>>, Head(queue).kind = "receipt",
         durable' = Head(queue).snapshot, merchant' = merchant
  PROVE  /\ durable' \in Snapshots
         /\ durable'.parent \in Branches /\ durable'.parent # <<>>
         /\ ~durable'.pending /\ durable'.frames = BundleFrames(durable'.parent)
         /\ HeldBy(durable'.parent)
         /\ ~overlapped => /\ durable'.parent = durable.parent
                           /\ BranchInv' /\ PrefixInv'
<1> USE DEF PayerInv, AlwaysInv
<1> DEFINE op == Head(queue)
           d == durable.parent
           e == durable'.parent
<1>1. queue \in Seq(Ops) /\ d \in Branches /\ durable.pending \in BOOLEAN
  BY DEF PayerTypeInv, Snapshots
<1>2. op \in Ops /\ op = queue[1] /\ 1 \in 1..Len(queue) BY <1>1, QueueTail
<1>3. PICK b \in Branches : b # <<>> /\ op = ReceiptOf(b) /\ op.snapshot.parent = b
  BY <1>2, ReceiptOp
<1>4. durable' = Snapshot(BundleFrames(b), b, FALSE) /\ e = b
  BY <1>3 DEF ReceiptOf, Snapshot
<1>5. BundleFrames(e) \in SUBSET AllFrames BY <1>3, <1>4, BundleFramesInUniverse
<1>6. durable' \in Snapshots
  <2>1. durable' = Snapshot(BundleFrames(e), e, FALSE) /\ e \in Branches BY <1>4
  <2> HIDE DEF e
  <2> QED BY <1>5, <2>1, SnapshotTyped
<1>7. ~durable'.pending /\ durable'.frames = BundleFrames(e)
  BY <1>4 DEF Snapshot
<1>8. HeldBy(e) BY <1>2, <1>3, <1>4 DEF HeldInv
<1>9. ASSUME ~overlapped
      PROVE  e = d /\ BranchInv' /\ PrefixInv'
  <2>1. QueueInv /\ BranchInv /\ PrefixInv BY <1>9 DEF CarefulInv
  <2>2. e = d BY <1>2, <1>3, <1>4, <2>1 DEF QueueInv, QueueOk
  <2>3. PrefixInv' BY <2>1, <2>2 DEF PrefixInv
  <2>4. Settled' = Len(d) BY <1>7, <2>2 DEF Settled
  <2>5. Len(d) \in Nat \ {0} /\ Last(d) = d[Len(d)] BY <1>3, <1>4, <2>2, LastOfBranch
  <2>6. merchant[d[Len(d)]].accepted # Nothing
    BY <1>3, <1>4, <1>8, <2>2, <2>5 DEF HeldBy, Nothing
  <2>7. \A i \in 1..Len(d) : i \in 1..Settled \/ i = Len(d) BY <1>1, <2>5 DEF Settled
  <2>8. \A i \in 1..Len(d) : merchant[d[i]].accepted # Nothing
    BY <2>1, <2>6, <2>7 DEF BranchInv
  <2>9. BranchInv' BY <2>1, <2>2, <2>4, <2>8 DEF BranchInv
  <2> QED BY <2>2, <2>3, <2>9
<1> QED BY <1>3, <1>4, <1>6, <1>7, <1>8, <1>9

\* What a killed process leaves behind.
LEMMA KillLeaves ==
  ASSUME PayerInv, Kill
  PROVE  \/ durable' = durable
         \/ /\ queue # <<>> /\ Head(queue).kind \in {"payment", "receipt"}
            /\ durable' = Head(queue).snapshot
<1>1. queue \in Seq(Ops) /\ Len(queue) \in Nat
  BY LenProperties DEF PayerInv, PayerTypeInv
<1>2. Min({1, Len(queue)}) = IF Len(queue) = 0 THEN 0 ELSE 1
  <2> DEFINE n == Len(queue)
             m == IF n = 0 THEN 0 ELSE 1
  <2> HIDE DEF n
  <2>1. n \in Nat BY <1>1 DEF n
  <2>2. m \in {1, n} /\ \A y \in {1, n} : m <= y BY <2>1
  <2>3. \A x \in {1, n} : (\A y \in {1, n} : x <= y) => x = m BY <2>1
  <2> HIDE DEF m
  <2>4. Min({1, n}) = m BY <2>2, <2>3 DEF Min
  <2> QED BY <2>4 DEF m, n
<1>3. SUFFICES ASSUME NEW i \in 1..Min({1, Len(queue)}), durable' = Written(queue[i])
               PROVE  \/ durable' = durable
                      \/ /\ queue # <<>> /\ Head(queue).kind \in {"payment", "receipt"}
                         /\ durable' = Head(queue).snapshot
  BY DEF Kill
<1>4. i = 1 /\ Len(queue) # 0 BY <1>1, <1>2
<1>5. queue # <<>> BY <1>4
<1>6. Head(queue) = queue[1] /\ Head(queue) \in Ops BY <1>1, <1>5, QueueTail
<1>7. Head(queue).kind \in {"load", "payment", "receipt"} BY <1>6, OpKinds
<1> QED BY <1>3, <1>4, <1>5, <1>6, <1>7 DEF Written

LEMMA KillStep == PayerInv /\ Kill => PayerInv'
<1> SUFFICES ASSUME PayerInv, Kill PROVE PayerInv' OBVIOUS
<1> USE DEF PayerInv, AlwaysInv
<1>1. /\ ui' = Stopped /\ queue' = <<>> /\ received' = {}
      /\ merchant' = merchant /\ overlapped' = overlapped
  BY DEF Kill
<1>2. /\ durable' \in Snapshots
      /\ durable'.pending => durable'.parent # <<>>
      /\ durable'.parent # <<>> => durable'.frames = BundleFrames(durable'.parent)
      /\ (~durable'.pending /\ durable'.parent # <<>>) => HeldBy(durable'.parent)
      /\ ~overlapped => BranchInv' /\ PrefixInv'
  <2>1. CASE durable' = durable
    <3>1. BranchInv => BranchInv' BY <1>1, <2>1 DEF BranchInv, Settled
    <3>2. PrefixInv => PrefixInv' BY <1>1, <2>1 DEF PrefixInv
    <3> QED BY <2>1, <3>1, <3>2 DEF PayerTypeInv, ShownInv, HeldInv, CarefulInv
  <2>2. CASE queue # <<>> /\ Head(queue).kind = "payment" /\ durable' = Head(queue).snapshot
    <3>1. /\ durable' \in Snapshots
          /\ durable'.parent # <<>> /\ durable'.pending
          /\ durable'.frames = BundleFrames(durable'.parent)
          /\ ~overlapped => BranchInv' /\ PrefixInv'
      BY <1>1, <2>2, PaymentPublished
    <3> QED BY <3>1
  <2>3. CASE queue # <<>> /\ Head(queue).kind = "receipt" /\ durable' = Head(queue).snapshot
    <3>1. /\ durable' \in Snapshots
          /\ durable'.parent # <<>> /\ HeldBy(durable'.parent)
          /\ durable'.frames = BundleFrames(durable'.parent)
          /\ ~overlapped => BranchInv' /\ PrefixInv'
      BY <1>1, <2>3, ReceiptPublished
    <3> QED BY <3>1
  <2> QED BY <2>1, <2>2, <2>3, KillLeaves
<1>3. <<>> \in Branches /\ <<>> \in Seq(Ops) /\ <<>> \in Seq(Requests) /\ Len(<<>>) = 0
  BY DEF Branches
<1>4. PayerTypeInv'
  BY <1>1, <1>2, <1>3 DEF PayerTypeInv, Stopped, PayerScreens, Nothing
<1>5. ui'.status = "stopped" /\ ui'.screen = "home" BY <1>1 DEF Stopped
<1>6. ShownInv' BY <1>1, <1>2, <1>5 DEF ShownInv
<1>7. SeenInv' BY <1>5 DEF SeenInv, At
<1>8. MerchantInv' BY <1>1 DEF MerchantInv
<1>9. HeldInv' BY <1>1, <1>2, <1>3 DEF HeldInv, HeldBy
<1>10. QueueInv' BY <1>1, <1>3 DEF QueueInv, QueueOk
<1>11. TipInv' /\ FreshInv' BY <1>5 DEF TipInv, FreshInv, At
<1>12. CarefulInv' BY <1>1, <1>2, <1>10, <1>11 DEF CarefulInv
<1> QED BY <1>4, <1>6, <1>7, <1>8, <1>9, <1>12

-----------------------------------------------------------------------------
(***************************************************************************)
(* The payer's taps and camera.                                            *)
(***************************************************************************)

\* A tap that only moves from one screen to another of the same sort.
LEMMA MoveStep ==
  ASSUME PayerInv, NEW from \in PayerScreens, NEW to \in PayerScreens,
         At(from), ui' = [ui EXCEPT !.screen = to],
         from \in Displays <=> to \in Displays,
         to # "confirm",
         to \in {"scan-challenge", "scan-receipt"} => received' = {},
         received' \in SUBSET AllFrames,
         UNCHANGED <<durable, queue, merchant, overlapped>>
  PROVE  PayerInv'
<1> USE DEF PayerInv, AlwaysInv
<1>1. /\ ui'.status = "ready" /\ ui'.screen = to /\ ui'.branch = ui.branch
      /\ ui'.last = ui.last /\ ui'.outgoing = ui.outgoing
      /\ ui.status = "ready" /\ ui.screen = from
  BY DEF PayerTypeInv, At
<1>2. PayerTypeInv' BY DEF PayerTypeInv
<1>3. ShownInv' BY <1>1 DEF ShownInv
<1>4. SeenInv' BY <1>1 DEF SeenInv, At
<1>5. MerchantInv' BY DEF MerchantInv
<1>6. HeldInv' BY DEF HeldInv, HeldBy
<1>7. CarefulInv'
  <2> SUFFICES ASSUME ~overlapped PROVE (QueueInv /\ TipInv /\ FreshInv /\ BranchInv /\ PrefixInv)'
    BY DEF CarefulInv
  <2>1. QueueInv' BY <1>1 DEF CarefulInv, QueueInv
  <2>2. TipInv' BY <1>1 DEF CarefulInv, TipInv
  <2>3. FreshInv' BY <1>1 DEF FreshInv, At
  <2>4. BranchInv' BY DEF CarefulInv, BranchInv, Settled
  <2>5. PrefixInv' BY DEF CarefulInv, PrefixInv
  <2> QED BY <2>1, <2>2, <2>3, <2>4, <2>5
<1> QED BY <1>2, <1>3, <1>4, <1>5, <1>6, <1>7

LEMMA TapStep ==
  ASSUME PayerInv,
         \/ StartScan("home", "scan-challenge")
         \/ StartScan("show-credential", "scan-receipt")
         \/ Cancel("scan-challenge", "home")
         \/ Cancel("scan-receipt", "show-credential")
         \/ Cancel("confirm", "home")
  PROVE  PayerInv'
<1>1. received \in SUBSET AllFrames BY DEF PayerInv, PayerTypeInv
<1> USE DEF PayerScreens, Displays
<1>2. CASE StartScan("home", "scan-challenge")
  BY <1>1, <1>2, MoveStep DEF StartScan
<1>3. CASE StartScan("show-credential", "scan-receipt")
  BY <1>1, <1>3, MoveStep DEF StartScan
<1>4. CASE Cancel("scan-challenge", "home")
  BY <1>1, <1>4, MoveStep DEF Cancel
<1>5. CASE Cancel("scan-receipt", "show-credential")
  BY <1>1, <1>5, MoveStep DEF Cancel
<1>6. CASE Cancel("confirm", "home")
  BY <1>1, <1>6, MoveStep DEF Cancel
<1> QED BY <1>2, <1>3, <1>4, <1>5, <1>6

LEMMA ConcludeStep == PayerInv /\ Conclude => PayerInv'
<1> SUFFICES ASSUME PayerInv, Conclude PROVE PayerInv' OBVIOUS
<1> USE DEF PayerInv, AlwaysInv
<1>1. /\ durable' = durable /\ queue' = queue /\ received' = received
      /\ merchant' = merchant /\ overlapped' = overlapped
      /\ ui.status = "ready" /\ ui.screen = "complete"
      /\ ui' = [ui EXCEPT !.challenge = <<>>, !.last = <<>>, !.outgoing = {},
                          !.screen = "home"]
  BY DEF Conclude, At, Nothing
<1>2. ui'.status = "ready" /\ ui'.screen = "home" /\ ui'.branch = ui.branch
  BY <1>1 DEF PayerTypeInv
<1>3. <<>> \in Branches /\ <<>> \in Seq(Requests) BY DEF Branches
<1>4. PayerTypeInv' BY <1>1, <1>3 DEF PayerTypeInv, PayerScreens
<1>5. ShownInv' BY <1>1, <1>2 DEF ShownInv, Displays
<1>6. SeenInv' BY <1>2 DEF SeenInv, At
<1>7. MerchantInv' BY <1>1 DEF MerchantInv
<1>8. HeldInv' BY <1>1 DEF HeldInv, HeldBy
<1>9. CarefulInv'
  <2> SUFFICES ASSUME ~overlapped PROVE (QueueInv /\ TipInv /\ FreshInv /\ BranchInv /\ PrefixInv)'
    BY <1>1 DEF CarefulInv
  <2>1. QueueInv' BY <1>1, <1>2 DEF CarefulInv, QueueInv, Displays
  <2>2. TipInv' BY <1>1, <1>2 DEF CarefulInv, TipInv
  <2>3. FreshInv' BY <1>2 DEF FreshInv, At
  <2>4. BranchInv' BY <1>1 DEF CarefulInv, BranchInv, Settled
  <2>5. PrefixInv' BY <1>1 DEF CarefulInv, PrefixInv
  <2> QED BY <2>1, <2>2, <2>3, <2>4, <2>5
<1> QED BY <1>4, <1>5, <1>6, <1>7, <1>8, <1>9

\* A request the payer may see is a stranger's, or one still unanswered.
LEMMA SeenChallenge ==
  ASSUME NEW f \in ChallengeFrames
  PROVE  \E r \in Requests :
           /\ f.hash = <<r>> /\ f \in AllFrames
           /\ r \in Payees => merchant[r].screen = "show-challenge"
<1>1. PICK r \in {p \in Payees : merchant[p].screen = "show-challenge"}
                   \cup Foreign \cup Own :
        f \in Frames("challenge", EncodeChallenge(r))
  BY DEF ChallengeFrames
<1>2. r \in Requests BY TransportAssumption DEF Payees
<1>3. r \in Payees => merchant[r].screen = "show-challenge" BY DEF Payees
<1>4. f.hash = <<r>> BY <1>1, FrameNames DEF EncodeChallenge
<1>5. f \in AllFrames BY <1>1, <1>2, ChallengeFramesInUniverse
<1> QED BY <1>2, <1>3, <1>4, <1>5

\* A request that its merchant still shows is not on the stored branch.
LEMMA UnansweredIsFresh ==
  ASSUME PayerInv, ~overlapped, ui.status = "ready", ui.screen \notin Displays,
         NEW r \in Payees, merchant[r].screen = "show-challenge"
  PROVE  ~Paid(ui.branch, r)
<1> USE DEF PayerInv, AlwaysInv
<1>1. ui.branch = durable.parent BY DEF CarefulInv, TipInv
<1>2. ~durable.pending BY DEF ShownInv
<1>3. \A i \in 1..Len(durable.parent) : merchant[durable.parent[i]].accepted # Nothing
  BY <1>2 DEF CarefulInv, BranchInv, Settled
<1>4. merchant[r].accepted = Nothing BY DEF MerchantInv
<1> QED BY <1>1, <1>3, <1>4 DEF Paid

LEMMA ScanChallengeStep ==
  ASSUME PayerInv, NEW f \in ChallengeFrames, ScanChallenge(f)
  PROVE  PayerInv'
<1> USE DEF PayerInv, AlwaysInv
<1> DEFINE F == received \cup {f}
           payload == Assemble("challenge", F)
<1>1. /\ ui.status = "ready" /\ ui.screen = "scan-challenge"
      /\ received' = F
      /\ durable' = durable /\ queue' = queue
      /\ merchant' = merchant /\ overlapped' = overlapped
      /\ \/ ui' = ui
         \/ /\ payload # Nothing /\ payload[1] \notin Foreign \cup Own
            /\ ui' = [ui EXCEPT !.challenge = payload, !.screen = "confirm"]
  BY DEF ScanChallenge, At
<1>2. PICK r \in Requests :
        /\ f.hash = <<r>> /\ f \in AllFrames
        /\ r \in Payees => merchant[r].screen = "show-challenge"
  BY SeenChallenge
<1>3. F \in SUBSET AllFrames BY <1>2 DEF PayerTypeInv
<1>4. \A g \in F : \E x \in Requests : g.hash = <<x>>
  BY <1>1, <1>2 DEF SeenInv, At
<1>5. ~overlapped => ~(r \in Payees /\ Paid(ui.branch, r))
  BY <1>1, <1>2, UnansweredIsFresh DEF Displays
<1>6. ~overlapped => \A g \in F : \A x \in Payees : g.hash = <<x>> => ~Paid(ui.branch, x)
  <2> SUFFICES ASSUME ~overlapped, NEW g \in F, NEW x \in Payees, g.hash = <<x>>
               PROVE  ~Paid(ui.branch, x)
    OBVIOUS
  <2>1. CASE g \in received BY <1>1, <2>1 DEF CarefulInv, FreshInv, At
  <2>2. CASE g = f
    <3>1. <<x>> = <<r>> BY <1>2, <2>2
    <3>2. x = r BY <3>1
    <3> QED BY <1>5, <3>2
  <2> QED BY <2>1, <2>2
<1> HIDE DEF F, payload
<1>7. MerchantInv' BY <1>1 DEF MerchantInv
<1>8. HeldInv' BY <1>1 DEF HeldInv, HeldBy
<1>9. BranchInv => BranchInv' BY <1>1 DEF BranchInv, Settled
<1>10. PrefixInv => PrefixInv' BY <1>1 DEF PrefixInv
<1>11. CASE ui' = ui
  <2>1. PayerTypeInv' BY <1>1, <1>3, <1>11 DEF PayerTypeInv
  <2>2. ShownInv' BY <1>1, <1>11 DEF ShownInv
  <2>3. SeenInv' BY <1>1, <1>4, <1>11 DEF SeenInv, At
  <2>4. QueueInv => QueueInv' BY <1>1, <1>11 DEF QueueInv
  <2>5. TipInv => TipInv' BY <1>1, <1>11 DEF TipInv
  <2>6. ~overlapped => FreshInv' BY <1>1, <1>6, <1>11 DEF FreshInv, At
  <2>7. CarefulInv' BY <1>1, <1>9, <1>10, <2>4, <2>5, <2>6 DEF CarefulInv
  <2> QED BY <1>7, <1>8, <2>1, <2>2, <2>3, <2>7
<1>12. CASE /\ payload # Nothing /\ payload[1] \notin Foreign \cup Own
            /\ ui' = [ui EXCEPT !.challenge = payload, !.screen = "confirm"]
  <2>1. payload = f.hash BY <1>12, AssembleNames DEF payload, F
  <2>2. payload = <<r>> /\ r \in Payees BY <1>2, <1>12, <2>1 DEF Payees
  <2>3. /\ ui'.status = "ready" /\ ui'.screen = "confirm" /\ ui'.challenge = <<r>>
        /\ ui'.branch = ui.branch
    BY <1>1, <1>12, <2>2 DEF PayerTypeInv
  <2>4. <<r>> \in Seq(Requests) OBVIOUS
  <2>5. PayerTypeInv' BY <1>1, <1>3, <1>12, <2>2, <2>4 DEF PayerTypeInv, PayerScreens
  <2>6. ShownInv' BY <1>1, <2>3 DEF ShownInv, Displays
  <2>7. SeenInv' BY <2>2, <2>3 DEF SeenInv, At
  <2>8. QueueInv => QueueInv' BY <1>1, <2>3 DEF QueueInv, Displays
  <2>9. TipInv => TipInv' BY <1>1, <2>3 DEF TipInv
  <2>10. ~overlapped => FreshInv'
    <3>1. \A x : <<x>> = <<r>> => x = r OBVIOUS
    <3> QED BY <1>5, <2>2, <2>3, <3>1 DEF FreshInv, At
  <2>11. CarefulInv' BY <1>1, <1>9, <1>10, <2>8, <2>9, <2>10 DEF CarefulInv
  <2> QED BY <1>7, <1>8, <2>5, <2>6, <2>7, <2>11
<1> QED BY <1>1, <1>11, <1>12

LEMMA AuthorizeStep == PayerInv /\ Authorize => PayerInv'
<1> SUFFICES ASSUME PayerInv, Authorize PROVE PayerInv' OBVIOUS
<1> USE DEF PayerInv, AlwaysInv
<1> DEFINE d == durable.parent
<1>1. /\ ui.status = "ready" /\ ui.screen = "confirm"
      /\ durable' = durable /\ ui' = ui /\ received' = received /\ merchant' = merchant
  BY DEF Authorize, At
<1>2. PICK r \in Payees : ui.challenge = <<r>> BY <1>1 DEF SeenInv, At
<1> DEFINE op == LoadOf(ui.branch, r)
<1>3. queue' = Append(queue, op) BY <1>2 DEF Authorize, Call, LoadOf
<1>4. queue \in Seq(Ops) /\ ui.branch \in Branches /\ d \in Branches
  BY DEF PayerTypeInv, Snapshots
<1>5. /\ op \in Ops /\ op.kind = "load" /\ op.request = <<r>> /\ op.request[1] = r
      /\ Result(op) = Append(ui.branch, r)
  <2>1. op \in Ops BY <1>4 DEF Ops
  <2>2. op.kind = "load" /\ op.request = <<r>> /\ op.snapshot = Snapshot({}, ui.branch, FALSE)
    BY DEF LoadOf
  <2>3. op.snapshot.parent = ui.branch BY <2>2 DEF Snapshot
  <2> HIDE DEF op
  <2>4. op.request[1] = r BY <2>2
  <2> QED BY <2>1, <2>2, <2>3, <2>4 DEF Result
<1> HIDE DEF op
<1>6. /\ queue' \in Seq(Ops) /\ queue' # <<>>
      /\ Len(queue') = Len(queue) + 1 /\ Len(queue) \in Nat
      /\ \A i \in 1..Len(queue) : queue'[i] = queue[i]
      /\ queue'[Len(queue) + 1] = op
      /\ \A i \in 1..Len(queue') : i \in 1..Len(queue) \/ i = Len(queue) + 1
  BY <1>3, <1>4, <1>5, QueueAppend
<1>7. /\ overlapped' \in BOOLEAN
      /\ ~overlapped' =>
           ~overlapped /\ \A i \in 1..Len(queue) :
                            IsPay(queue[i]) => queue[i].request = op.request
  BY <1>2, <1>5 DEF Authorize, IsPay, PayerTypeInv
<1>8. PayerTypeInv' BY <1>1, <1>6, <1>7 DEF PayerTypeInv
<1>9. ShownInv' BY <1>1 DEF ShownInv
<1>10. SeenInv' BY <1>1 DEF SeenInv, At
<1>11. MerchantInv' BY <1>1 DEF MerchantInv
<1>12. HeldInv'
  <2>1. \A i \in 1..Len(queue') : queue'[i].kind = "receipt" =>
          i \in 1..Len(queue) /\ queue'[i] = queue[i]
    BY <1>5, <1>6
  <2> QED BY <1>1, <2>1 DEF HeldInv, HeldBy
<1>13. ASSUME ~overlapped'
       PROVE  (QueueInv /\ TipInv /\ FreshInv /\ BranchInv /\ PrefixInv)'
  <2>1. ~overlapped /\ QueueInv /\ TipInv /\ FreshInv /\ BranchInv /\ PrefixInv
    BY <1>7, <1>13 DEF CarefulInv
  <2>2. ui.branch = d BY <1>1, <2>1 DEF TipInv
  <2>3. ~Paid(d, r) BY <1>1, <1>2, <2>1, <2>2 DEF FreshInv, At
  <2>4. IsPay(op) /\ NextOf(d, op) BY <1>5, <2>2, <2>3 DEF IsPay, NextOf
  <2> DEFINE shown == ui.screen \in Displays
  <2>shown. shown \in BOOLEAN /\ ~shown BY <1>1 DEF Displays
  <2>5. QueueOk(queue, d, FALSE)
    BY <1>4, <2>1, <2>shown, QueueOkAnyScreen DEF QueueInv
  <2>6. QueueOk(queue', d, FALSE)
    BY <1>3, <1>4, <1>5, <1>7, <1>13, <2>4, <2>5, QueueOkPay
  <2>7. QueueInv'
    <3>1. QueueOk(queue', d, shown) BY <1>6, <2>6, <2>shown, QueueOkAnyScreen
    <3> QED BY <1>1, <3>1 DEF QueueInv
  <2>8. TipInv' BY <1>1, <2>1 DEF TipInv
  <2>9. FreshInv' BY <1>1, <2>1 DEF FreshInv, At
  <2>10. BranchInv' BY <1>1, <2>1 DEF BranchInv, Settled
  <2>11. PrefixInv' BY <1>1, <2>1 DEF PrefixInv
  <2> QED BY <2>7, <2>8, <2>9, <2>10, <2>11
<1>14. CarefulInv' BY <1>13 DEF CarefulInv
<1> QED BY <1>8, <1>9, <1>10, <1>11, <1>12, <1>14

LEMMA SeenReceipt ==
  ASSUME PayerInv, NEW f \in ReceiptFrames
  PROVE  \E r \in Payees :
           /\ merchant[r].accepted # Nothing /\ merchant[r].accepted \in Branches
           /\ f.hash = EncodeReceipt(merchant[r].accepted) /\ f \in AllFrames
<1>1. PICK r \in {p \in Payees : merchant[p].screen = "verified"} :
        f \in Frames("receipt", EncodeReceipt(merchant[r].accepted))
  BY DEF ReceiptFrames
<1>2. merchant[r].accepted # Nothing BY DEF PayerInv, AlwaysInv, MerchantInv
<1>3. merchant[r].accepted \in Branches BY DEF PayerInv, PayerTypeInv
<1>4. EncodeReceipt(merchant[r].accepted) \in Payloads
  BY <1>2, <1>3, ReceiptPayload DEF Nothing
<1>5. f \in AllFrames BY <1>1, <1>4, FramesInUniverse DEF OfflineMessageKind
<1> QED BY <1>1, <1>2, <1>3, <1>5, FrameNames

LEMMA ScanReceiptStep ==
  ASSUME PayerInv, NEW f \in ReceiptFrames, ScanReceipt(f)
  PROVE  PayerInv'
<1> USE DEF PayerInv, AlwaysInv
<1> DEFINE F == received \cup {f}
           d == durable.parent
           op == ReceiptOf(ui.branch)
<1>1. /\ ui.status = "ready" /\ ui.screen = "scan-receipt" /\ received' = F
      /\ durable' = durable /\ ui' = ui /\ merchant' = merchant /\ overlapped' = overlapped
  BY DEF ScanReceipt, At
<1>2. /\ ui.branch # <<>> /\ ui.last = ui.branch /\ ui.branch \in Branches
      /\ ui.outgoing = BundleFrames(ui.branch)
      /\ queue \in Seq(Ops) /\ d \in Branches
  BY <1>1 DEF ShownInv, Displays, PayerTypeInv, Snapshots
<1>3. \/ queue' = queue
      \/ ReceiptMatches(Assemble("receipt", F)) /\ queue' = Append(queue, op)
  BY <1>2 DEF ScanReceipt, Call, ReceiptOf
<1>4. PICK r \in Payees :
        /\ merchant[r].accepted # Nothing /\ merchant[r].accepted \in Branches
        /\ f.hash = EncodeReceipt(merchant[r].accepted) /\ f \in AllFrames
  BY SeenReceipt
<1>5. F \in SUBSET AllFrames BY <1>4 DEF PayerTypeInv
<1>6. \A g \in F : \E x \in Payees :
        merchant[x].accepted # Nothing /\ g.hash = EncodeReceipt(merchant[x].accepted)
  BY <1>1, <1>4 DEF SeenInv, At
<1>7. ReceiptMatches(Assemble("receipt", F)) => HeldBy(ui.branch)
  <2> SUFFICES ASSUME ReceiptMatches(Assemble("receipt", F)) PROVE HeldBy(ui.branch)
    OBVIOUS
  <2>1. Assemble("receipt", F) = EncodeReceipt(ui.branch)
    BY <1>2 DEF ReceiptMatches
  <2>2. Assemble("receipt", F) # Nothing BY <1>2, <2>1, ReceiptPayload DEF Nothing
  <2>3. f.hash = EncodeReceipt(ui.branch) BY <2>1, <2>2, AssembleNames
  <2>4. merchant[r].accepted = ui.branch
    BY <1>2, <1>4, <2>3, ReceiptInjective DEF Nothing
  <2>5. Last(ui.branch) = r BY <1>4, <2>4 DEF MerchantInv
  <2> QED BY <2>4, <2>5 DEF HeldBy
<1>8. /\ op \in Ops /\ op.kind = "receipt" /\ op.snapshot.parent = ui.branch
  <2>1. op \in Ops BY <1>2 DEF Ops
  <2>2. op.kind = "receipt" BY DEF ReceiptOf
  <2>3. op.snapshot.parent = ui.branch BY CallParents
  <2> QED BY <2>1, <2>2, <2>3
<1> HIDE DEF F, op
<1>9. SeenInv' BY <1>1, <1>6 DEF SeenInv, At
<1>10. MerchantInv' BY <1>1 DEF MerchantInv
<1>11. TipInv => TipInv' BY <1>1 DEF TipInv
<1>12. FreshInv' BY <1>1 DEF FreshInv, At
<1>13. BranchInv => BranchInv' BY <1>1 DEF BranchInv, Settled
<1>14. PrefixInv => PrefixInv' BY <1>1 DEF PrefixInv
<1>15. CASE queue' = queue
  <2>1. PayerTypeInv' BY <1>1, <1>5, <1>15 DEF PayerTypeInv
  <2>2. ShownInv' BY <1>1, <1>15 DEF ShownInv
  <2>3. HeldInv' BY <1>1, <1>15 DEF HeldInv, HeldBy
  <2>4. QueueInv => QueueInv' BY <1>1, <1>15 DEF QueueInv
  <2>5. CarefulInv' BY <1>1, <1>11, <1>12, <1>13, <1>14, <2>4 DEF CarefulInv
  <2> QED BY <1>9, <1>10, <2>1, <2>2, <2>3, <2>5
<1>16. CASE ReceiptMatches(Assemble("receipt", F)) /\ queue' = Append(queue, op)
  <2>1. /\ queue' \in Seq(Ops) /\ queue' # <<>>
        /\ \A i \in 1..Len(queue) : queue'[i] = queue[i]
        /\ queue'[Len(queue) + 1] = op
        /\ \A i \in 1..Len(queue') : i \in 1..Len(queue) \/ i = Len(queue) + 1
    BY <1>2, <1>8, <1>16, QueueAppend
  <2>2. PayerTypeInv' BY <1>1, <1>5, <2>1 DEF PayerTypeInv
  <2>3. ShownInv' BY <1>1 DEF ShownInv
  <2>4. HeldInv' BY <1>1, <1>7, <1>8, <1>16, <2>1 DEF HeldInv, HeldBy
  <2>5. ASSUME ~overlapped, QueueInv, TipInv PROVE QueueInv'
    <3> DEFINE shown == ui.screen \in Displays
    <3>1. shown \in BOOLEAN /\ shown BY <1>1 DEF Displays
    <3>2. ui.branch = d BY <1>1, <2>5 DEF TipInv
    <3>3. QueueOk(queue, d, TRUE) BY <1>2, <2>5, <3>1, QueueOkAnyScreen DEF QueueInv
    <3>4. QueueOk(queue', d, TRUE) BY <1>2, <1>8, <1>16, <3>2, <3>3, QueueOkReceipt
    <3>5. QueueOk(queue', d, shown) BY <2>1, <3>1, <3>4, QueueOkAnyScreen
    <3> QED BY <1>1, <3>5 DEF QueueInv
  <2>6. CarefulInv' BY <1>1, <1>11, <1>12, <1>13, <1>14, <2>5 DEF CarefulInv
  <2> QED BY <1>9, <1>10, <2>2, <2>3, <2>4, <2>6
<1> QED BY <1>3, <1>15, <1>16

-----------------------------------------------------------------------------
(***************************************************************************)
(* The store answers.                                                      *)
(***************************************************************************)

\* createPaymentCredential hands on at most one payment, for the same branch.
LEMMA SignedOp ==
  ASSUME NEW op \in Ops, op.kind = "load"
  PROVE  \/ Signed(op) = <<>>
         \/ \E p \in Ops : /\ Signed(op) = <<p>> /\ p.kind = "payment"
                           /\ p.request = op.request /\ Result(p) = Result(op)
<1>1. PICK b \in Branches, r \in Payees :
        /\ op.request = <<r>> /\ op.snapshot.parent = b /\ Result(op) = Append(b, r)
  BY PayOp DEF IsPay
<1>2. Extended(op) = Append(b, r) BY <1>1, Extend DEF Extended
<1> DEFINE p == PaymentOf(b, r)
<1>3. Signed(op) = <<>> \/ Signed(op) = <<p>>
  BY <1>1, <1>2 DEF Signed, PaymentOf
<1>4. p \in Ops BY DEF Ops
<1>5. p.kind = "payment" /\ p.request = <<r>> BY DEF PaymentOf
<1>6. p.snapshot.parent = Append(b, r) BY CallParents
<1> HIDE DEF p
<1>7. Result(p) = Append(b, r) BY <1>5, <1>6 DEF Result
<1> QED BY <1>1, <1>3, <1>4, <1>5, <1>7

\* The first call is over and the store and the screen are as before; it may
\* have handed a payment to the store.
LEMMA AnsweredStep ==
  ASSUME PayerInv, queue # <<>>,
         \/ queue' = Tail(queue)
         \/ /\ IsPay(Head(queue))
            /\ \E p \in Ops : /\ queue' = Append(Tail(queue), p) /\ p.kind = "payment"
                              /\ p.request = Head(queue).request
                              /\ Result(p) = Result(Head(queue)),
         UNCHANGED <<durable, ui, received, merchant, overlapped>>
  PROVE  PayerInv'
<1> USE DEF PayerInv, AlwaysInv
<1> DEFINE t == Tail(queue)
           d == durable.parent
<1>1. queue \in Seq(Ops) /\ d \in Branches BY DEF PayerTypeInv, Snapshots
<1>2. /\ t \in Seq(Ops)
      /\ Head(queue) = queue[1] /\ Head(queue) \in Ops /\ 1 \in 1..Len(queue)
      /\ \A i \in 1..Len(t) : t[i] = queue[i + 1] /\ i + 1 \in 1..Len(queue)
  BY <1>1, QueueTail
<1>3. SeenInv' BY DEF SeenInv, At
<1>4. MerchantInv' BY DEF MerchantInv
<1>5. TipInv => TipInv' BY DEF TipInv
<1>6. FreshInv => FreshInv' BY DEF FreshInv, At
<1>7. BranchInv => BranchInv' BY DEF BranchInv, Settled
<1>8. PrefixInv => PrefixInv' BY DEF PrefixInv
<1>9. ui.status = "ready" BY DEF ShownInv
<1>10. ShownInv' BY <1>9 DEF ShownInv
<1> DEFINE shown == ui.screen \in Displays
<1>11. shown \in BOOLEAN OBVIOUS
<1>12. QueueInv => QueueOk(t, d, shown)
  BY <1>1, QueueOkTail DEF QueueInv
<1>13. CASE queue' = t
  <2>1. PayerTypeInv' BY <1>2, <1>13 DEF PayerTypeInv
  <2>2. HeldInv' BY <1>2, <1>13 DEF HeldInv, HeldBy
  <2>3. QueueInv => QueueInv' BY <1>12, <1>13 DEF QueueInv
  <2>4. CarefulInv' BY <1>5, <1>6, <1>7, <1>8, <2>3 DEF CarefulInv
  <2> QED BY <1>3, <1>4, <1>10, <2>1, <2>2, <2>4
<1>14. CASE /\ IsPay(Head(queue))
            /\ \E p \in Ops : /\ queue' = Append(t, p) /\ p.kind = "payment"
                              /\ p.request = Head(queue).request
                              /\ Result(p) = Result(Head(queue))
  <2>1. PICK p \in Ops : /\ queue' = Append(t, p) /\ p.kind = "payment"
                         /\ p.request = Head(queue).request
                         /\ Result(p) = Result(Head(queue))
    BY <1>14
  <2> HIDE DEF t
  <2>2. /\ queue' \in Seq(Ops)
        /\ \A i \in 1..Len(t) : queue'[i] = t[i]
        /\ queue'[Len(t) + 1] = p
        /\ \A i \in 1..Len(queue') : i \in 1..Len(t) \/ i = Len(t) + 1
    BY <1>2, <2>1, QueueAppend
  <2>3. PayerTypeInv' BY <2>2 DEF PayerTypeInv
  <2>4. HeldInv'
    <3>1. \A i \in 1..Len(queue') : queue'[i].kind = "receipt" =>
            i + 1 \in 1..Len(queue) /\ queue'[i] = queue[i + 1]
      BY <1>2, <2>1, <2>2
    <3> QED BY <3>1 DEF HeldInv, HeldBy
  <2>5. ASSUME QueueInv PROVE QueueInv'
    <3>1. IsPay(p) BY <2>1 DEF IsPay
    <3>2. NextOf(d, Head(queue)) BY <1>2, <1>14, <2>5 DEF QueueInv, QueueOk
    <3>3. NextOf(d, p) BY <2>1, <3>2 DEF NextOf
    <3>4. shown => Result(p) = d
      BY <1>2, <1>14, <2>1, <2>5 DEF QueueInv, QueueOk
    <3>5. \A i \in 1..Len(t) : IsPay(t[i]) => t[i].request = p.request
      BY <1>2, <1>14, <2>1, <2>5 DEF QueueInv, QueueOk
    <3>6. QueueOk(queue', d, shown)
      <4> HIDE DEF shown
      <4> QED BY <1>2, <1>11, <1>12, <2>1, <2>5, <3>1, <3>3, <3>4, <3>5, QueueOkPay
    <3> QED BY <3>6 DEF QueueInv
  <2>6. CarefulInv' BY <1>5, <1>6, <1>7, <1>8, <2>5 DEF CarefulInv
  <2> QED BY <1>3, <1>4, <1>10, <2>3, <2>4, <2>6
<1> QED BY <1>13, <1>14

LEMMA LoadedOrRefusedStep ==
  ASSUME PayerInv, Dequeue, Loaded(Head(queue)) \/ Refused(Head(queue))
  PROVE  PayerInv'
<1> DEFINE op == Head(queue)
<1>1. queue \in Seq(Ops) /\ queue # <<>> BY DEF PayerInv, PayerTypeInv, Dequeue
<1>2. op \in Ops /\ Tail(queue) \in Seq(Ops) BY <1>1, QueueTail
<1>3. UNCHANGED <<durable, ui, received, merchant, overlapped>>
  BY DEF Dequeue, Loaded, Refused
<1>4. CASE Refused(op) BY <1>1, <1>3, <1>4, AnsweredStep DEF Refused
<1>5. CASE Loaded(op)
  <2>1. op.kind = "load" /\ queue' = Tail(queue) \o Signed(op) BY <1>5 DEF Loaded
  <2>2. IsPay(op) BY <2>1 DEF IsPay
  <2>3. CASE Signed(op) = <<>>
    <3>1. Tail(queue) \o <<>> = Tail(queue) BY <1>2, ConcatEmptySeq
    <3>2. queue' = Tail(queue) BY <2>1, <2>3, <3>1
    <3> QED BY <1>1, <1>3, <3>2, AnsweredStep
  <2>4. CASE \E p \in Ops : /\ Signed(op) = <<p>> /\ p.kind = "payment"
                            /\ p.request = op.request /\ Result(p) = Result(op)
    <3>1. PICK p \in Ops : /\ Signed(op) = <<p>> /\ p.kind = "payment"
                           /\ p.request = op.request /\ Result(p) = Result(op)
      BY <2>4
    <3>2. Append(Tail(queue), p) = Tail(queue) \o <<p>> BY <1>2, AppendIsConcat
    <3>3. queue' = Append(Tail(queue), p) BY <2>1, <3>1, <3>2
    <3> QED BY <1>1, <1>3, <2>2, <3>1, <3>3, AnsweredStep
  <2> QED BY <1>2, <2>1, <2>3, <2>4, SignedOp
<1> QED BY <1>4, <1>5

LEMMA PaymentStoredStep ==
  ASSUME PayerInv, Dequeue, PaymentStored(Head(queue))
  PROVE  PayerInv'
<1> USE DEF PayerInv, AlwaysInv
<1> DEFINE op == Head(queue)
           t == Tail(queue)
           e == durable'.parent
<1>1. /\ queue # <<>> /\ queue' = t /\ op.kind = "payment" /\ durable' = op.snapshot
      /\ received' = received /\ merchant' = merchant /\ overlapped' = overlapped
  BY DEF Dequeue, PaymentStored
<1>2. queue \in Seq(Ops) /\ durable.parent \in Branches BY DEF PayerTypeInv, Snapshots
<1>3. /\ t \in Seq(Ops)
      /\ \A i \in 1..Len(t) : t[i] = queue[i + 1] /\ i + 1 \in 1..Len(queue)
  BY <1>1, <1>2, QueueTail
<1>4. /\ durable' \in Snapshots
      /\ e = Result(op)
      /\ e \in Branches /\ e # <<>>
      /\ durable'.pending /\ durable'.frames = BundleFrames(e)
      /\ ~overlapped => BranchInv' /\ PrefixInv'
  BY <1>1, PaymentPublished
<1>5. ui.status = "ready" BY <1>1 DEF ShownInv
<1>6. ui' = [ui EXCEPT !.branch = e, !.last = e, !.outgoing = BundleFrames(e),
                       !.screen = "show-credential"]
  BY <1>1, <1>4 DEF PaymentStored
<1>7. BundleFrames(e) \in SUBSET AllFrames BY <1>4, BundleFramesInUniverse
<1> HIDE DEF e, t, op
<1>8. /\ ui'.status = "ready" /\ ui'.screen = "show-credential"
      /\ ui'.branch = e /\ ui'.last = e /\ ui'.outgoing = BundleFrames(e)
  BY <1>5, <1>6 DEF PayerTypeInv
<1>9. ui' \in [status : {"stopped", "ready", "online-recovery-required"},
               screen : PayerScreens, challenge : Seq(Requests),
               branch : Branches, last : Branches, outgoing : SUBSET AllFrames]
  BY <1>4, <1>6, <1>7 DEF PayerTypeInv, PayerScreens
<1>10. PayerTypeInv' BY <1>1, <1>3, <1>4, <1>9 DEF PayerTypeInv
<1>11. ShownInv' BY <1>4, <1>8 DEF ShownInv, Displays, e
<1>12. SeenInv' BY <1>8 DEF SeenInv, At
<1>13. MerchantInv' BY <1>1 DEF MerchantInv
<1>14. HeldInv' BY <1>1, <1>3, <1>4 DEF HeldInv, HeldBy
<1>15. ASSUME ~overlapped PROVE QueueInv' /\ TipInv' /\ FreshInv'
  <2>1. QueueInv BY <1>15 DEF CarefulInv
  <2>2. QueueOk(t, Result(op), TRUE)
    BY <1>1, <1>2, <2>1, QueueOkStored DEF QueueInv, t, op
  <2> DEFINE shown == ui'.screen \in Displays
  <2>3. shown \in BOOLEAN /\ shown BY <1>8 DEF Displays
  <2>4. QueueOk(t, e, shown) BY <1>3, <1>4, <2>2, <2>3, QueueOkAnyScreen
  <2>5. QueueInv' BY <1>1, <2>4 DEF QueueInv, e
  <2>6. TipInv' BY <1>8 DEF TipInv, e
  <2>7. FreshInv' BY <1>8 DEF FreshInv, At
  <2> QED BY <2>5, <2>6, <2>7
<1>16. CarefulInv' BY <1>1, <1>4, <1>15 DEF CarefulInv
<1> QED BY <1>10, <1>11, <1>12, <1>13, <1>14, <1>16

LEMMA ReceiptStoredStep ==
  ASSUME PayerInv, Dequeue, ReceiptStored(Head(queue))
  PROVE  PayerInv'
<1> USE DEF PayerInv, AlwaysInv
<1> DEFINE op == Head(queue)
           t == Tail(queue)
           e == durable'.parent
<1>1. /\ queue # <<>> /\ queue' = t /\ op.kind = "receipt" /\ durable' = op.snapshot
      /\ received' = received /\ merchant' = merchant /\ overlapped' = overlapped
      /\ ui' = [ui EXCEPT !.screen = "complete"]
  BY DEF Dequeue, ReceiptStored
<1>2. queue \in Seq(Ops) /\ durable.parent \in Branches BY DEF PayerTypeInv, Snapshots
<1>3. /\ t \in Seq(Ops)
      /\ \A i \in 1..Len(t) : t[i] = queue[i + 1] /\ i + 1 \in 1..Len(queue)
  BY <1>1, <1>2, QueueTail
<1>4. /\ durable' \in Snapshots
      /\ e \in Branches /\ e # <<>>
      /\ ~durable'.pending /\ durable'.frames = BundleFrames(e)
      /\ HeldBy(e)
      /\ ~overlapped => e = durable.parent /\ BranchInv' /\ PrefixInv'
  BY <1>1, ReceiptPublished
<1>5. ui.status = "ready" BY <1>1 DEF ShownInv
<1>6. ui'.status = "ready" /\ ui'.screen = "complete" /\ ui'.branch = ui.branch
  BY <1>1, <1>5 DEF PayerTypeInv
<1> HIDE DEF e, t, op
<1>7. ui' \in [status : {"stopped", "ready", "online-recovery-required"},
               screen : PayerScreens, challenge : Seq(Requests),
               branch : Branches, last : Branches, outgoing : SUBSET AllFrames]
  BY <1>1 DEF PayerTypeInv, PayerScreens
<1>8. PayerTypeInv' BY <1>1, <1>3, <1>4, <1>7 DEF PayerTypeInv
<1>9. ShownInv' BY <1>4, <1>6 DEF ShownInv, Displays, e
<1>10. SeenInv' BY <1>6 DEF SeenInv, At
<1>11. MerchantInv' BY <1>1 DEF MerchantInv
<1>12. HeldInv' BY <1>1, <1>3, <1>4 DEF HeldInv, HeldBy, e
<1>13. ASSUME ~overlapped PROVE QueueInv' /\ TipInv' /\ FreshInv'
  <2>1. QueueInv /\ TipInv BY <1>13 DEF CarefulInv
  <2> DEFINE shown == ui.screen \in Displays
             shownNow == ui'.screen \in Displays
  <2>2. shown \in BOOLEAN /\ shownNow \in BOOLEAN /\ ~shownNow BY <1>6 DEF Displays
  <2>3. QueueOk(t, durable.parent, shown)
    BY <1>1, <1>2, <2>1, QueueOkTail DEF QueueInv, t
  <2>4. QueueOk(t, e, shownNow)
    <3> HIDE DEF shown, shownNow
    <3> QED BY <1>3, <1>4, <1>13, <2>2, <2>3, QueueOkAnyScreen
  <2>5. QueueInv' BY <1>1, <2>4 DEF QueueInv, e
  <2>6. TipInv' BY <1>4, <1>5, <1>6, <1>13, <2>1 DEF TipInv, e
  <2>7. FreshInv' BY <1>6 DEF FreshInv, At
  <2> QED BY <2>5, <2>6, <2>7
<1>14. CarefulInv' BY <1>1, <1>4, <1>13 DEF CarefulInv
<1> QED BY <1>8, <1>9, <1>10, <1>11, <1>12, <1>14

-----------------------------------------------------------------------------
(***************************************************************************)
(* The merchants.                                                          *)
(***************************************************************************)
MerchantRecords ==
  [screen : {"show-challenge", "scan-credential", "verified"},
   received : SUBSET AllFrames, validated : Branches,
   stored : SUBSET AllFrames, accepted : Branches]

\* What the code may leave of one merchant's state.
MerchantOk(r, m) ==
  /\ m.screen = "verified" <=> m.accepted # Nothing
  /\ m.validated # Nothing => Last(m.validated) = r
  /\ m.accepted # Nothing => Last(m.accepted) = r
  /\ \A f \in m.received : IsChallengeFrame(f) \/ \E b \in Branches : IsProofOf(f, b)

MerchantFollows(m, d) ==
  /\ Leads(m.accepted, d)
  /\ Leads(m.validated, d)
  /\ \A f \in m.received :
       IsChallengeFrame(f) \/ \E b \in Branches : IsProofOf(f, b) /\ Leads(b, d)

\* One merchant moves: what it accepted, if it had accepted, stays.
LEMMA MerchantStep ==
  ASSUME PayerInv, NEW r \in Payees, NEW m \in MerchantRecords, Update(r, m),
         MerchantOk(r, m),
         ~overlapped => MerchantFollows(m, durable.parent),
         merchant[r].accepted # Nothing => m.accepted = merchant[r].accepted
  PROVE  PayerInv'
<1> USE DEF PayerInv, AlwaysInv
<1>1. /\ merchant' = [merchant EXCEPT ![r] = m]
      /\ durable' = durable /\ queue' = queue /\ ui' = ui
      /\ received' = received /\ overlapped' = overlapped
  BY DEF Update
<1>2. merchant \in [Payees -> MerchantRecords] BY DEF PayerTypeInv, MerchantRecords
<1>3. \A x \in Payees : merchant'[x] = IF x = r THEN m ELSE merchant[x] BY <1>1, <1>2
<1>4. merchant' \in [Payees -> MerchantRecords] BY <1>1, <1>2
<1>5. \A x \in Payees : merchant[x].accepted # Nothing =>
        merchant'[x].accepted = merchant[x].accepted
  BY <1>3
<1>6. durable.parent \in Branches /\ queue \in Seq(Ops) BY DEF PayerTypeInv, Snapshots
<1>7. PayerTypeInv' BY <1>1, <1>4 DEF PayerTypeInv, MerchantRecords
<1>8. ShownInv' BY <1>1 DEF ShownInv
<1>9. SeenInv' BY <1>1, <1>5 DEF SeenInv, At
<1>10. MerchantInv' BY <1>3 DEF MerchantInv, MerchantOk
<1>11. \A b \in Branches :
         b # <<>> /\ HeldBy(b) => merchant'[Last(b)].accepted = b
  <2> SUFFICES ASSUME NEW b \in Branches, b # <<>>, HeldBy(b)
               PROVE  merchant'[Last(b)].accepted = b
    OBVIOUS
  <2>1. Last(b) \in Payees /\ merchant[Last(b)].accepted = b
    BY LastOfBranch DEF HeldBy
  <2> QED BY <1>5, <2>1 DEF Nothing
<1>12. HeldInv'
  <2>1. (~durable.pending /\ durable.parent # <<>>) =>
          merchant'[Last(durable.parent)].accepted = durable.parent
    BY <1>6, <1>11 DEF HeldInv
  <2>2. \A i \in 1..Len(queue) : queue[i].kind = "receipt" =>
          merchant'[Last(queue[i].snapshot.parent)].accepted = queue[i].snapshot.parent
    <3> SUFFICES ASSUME NEW i \in 1..Len(queue), queue[i].kind = "receipt"
                 PROVE  merchant'[Last(queue[i].snapshot.parent)].accepted
                          = queue[i].snapshot.parent
      OBVIOUS
    <3>1. queue[i] \in Ops BY <1>6, ElementOfSeq
    <3>2. queue[i].snapshot.parent \in Branches /\ queue[i].snapshot.parent # <<>>
      BY <3>1, ReceiptOp
    <3>3. HeldBy(queue[i].snapshot.parent) BY DEF HeldInv
    <3> QED BY <1>11, <3>2, <3>3
  <2> QED BY <1>1, <2>1, <2>2 DEF HeldInv, HeldBy
<1>13. ASSUME ~overlapped
       PROVE  (QueueInv /\ TipInv /\ FreshInv /\ BranchInv /\ PrefixInv)'
  <2>1. QueueInv /\ TipInv /\ FreshInv /\ BranchInv /\ PrefixInv
    BY <1>13 DEF CarefulInv
  <2>2. QueueInv' /\ TipInv' BY <1>1, <2>1 DEF QueueInv, TipInv
  <2>3. FreshInv' BY <1>1, <2>1 DEF FreshInv, At
  <2>4. BranchInv'
    <3>1. Settled' = Settled BY <1>1 DEF Settled
    <3>2. \A i \in 1..Settled : durable.parent[i] \in Payees
      <4>1. Len(durable.parent) \in Nat BY <1>6, LenProperties DEF Branches
      <4>2. \A i \in 1..Settled : i \in 1..Len(durable.parent) BY <4>1 DEF Settled
      <4> QED BY <1>6, <4>2, ElementOfSeq DEF Branches
    <3>3. \A i \in 1..Settled : merchant'[durable.parent[i]].accepted # Nothing
      BY <1>5, <2>1, <3>2 DEF BranchInv
    <3> QED BY <1>1, <2>1, <3>1, <3>3 DEF BranchInv
  <2>5. PrefixInv' BY <1>1, <1>3, <1>13, <2>1 DEF PrefixInv, MerchantFollows
  <2> QED BY <2>2, <2>3, <2>4, <2>5
<1>14. CarefulInv' BY <1>1, <1>13 DEF CarefulInv
<1> QED BY <1>7, <1>8, <1>9, <1>10, <1>12, <1>14

LEMMA MerchantFacts ==
  ASSUME PayerInv, NEW r \in Payees
  PROVE  /\ merchant[r] \in MerchantRecords
         /\ MerchantOk(r, merchant[r])
         /\ ~overlapped => MerchantFollows(merchant[r], durable.parent)
<1>1. merchant[r] \in MerchantRecords BY DEF PayerInv, PayerTypeInv, MerchantRecords
<1>2. MerchantOk(r, merchant[r])
  BY DEF PayerInv, AlwaysInv, MerchantInv, MerchantOk
<1>3. ~overlapped => MerchantFollows(merchant[r], durable.parent)
  BY DEF PayerInv, CarefulInv, PrefixInv, MerchantFollows
<1> QED BY <1>1, <1>2, <1>3

LEMMA CredentialScanStep ==
  ASSUME PayerInv, NEW r \in Payees,
         BeginCredentialScan(r) \/ CancelCredentialScan(r)
  PROVE  PayerInv'
<1> DEFINE old == merchant[r]
<1>1. /\ old \in MerchantRecords /\ MerchantOk(r, old)
      /\ ~overlapped => MerchantFollows(old, durable.parent)
  BY MerchantFacts
<1>2. CASE BeginCredentialScan(r)
  <2> DEFINE m == [old EXCEPT !.screen = "scan-credential", !.received = {}]
  <2>1. Update(r, m) /\ old.screen = "show-challenge" BY <1>2 DEF BeginCredentialScan
  <2> HIDE DEF old
  <2>2. /\ m \in MerchantRecords /\ m.screen = "scan-credential" /\ m.received = {}
        /\ m.accepted = old.accepted /\ m.validated = old.validated
    BY <1>1 DEF MerchantRecords
  <2> HIDE DEF m
  <2>3. MerchantOk(r, m) BY <1>1, <2>1, <2>2 DEF MerchantOk
  <2>4. ~overlapped => MerchantFollows(m, durable.parent)
    BY <1>1, <2>2 DEF MerchantFollows
  <2> QED BY <2>1, <2>2, <2>3, <2>4, MerchantStep DEF old
<1>3. CASE CancelCredentialScan(r)
  <2> DEFINE m == [old EXCEPT !.screen = "show-challenge"]
  <2>1. Update(r, m) /\ old.screen = "scan-credential" BY <1>3 DEF CancelCredentialScan
  <2> HIDE DEF old
  <2>2. /\ m \in MerchantRecords /\ m.screen = "show-challenge" /\ m.received = old.received
        /\ m.accepted = old.accepted /\ m.validated = old.validated
    BY <1>1 DEF MerchantRecords
  <2> HIDE DEF m
  <2>3. MerchantOk(r, m) BY <1>1, <2>1, <2>2 DEF MerchantOk
  <2>4. ~overlapped => MerchantFollows(m, durable.parent)
    BY <1>1, <2>2 DEF MerchantFollows
  <2> QED BY <2>1, <2>2, <2>3, <2>4, MerchantStep DEF old
<1> QED BY <1>2, <1>3

\* A merchant's camera sees the proof on display, or a stranger's challenge.
LEMMA SeenCredential ==
  ASSUME PayerInv, NEW f \in CredentialFrames
  PROVE  /\ f \in AllFrames
         /\ \/ IsChallengeFrame(f)
            \/ /\ ui.branch \in Branches /\ IsProofOf(f, ui.branch)
               /\ ~overlapped => Leads(ui.branch, durable.parent)
<1> USE DEF PayerInv, AlwaysInv
<1>1. CASE At("show-credential") /\ f \in ui.outgoing
  <2>1. /\ ui.branch # <<>> /\ ui.outgoing = BundleFrames(ui.branch)
        /\ ui.branch \in Branches /\ durable.parent \in Branches
        /\ ui.outgoing \in SUBSET AllFrames
    BY <1>1 DEF ShownInv, Displays, At, PayerTypeInv, Snapshots
  <2>2. IsProofOf(f, ui.branch)
    BY <1>1, <2>1, FrameNames DEF BundleFrames, IsProofOf
  <2>3. ~overlapped => ui.branch = durable.parent
    BY <1>1 DEF CarefulInv, TipInv, At
  <2> QED BY <1>1, <2>1, <2>2, <2>3, LeadsRefl
<1>2. CASE \E x \in Foreign : f \in Frames("challenge", EncodeChallenge(x))
  <2>1. PICK x \in Foreign : f \in Frames("challenge", EncodeChallenge(x)) BY <1>2
  <2>2. x \in Requests BY TransportAssumption
  <2> QED BY <2>1, <2>2, FrameNames, ChallengeFramesInUniverse DEF IsChallengeFrame
<1> QED BY <1>1, <1>2 DEF CredentialFrames

LEMMA ScanCredentialStep ==
  ASSUME PayerInv, NEW r \in Payees, NEW f \in CredentialFrames, ScanCredential(r, f)
  PROVE  PayerInv'
<1> DEFINE old == merchant[r]
           F == old.received \cup {f}
           branch == ReceiveCredential(F)
           ok == old.validated = Nothing /\ ValidateMerchantResponse(r, branch)
           m == [old EXCEPT !.received = @ \cup {f},
                            !.validated = IF ok THEN branch ELSE @]
           d == durable.parent
<1>1. /\ old \in MerchantRecords /\ MerchantOk(r, old)
      /\ ~overlapped => MerchantFollows(old, d)
  BY MerchantFacts
<1>2. Update(r, m) /\ old.screen = "scan-credential" BY DEF ScanCredential
<1>3. /\ f \in AllFrames
      /\ \/ IsChallengeFrame(f)
         \/ \E b \in Branches : IsProofOf(f, b) /\ (~overlapped => Leads(b, d))
  BY SeenCredential
<1>4. F \in SUBSET AllFrames BY <1>1, <1>3 DEF MerchantRecords
<1>5. \A g \in F : IsChallengeFrame(g) \/
        \E b \in Branches : IsProofOf(g, b) /\ (~overlapped => Leads(b, d))
  BY <1>1, <1>3 DEF MerchantOk, MerchantFollows
<1>6. branch # Nothing => branch \in Branches /\ (~overlapped => Leads(branch, d))
  <2> SUFFICES ASSUME branch # Nothing
               PROVE  branch \in Branches /\ (~overlapped => Leads(branch, d))
    OBVIOUS
  <2> HIDE DEF F, d
  <2>1. PICK g \in F : g.kind = "bundle" /\ branch = Tail(g.hash)
    BY ReceiveNames
  <2>2. ~IsChallengeFrame(g) BY <2>1 DEF IsChallengeFrame
  <2>3. PICK b \in Branches : IsProofOf(g, b) /\ (~overlapped => Leads(b, d))
    BY <1>5, <2>2
  <2>4. branch = b BY <2>1, <2>3, BundlePayload DEF IsProofOf
  <2> QED BY <2>3, <2>4
<1>7. ok => branch # Nothing /\ Last(branch) = r BY DEF ValidateMerchantResponse
<1> DEFINE v == IF ok THEN branch ELSE old.validated
<1>8. v \in Branches /\ (v # Nothing => Last(v) = r) /\ (~overlapped => Leads(v, d))
  <2> HIDE DEF ok, branch, old, d
  <2> QED BY <1>1, <1>6, <1>7 DEF MerchantRecords, MerchantOk, MerchantFollows
<1>9. m = [old EXCEPT !.received = F, !.validated = v] BY <1>1 DEF MerchantRecords
<1> HIDE DEF m, v, ok, branch, F, old
<1>10. /\ m \in MerchantRecords /\ m.screen = old.screen /\ m.accepted = old.accepted
       /\ m.received = F /\ m.validated = v
  BY <1>1, <1>4, <1>8, <1>9 DEF MerchantRecords
<1>11. MerchantOk(r, m) BY <1>1, <1>5, <1>8, <1>10 DEF MerchantOk
<1>12. ~overlapped => MerchantFollows(m, d)
  BY <1>1, <1>5, <1>8, <1>10 DEF MerchantFollows
<1> QED BY <1>2, <1>10, <1>11, <1>12, MerchantStep DEF old

LEMMA ProofStoredStep ==
  ASSUME PayerInv, NEW r \in Payees, ProofStored(r)
  PROVE  PayerInv'
<1> DEFINE old == merchant[r]
           m == [old EXCEPT !.stored = old.received, !.accepted = old.validated,
                            !.screen = "verified"]
<1>1. /\ old \in MerchantRecords /\ MerchantOk(r, old)
      /\ ~overlapped => MerchantFollows(old, durable.parent)
  BY MerchantFacts
<1>2. Update(r, m) /\ old.validated # Nothing /\ old.accepted = Nothing
  BY DEF ProofStored
<1> HIDE DEF old
<1>3. /\ m \in MerchantRecords /\ m.screen = "verified" /\ m.received = old.received
      /\ m.accepted = old.validated /\ m.validated = old.validated
  BY <1>1 DEF MerchantRecords
<1> HIDE DEF m
<1>4. MerchantOk(r, m) BY <1>1, <1>2, <1>3 DEF MerchantOk
<1>5. ~overlapped => MerchantFollows(m, durable.parent)
  BY <1>1, <1>3 DEF MerchantFollows
<1> QED BY <1>2, <1>3, <1>4, <1>5, MerchantStep DEF old

-----------------------------------------------------------------------------
(***************************************************************************)
(* Every step.                                                             *)
(***************************************************************************)
LEMMA PayerStutter == PayerInv /\ UNCHANGED vars => PayerInv'
<1> SUFFICES ASSUME PayerInv, UNCHANGED vars PROVE PayerInv' OBVIOUS
<1> USE DEF PayerInv, AlwaysInv, vars
<1>1. PayerTypeInv' BY DEF PayerTypeInv
<1>2. ShownInv' /\ SeenInv' BY DEF ShownInv, SeenInv, At
<1>3. MerchantInv' BY DEF MerchantInv
<1>4. HeldInv' BY DEF HeldInv, HeldBy
<1>5. QueueInv => QueueInv' BY DEF QueueInv
<1>6. TipInv => TipInv' BY DEF TipInv
<1>7. FreshInv => FreshInv' BY DEF FreshInv, At
<1>8. BranchInv => BranchInv' BY DEF BranchInv, Settled
<1>9. PrefixInv => PrefixInv' BY DEF PrefixInv
<1>10. CarefulInv' BY <1>5, <1>6, <1>7, <1>8, <1>9 DEF CarefulInv
<1> QED BY <1>1, <1>2, <1>3, <1>4, <1>10

LEMMA PayerNext == PayerInv /\ [Next]_vars => PayerInv'
<1> SUFFICES ASSUME PayerInv, [Next]_vars PROVE PayerInv' OBVIOUS
<1>1. CASE Boot BY <1>1, BootStep
<1>2. CASE Kill BY <1>2, KillStep
<1>3. CASE \/ StartScan("home", "scan-challenge")
           \/ StartScan("show-credential", "scan-receipt")
           \/ Cancel("scan-challenge", "home")
           \/ Cancel("scan-receipt", "show-credential")
           \/ Cancel("confirm", "home")
  BY <1>3, TapStep
<1>4. CASE \E f \in ChallengeFrames : ScanChallenge(f) BY <1>4, ScanChallengeStep
<1>5. CASE Authorize BY <1>5, AuthorizeStep
<1>6. CASE \E f \in ReceiptFrames : ScanReceipt(f) BY <1>6, ScanReceiptStep
<1>7. CASE Conclude BY <1>7, ConcludeStep
<1>8. CASE Perform
  BY <1>8, LoadedOrRefusedStep, PaymentStoredStep, ReceiptStoredStep DEF Perform
<1>9. CASE \E r \in Payees : BeginCredentialScan(r) \/ CancelCredentialScan(r)
  BY <1>9, CredentialScanStep
<1>10. CASE \E r \in Payees : \E f \in CredentialFrames : ScanCredential(r, f)
  BY <1>10, ScanCredentialStep
<1>11. CASE \E r \in Payees : ProofStored(r) BY <1>11, ProofStoredStep
<1>12. CASE UNCHANGED vars BY <1>12, PayerStutter
<1> QED
  BY <1>1, <1>2, <1>3, <1>4, <1>5, <1>6, <1>7, <1>8, <1>9, <1>10, <1>11, <1>12 DEF Next

LEMMA PayerAlways == Spec => []PayerInv
BY PayerInit, PayerNext, PTL DEF Spec

-----------------------------------------------------------------------------
(***************************************************************************)
(* The theorems.                                                           *)
(***************************************************************************)

\* Whatever a merchant accepted lies on the branch the payer restores, unless a
\* payment was authorized while another one waited (authorizePayment stores the
\* proof before it shows it): a restart never rolls the payer back behind a
\* payment.
THEOREM AcceptedAlwaysDurable == Spec => []AcceptedIsDurable
<1>1. PayerInv => AcceptedIsDurable
  <2> SUFFICES ASSUME PayerInv, ~overlapped, NEW r \in Payees
               PROVE  IsPrefix(merchant[r].accepted, durable.parent)
    BY DEF AcceptedIsDurable, Accepted
  <2>1. merchant[r].accepted \in Branches /\ durable.parent \in Branches
    BY DEF PayerInv, PayerTypeInv, Snapshots
  <2>2. Leads(merchant[r].accepted, durable.parent)
    BY DEF PayerInv, CarefulInv, PrefixInv
  <2> QED BY <2>1, <2>2, LeadsIsPrefix
<1> QED BY <1>1, PayerAlways, PTL

\* The snapshot says "delivered" only when the merchant of its last payment
\* holds exactly that proof (scanReceipt), in every state and whatever overlaps.
THEOREM DeliveredAlwaysAccepted == Spec => []DeliveredMeansAccepted
<1>1. PayerInv => DeliveredMeansAccepted
  BY DEF PayerInv, AlwaysInv, HeldInv, HeldBy, DeliveredMeansAccepted
<1> QED BY <1>1, PayerAlways, PTL

\* A stored payment without a receipt is on display once the store is idle,
\* after a restart too (the boot effect), and its merchant can still take it,
\* unless two authorizations overlapped.
THEOREM PendingAlwaysShown == Spec => []PendingIsShown
<1>1. PayerInv => PendingIsShown
  <2> SUFFICES ASSUME PayerInv, ui.status = "ready", ~overlapped, durable.pending
               PROVE  /\ ui.screen \in {"show-credential", "scan-receipt"}
                      /\ ui.outgoing = durable.frames /\ ui.last = durable.parent
                      /\ merchant[Last(durable.parent)].accepted
                           \in {Nothing, durable.parent}
    BY DEF PendingIsShown
  <2> USE DEF PayerInv, AlwaysInv
  <2> DEFINE d == durable.parent
             a == merchant[Last(d)].accepted
  <2>1. d \in Branches /\ d # <<>> /\ durable.frames = BundleFrames(d)
    BY DEF PayerTypeInv, Snapshots, ShownInv
  <2>2. ui.screen \in Displays BY DEF ShownInv
  <2>3. ui.branch = d BY DEF CarefulInv, TipInv
  <2>4. ui.outgoing = durable.frames /\ ui.last = d BY <2>1, <2>2, <2>3 DEF ShownInv
  <2>5. Last(d) \in Payees BY <2>1, LastOfBranch
  <2>6. a \in Branches BY <2>5 DEF PayerTypeInv
  <2>7. Leads(a, d) /\ Unrepeated(d) BY <2>5 DEF CarefulInv, PrefixInv, BranchInv
  <2>8. a # Nothing => Last(a) = Last(d) BY <2>5 DEF MerchantInv
  <2>9. a = Nothing \/ a = d
    <3> HIDE DEF a, d
    <3> QED BY <2>1, <2>6, <2>7, <2>8, SameLast DEF Nothing
  <2> QED BY <2>2, <2>4, <2>9 DEF Displays
<1> QED BY <1>1, PayerAlways, PTL

\* The tip that the next payment extends is the durable one whenever no store
\* call is under way, refused calls and restarts included, unless two
\* authorizations overlapped.
THEOREM TipAlwaysDurable == Spec => []TipIsDurable
<1>1. PayerInv => TipIsDurable
  BY DEF PayerInv, CarefulInv, TipInv, TipIsDurable
<1> QED BY <1>1, PayerAlways, PTL

\* A stored payment is replaced by another one only after a payment was
\* authorized while another one waited for the store; no kill, refused call,
\* retry, repeated scan or late receipt replaces it alone.
THEOREM ReplacementAlwaysNeedsOverlap == Spec => ReplacementNeedsOverlap
<1> DEFINE Grows == IsPrefix(durable.parent, durable'.parent) \/ overlapped'
<1>1. PayerInv /\ [Next]_vars => [Grows]_vars
  <2> SUFFICES ASSUME PayerInv, Next, ~overlapped'
               PROVE  IsPrefix(durable.parent, durable'.parent)
    OBVIOUS
  <2>1. durable.parent \in Branches /\ queue \in Seq(Ops)
    BY DEF PayerInv, PayerTypeInv, Snapshots
  <2>2. CASE durable' = durable BY <2>1, <2>2, LeadsRefl, LeadsIsPrefix
  <2>3. CASE /\ queue # <<>> /\ Head(queue).kind = "payment"
             /\ durable' = Head(queue).snapshot
             /\ merchant' = merchant /\ overlapped' = overlapped
    <3>1. durable'.parent \in Branches /\ Leads(durable.parent, durable'.parent)
      BY <2>3, PaymentPublished
    <3> QED BY <2>1, <3>1, LeadsIsPrefix
  <2>4. CASE /\ queue # <<>> /\ Head(queue).kind = "receipt"
             /\ durable' = Head(queue).snapshot
             /\ merchant' = merchant /\ overlapped' = overlapped
    <3>1. durable'.parent = durable.parent BY <2>4, ReceiptPublished
    <3> QED BY <2>1, <3>1, LeadsRefl, LeadsIsPrefix
  <2>5. CASE Kill
    <3>1. merchant' = merchant /\ overlapped' = overlapped BY <2>5 DEF Kill
    <3> QED BY <2>2, <2>3, <2>4, <2>5, <3>1, KillLeaves
  <2>6. CASE Perform
    BY <2>2, <2>3, <2>4, <2>6
       DEF Perform, Dequeue, Loaded, PaymentStored, ReceiptStored, Refused
  <2>7. CASE ~Kill /\ ~Perform
    BY <2>2, <2>7 DEF Next, Boot, StartScan, Cancel, ScanChallenge, Authorize,
       ScanReceipt, Conclude, BeginCredentialScan, CancelCredentialScan,
       ScanCredential, ProofStored, Update
  <2> QED BY <2>5, <2>6, <2>7
<1>2. Spec => [][Grows]_vars BY <1>1, PayerAlways, PTL DEF Spec
<1> QED BY <1>2 DEF ReplacementNeedsOverlap
=============================================================================
