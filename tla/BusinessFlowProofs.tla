-------------------------- MODULE BusinessFlowProofs --------------------------
(***************************************************************************)
(* Theorems about BusinessFlow, for any identities, amount, enabled flows, *)
(* leads and faults.                                                       *)
(*                                                                         *)
(* The properties of BusinessFlow speak of the driver's memory, of its     *)
(* receipt and of the cluster; what makes them inductive is the place of   *)
(* every send before, at or after the driver's step (NothingAhead,         *)
(* VerifiedBehind), the status of an escrow as evidence of the transaction *)
(* that set it (StatusIsEvidence), and the books of the tokens             *)
(* (FlowBooks, Balances).                                                  *)
(***************************************************************************)
EXTENDS BusinessFlow, EscrowProofs, FiniteSetTheorems

-------------------------------------------------------------------------------
(* The inductive invariant                                                   *)

Pcs == {"step", "send", "confirm", "status", "verify", "simulate", "wait",
        "returned", "threw"}

(* The points at which the driver is inside its current step.               *)
Busy == {"send", "confirm", "status", "verify", "simulate", "wait"}

RunType ==
    [pc : Pcs, i : 1 .. Len(Matrix) + 1, base : Nat, before : Nat, polls : Nat,
     sent : Nat, log : SUBSET [step : StepIds, outcome : Outcomes],
     evidence : SUBSET [step : StepIds, outcome : Outcomes],
     pending : StepIds \cup {None}, status : Outcomes \cup {"RUNNING", "COMPLETE"},
     missed : BOOLEAN]

TxTyped == tx \in [Sends -> TxStates]

RunTyped == run \in RunType

(* The pc, the current step and the pending step agree.                     *)
Place ==
    /\ run.pc \in Busy => /\ run.i \in StepIds /\ run.pending = run.i
                          /\ Matrix[run.i].kind =
                                IF run.pc \in {"simulate", "wait"} THEN run.pc ELSE "send"
    /\ run.pc = "step" => run.pending = None
    /\ run.pc # "returned" => run.status = "RUNNING"
    /\ run.status = "COMPLETE" => run.i \notin StepIds

(* No transaction of a step the driver has not sent.                        *)
NothingAhead ==
    \A j \in Sends : tx[j] # "none" =>
        \/ j < run.i
        \/ j = run.i /\ run.pc \in {"confirm", "status", "verify", "returned", "threw"}

(* Every verified send behind the driver has taken effect.                  *)
VerifiedBehind ==
    \A j \in Sends : j < run.i /\ Matrix[j].expect # None => tx[j] = "ok"

(* The status a send is verified with is only ever set by that send.        *)
StatusIsEvidence ==
    \A j \in Sends :
        Matrix[j].expect # None /\ escrow[Key(j)].status = Matrix[j].expect
            => tx[j] = "ok"

(* The driver's memory names every send, and the receipt is that memory     *)
(* unless the last write was missed.                                        *)
MemoryCovers ==
    /\ \A j \in Sends : tx[j] # "none" =>
          run.pending = j \/ \E entry \in run.log : entry.step = j
    /\ ~run.missed => disk.log = run.log /\ disk.pending = run.pending

(* The time at which the program refuses the instruction of step i for ever.*)
Expired(i) ==
    \/ Matrix[i].name = "initialize" /\ planExpiry(Matrix[i].flow) <= now
    \/ /\ Matrix[i].name \in {"fund", "release"}
       /\ escrow[Key(i)] # Absent /\ now >= escrow[Key(i)].expiry

From(name) == IF name = "initialize" THEN "Absent"
              ELSE IF name \in {"fund", "cancel"} THEN "Initialized" ELSE "Funded"

(* What the program asks of step i, the time that may run out aside.        *)
Acceptable(i) ==
    IF Matrix[i].flow = "setup" THEN SetupNeeds[Matrix[i].name] \subseteq assets
    ELSE /\ InstructionNeeds(Matrix[i].name) \subseteq assets
         /\ escrow[Key(i)].status = From(Matrix[i].name)
         /\ Matrix[i].name = "fund" => tokens[Sponsor] >= escrow[Key(i)].amount
         /\ Matrix[i].name = "refund" => now >= escrow[Key(i)].expiry

(* Nothing but the time can make the program refuse what the preflight      *)
(* accepted.                                                                *)
StillAcceptable ==
    run.pc \in {"confirm", "status"} /\ tx[run.i] # "ok" => Acceptable(run.i)

(* A failure was final when it was logged.                                  *)
FailureIsFinal ==
    \A entry \in run.log : entry.outcome = "CONFIRMED_FAILED" =>
        /\ run.pc = "returned" /\ entry.step = run.i /\ run.i \in Sends
        /\ \/ tx[entry.step] = "failed"
           \/ tx[entry.step] # "ok" /\ Expired(entry.step)

-------------------------------------------------------------------------------
(* The books                                                                 *)

StatusOf(f) == escrow[<<Sponsor, f>>].status

FlowStatus ==
    [release |-> {"Absent", "Initialized", "Funded", "Released"},
     refund |-> {"Absent", "Initialized", "Funded", "Refunded"},
     cancel |-> {"Absent", "Initialized", "Cancelled"}]

OnPlan(e) == /\ e # Absent /\ e.amount = Amount /\ e.contributor = Contributor
             /\ e.sponsor = Sponsor /\ e.maintainer = Maintainer

(* The escrow of a flow: no other flow than the enabled ones has one, its   *)
(* terms are the plan's, its vault holds what its status says, and nothing  *)
(* is funded before the mint.                                               *)
FlowBooks ==
    \A f \in FlowNames : LET k == <<Sponsor, f>> IN
        /\ StatusOf(f) \in FlowStatus[f]
        /\ f \notin Flows => StatusOf(f) = "Absent"
        /\ escrow[k] # Absent => OnPlan(escrow[k])
        /\ tokens[k] = IF StatusOf(f) = "Funded" THEN Amount ELSE 0
        /\ StatusOf(f) \in {"Funded", "Released", "Refunded"} => "mint_tokens" \in assets

Spent(f) == IF StatusOf(f) \in {"Funded", "Released"} THEN Amount ELSE 0

Balances ==
    /\ tokens[Contributor] = IF StatusOf("release") = "Released" THEN Amount ELSE 0
    /\ tokens[Sponsor] = (IF "mint_tokens" \in assets THEN Minted ELSE 0)
                            - Spent("release") - Spent("refund")

(* The mint happens once, and what settled an escrow left it settled.       *)
EffectsRemain ==
    \A j \in Sends :
        /\ Matrix[j].name = "mint_tokens" /\ "mint_tokens" \in assets => tx[j] = "ok"
        /\ Matrix[j].name \in {"release", "refund", "cancel"} /\ tx[j] = "ok"
              => escrow[Key(j)].status = Matrix[j].expect

ChainInv == TypeOK /\ TxTyped /\ StatusIsEvidence /\ FlowBooks /\ Balances
                /\ EffectsRemain

DriverInv == RunTyped /\ Place /\ NothingAhead /\ VerifiedBehind /\ MemoryCovers

MatrixInv == ChainInv /\ DriverInv /\ StillAcceptable /\ FailureIsFinal

-------------------------------------------------------------------------------
(* The sequence of the steps                                                 *)

StepNames ==
    {"create_mint", "sponsor_ata", "contributor_ata", "mint_tokens", "chain_time",
     "initialize", "fund", "unauthorized_release", "before", "release",
     "refund_before_expiry", "wait_expiry", "release_at_or_after_expiry",
     "refund", "cancel"}

StepRecords ==
    [kind : {"send", "time", "simulate", "wait", "read"},
     flow : {"setup"} \cup FlowNames, name : StepNames,
     expect : Status \cup Errors \cup {"any", None}]

(* A send's name, and the status it is verified with, go with its flow.     *)
SendShape(s) ==
    \/ s.flow = "setup" /\ s.expect = None /\ s.name \in DOMAIN SetupNeeds
    \/ s.flow \in Flows /\ s.name = "initialize" /\ s.expect = "Initialized"
    \/ s.flow \in Flows /\ s.name = "fund" /\ s.expect = "Funded" /\ s.flow # "cancel"
    \/ s.flow \in Flows /\ s.name = "release" /\ s.expect = "Released" /\ s.flow = "release"
    \/ s.flow \in Flows /\ s.name = "refund" /\ s.expect = "Refunded" /\ s.flow = "refund"
    \/ s.flow \in Flows /\ s.name = "cancel" /\ s.expect = "Cancelled" /\ s.flow = "cancel"

(* A part of the matrix: the flows F, no name twice in a flow.              *)
Sound(s, F) ==
    /\ s \in Seq(StepRecords)
    /\ \A p \in 1 .. Len(s) : s[p].flow \in F /\ (s[p].kind = "send" => SendShape(s[p]))
    /\ \A p, q \in 1 .. Len(s) :
          s[p].flow = s[q].flow /\ s[p].name = s[q].name => p = q

LEMMA SetupSound == Sound(SetupSteps, {"setup"})
<1>1. SetupSteps \in Seq(StepRecords)
  BY DEF SetupSteps, Step, StepRecords, StepNames
<1>2. Len(SetupSteps) = 5
  BY DEF SetupSteps
<1>3. \A p \in 1 .. 5 : /\ SetupSteps[p].flow = "setup"
                        /\ SetupSteps[p].kind = "send" => SendShape(SetupSteps[p])
  BY DEF SetupSteps, Step, SendShape, SetupNeeds
<1>4. \A p, q \in 1 .. 5 : SetupSteps[p].name = SetupSteps[q].name => p = q
  BY DEF SetupSteps, Step
<1>. QED  BY <1>1, <1>2, <1>3, <1>4 DEF Sound

(* The part of a flow ends with the send its terminal status comes from.    *)
LEMMA FlowSound ==
    ASSUME NEW f \in FlowNames
    PROVE  /\ Sound(StepsOf(f), {f})
           /\ f \in Flows => \E p \in 1 .. Len(StepsOf(f)) :
                 /\ StepsOf(f)[p].kind = "send" /\ StepsOf(f)[p].flow = f
                 /\ StepsOf(f)[p].expect = FinalStatus[f]
                 /\ StepsOf(f)[p].name \in {"release", "refund", "cancel"}
<1>1. CASE f \notin Flows
  <2>1. StepsOf(f) = << >>
    BY <1>1 DEF StepsOf
  <2>. QED  BY <1>1, <2>1 DEF Sound
<1>2. CASE f \in Flows
  <2>. DEFINE s == StepsOf(f)
  <2>1. s = FlowSteps[f]
    BY <1>2 DEF StepsOf
  <2>. HIDE DEF s
  <2>2. CASE f = "release"
    <3>1. s = FlowSteps.release
      BY <2>1, <2>2
    <3>2. s \in Seq(StepRecords) /\ Len(s) = 5
      BY <3>1 DEF FlowSteps, Step, StepRecords, StepNames, FlowNames, Status, Errors
    <3>3. \A p \in 1 .. 5 : s[p].flow = "release" /\ (s[p].kind = "send" => SendShape(s[p]))
      BY <1>2, <2>2, <3>1 DEF FlowSteps, Step, SendShape
    <3>4. \A p, q \in 1 .. 5 : s[p].name = s[q].name => p = q
      BY <3>1 DEF FlowSteps, Step
    <3>5. s[5].kind = "send" /\ s[5].expect = FinalStatus[f] /\ s[5].name = "release"
      BY <2>2, <3>1 DEF FlowSteps, Step, FinalStatus
    <3>6. Sound(s, {f})
      BY <2>2, <3>2, <3>3, <3>4 DEF Sound
    <3>7. \E p \in 1 .. Len(s) :
                 /\ s[p].kind = "send" /\ s[p].flow = f /\ s[p].expect = FinalStatus[f]
                 /\ s[p].name \in {"release", "refund", "cancel"}
      BY <2>2, <3>2, <3>3, <3>5
    <3>. QED  BY <3>6, <3>7 DEF s
  <2>3. CASE f = "refund"
    <3>1. s = FlowSteps.refund
      BY <2>1, <2>3
    <3>2. s \in Seq(StepRecords) /\ Len(s) = 7
      BY <3>1 DEF FlowSteps, Step, StepRecords, StepNames, FlowNames, Status, Errors
    <3>3. \A p \in 1 .. 7 : s[p].flow = "refund" /\ (s[p].kind = "send" => SendShape(s[p]))
      BY <1>2, <2>3, <3>1 DEF FlowSteps, Step, SendShape
    <3>4. \A p, q \in 1 .. 7 : s[p].name = s[q].name => p = q
      BY <3>1 DEF FlowSteps, Step
    <3>5. s[7].kind = "send" /\ s[7].expect = FinalStatus[f] /\ s[7].name = "refund"
      BY <2>3, <3>1 DEF FlowSteps, Step, FinalStatus
    <3>6. Sound(s, {f})
      BY <2>3, <3>2, <3>3, <3>4 DEF Sound
    <3>7. \E p \in 1 .. Len(s) :
                 /\ s[p].kind = "send" /\ s[p].flow = f /\ s[p].expect = FinalStatus[f]
                 /\ s[p].name \in {"release", "refund", "cancel"}
      BY <2>3, <3>2, <3>3, <3>5
    <3>. QED  BY <3>6, <3>7 DEF s
  <2>4. CASE f = "cancel"
    <3>1. s = FlowSteps.cancel
      BY <2>1, <2>4
    <3>2. s \in Seq(StepRecords) /\ Len(s) = 2
      BY <3>1 DEF FlowSteps, Step, StepRecords, StepNames, FlowNames, Status, Errors
    <3>3. \A p \in 1 .. 2 : s[p].flow = "cancel" /\ (s[p].kind = "send" => SendShape(s[p]))
      BY <1>2, <2>4, <3>1 DEF FlowSteps, Step, SendShape
    <3>4. \A p, q \in 1 .. 2 : s[p].name = s[q].name => p = q
      BY <3>1 DEF FlowSteps, Step
    <3>5. s[2].kind = "send" /\ s[2].expect = FinalStatus[f] /\ s[2].name = "cancel"
      BY <2>4, <3>1 DEF FlowSteps, Step, FinalStatus
    <3>6. Sound(s, {f})
      BY <2>4, <3>2, <3>3, <3>4 DEF Sound
    <3>7. \E p \in 1 .. Len(s) :
                 /\ s[p].kind = "send" /\ s[p].flow = f /\ s[p].expect = FinalStatus[f]
                 /\ s[p].name \in {"release", "refund", "cancel"}
      BY <2>4, <3>2, <3>3, <3>5
    <3>. QED  BY <3>6, <3>7 DEF s
  <2>. QED  BY <2>2, <2>3, <2>4 DEF FlowNames
<1>. QED  BY <1>1, <1>2

Joined(F, G, H) == F \cap G = {} /\ H = F \cup G

Carries(u, s) == \A p \in 1 .. Len(s) : \E q \in 1 .. Len(u) : u[q] = s[p]

LEMMA JoinSound ==
    ASSUME NEW s, NEW F, Sound(s, F), NEW t, NEW G, Sound(t, G), NEW H, Joined(F, G, H),
           NEW u, u = s \o t
    PROVE  Sound(u, H) /\ Carries(u, s) /\ Carries(u, t)
<1>1. s \in Seq(StepRecords) /\ t \in Seq(StepRecords)
  BY DEF Sound
<1>2. /\ u \in Seq(StepRecords) /\ Len(s) \in Nat /\ Len(t) \in Nat
      /\ Len(u) = Len(s) + Len(t)
      /\ \A p \in 1 .. Len(s) : u[p] = s[p]
      /\ \A p \in 1 .. Len(t) : u[Len(s) + p] = t[p]
  BY <1>1
<1>3. ASSUME NEW p \in 1 .. Len(u)
      PROVE  \/ p \in 1 .. Len(s) /\ u[p] = s[p]
             \/ p - Len(s) \in 1 .. Len(t) /\ u[p] = t[p - Len(s)]
  <2>1. CASE p <= Len(s)
    BY <1>2, <2>1
  <2>2. CASE p > Len(s)
    <3>1. p - Len(s) \in 1 .. Len(t) /\ Len(s) + (p - Len(s)) = p
      BY <1>2, <2>2
    <3>. QED  BY <1>2, <3>1
  <2>. QED  BY <1>2, <2>1, <2>2
<1>4. \A p \in 1 .. Len(u) :
         /\ u[p].flow \in H
         /\ u[p].kind = "send" => SendShape(u[p])
  BY <1>3 DEF Sound, Joined
<1>5. ASSUME NEW p \in 1 .. Len(u), NEW q \in 1 .. Len(u),
             u[p].flow = u[q].flow, u[p].name = u[q].name
      PROVE  p = q
  <2>1. CASE p \in 1 .. Len(s) /\ q \in 1 .. Len(s)
    BY <1>2, <1>5, <2>1 DEF Sound
  <2>2. CASE p - Len(s) \in 1 .. Len(t) /\ q - Len(s) \in 1 .. Len(t)
    <3>1. u[p] = t[p - Len(s)] /\ u[q] = t[q - Len(s)]
      BY <1>2, <1>3, <2>2
    <3>2. p - Len(s) = q - Len(s)
      BY <1>5, <2>2, <3>1 DEF Sound
    <3>. QED  BY <1>2, <3>2
  <2>3. CASE p \in 1 .. Len(s) /\ q \notin 1 .. Len(s)
    BY <1>3, <1>5, <2>3 DEF Sound, Joined
  <2>4. CASE p \notin 1 .. Len(s) /\ q \in 1 .. Len(s)
    BY <1>3, <1>5, <2>4 DEF Sound, Joined
  <2>. QED  BY <1>3, <2>1, <2>2, <2>3, <2>4
<1>6. Sound(u, H)
  BY <1>2, <1>4, <1>5 DEF Sound
<1>7. /\ \A p \in 1 .. Len(s) : p \in 1 .. Len(u)
      /\ \A p \in 1 .. Len(t) : Len(s) + p \in 1 .. Len(u)
  BY <1>2
<1>. QED  BY <1>2, <1>6, <1>7 DEF Carries

LEMMA CarriesThrough ==
    ASSUME NEW s, NEW t, NEW u, Carries(t, s), Carries(u, t)
    PROVE  Carries(u, s)
<1>. SUFFICES ASSUME NEW p \in 1 .. Len(s)
              PROVE  \E q \in 1 .. Len(u) : u[q] = s[p]
  BY DEF Carries
<1>1. PICK r \in 1 .. Len(t) : t[r] = s[p]
  BY DEF Carries
<1>2. PICK q \in 1 .. Len(u) : u[q] = t[r]
  BY DEF Carries
<1>. QED  BY <1>1, <1>2

(* What the proofs need to know of the matrix.                              *)
LEMMA MatrixSound ==
    /\ Len(Matrix) \in Nat
    /\ \A i \in Sends : SendShape(Matrix[i]) /\ Matrix[i].flow \in {"setup"} \cup FlowNames
    /\ \A i, j \in Sends :
          Matrix[i].flow = Matrix[j].flow /\ Matrix[i].name = Matrix[j].name => i = j
    /\ \A f \in Flows : \E i \in Sends :
          /\ Matrix[i].flow = f /\ Matrix[i].expect = FinalStatus[f]
          /\ Matrix[i].name \in {"release", "refund", "cancel"}
<1>. DEFINE a == SetupSteps
            b == StepsOf("release")
            c == StepsOf("refund")
            d == StepsOf("cancel")
            ab == a \o b
            abc == ab \o c
            F == {"setup"} \cup {"release"}
            G == F \cup {"refund"}
            H == G \cup {"cancel"}
<1>1. /\ Sound(a, {"setup"}) /\ Sound(b, {"release"})
      /\ Sound(c, {"refund"}) /\ Sound(d, {"cancel"})
  BY SetupSound, FlowSound DEF FlowNames
<1>2. \A f \in Flows : f \in FlowNames /\ \E p \in 1 .. Len(StepsOf(f)) :
         /\ StepsOf(f)[p].kind = "send" /\ StepsOf(f)[p].flow = f
         /\ StepsOf(f)[p].expect = FinalStatus[f]
         /\ StepsOf(f)[p].name \in {"release", "refund", "cancel"}
  BY FlowSound, BusinessFlowAssumption
<1>3. Matrix = abc \o d /\ abc = ab \o c /\ ab = a \o b
  BY DEF Matrix
<1>4. /\ Joined({"setup"}, {"release"}, F) /\ Joined(F, {"refund"}, G)
      /\ Joined(G, {"cancel"}, H)
  BY DEF Joined
<1>. HIDE DEF a, b, c, d, ab, abc, F, G, H
<1>5. Sound(ab, F) /\ Carries(ab, b)
  BY <1>1, <1>3, <1>4, JoinSound, Zenon
<1>6. Sound(abc, G) /\ Carries(abc, ab) /\ Carries(abc, c)
  BY <1>1, <1>3, <1>4, <1>5, JoinSound, Zenon
<1>7. Sound(Matrix, H) /\ Carries(Matrix, abc) /\ Carries(Matrix, d)
  BY <1>1, <1>3, <1>4, <1>6, JoinSound, Zenon
<1>8. Carries(Matrix, b) /\ Carries(Matrix, c) /\ Carries(Matrix, d)
  BY <1>5, <1>6, <1>7, CarriesThrough
<1>9. ASSUME NEW f \in Flows
      PROVE  \E i \in Sends :
                /\ Matrix[i].flow = f /\ Matrix[i].expect = FinalStatus[f]
                /\ Matrix[i].name \in {"release", "refund", "cancel"}
  <2>1. PICK p \in 1 .. Len(StepsOf(f)) :
           /\ StepsOf(f)[p].kind = "send" /\ StepsOf(f)[p].flow = f
           /\ StepsOf(f)[p].expect = FinalStatus[f]
           /\ StepsOf(f)[p].name \in {"release", "refund", "cancel"}
    BY <1>2
  <2>2. \E q \in StepIds : Matrix[q] = StepsOf(f)[p]
    BY <1>2, <1>8 DEF b, c, d, FlowNames, Carries, StepIds
  <2>. QED  BY <2>1, <2>2 DEF Sends
<1>. QED  BY <1>7, <1>9 DEF Sound, Sends, StepIds, FlowNames, F, G, H

-------------------------------------------------------------------------------
(* What the transactions do                                                  *)

LEMMA Identities ==
    /\ Sponsor \in Users /\ Maintainer \in Users /\ Contributor \in Users
    /\ Sponsor # Contributor
    /\ \A u \in Users : u \in Owners /\ u \in Keys /\ u # DefaultKey
    /\ \A f \in FlowNames : /\ <<Sponsor, f>> \in EscrowKeys /\ <<Sponsor, f>> \in Owners
                            /\ <<Sponsor, f>> \notin Users /\ f # ZeroRef
    /\ \A f, g \in FlowNames : <<Sponsor, f>> = <<Sponsor, g>> => f = g
    /\ Minted \in Nat /\ Amount \in Nat /\ Amount # 0
<1>1. IsFiniteSet(FlowNames)
  <2>1. IsFiniteSet({"release"}) /\ IsFiniteSet({"refund"}) /\ IsFiniteSet({"cancel"})
    BY FS_Singleton
  <2>2. IsFiniteSet({"release"} \cup {"refund"})
    BY <2>1, FS_Union
  <2>3. IsFiniteSet(({"release"} \cup {"refund"}) \cup {"cancel"})
    BY <2>1, <2>2, FS_Union
  <2>4. ({"release"} \cup {"refund"}) \cup {"cancel"} = FlowNames
    BY DEF FlowNames
  <2>. QED  BY <2>3, <2>4
<1>2. Flows \subseteq FlowNames
  BY BusinessFlowAssumption
<1>3. Cardinality(Flows) \in Nat
  BY <1>1, <1>2, FS_Subset, FS_CardinalityType
<1>4. Minted \in Nat
  BY <1>3, BusinessFlowAssumption DEF Minted
<1>. QED
  BY <1>4, BusinessFlowAssumption, EscrowAssumption DEF Owners, Keys, EscrowKeys

(* The shape of a send, by its flow.                                        *)
LEMMA SendOf ==
    ASSUME NEW i \in Sends
    PROVE  /\ SendShape(Matrix[i]) /\ i \in StepIds /\ i \in Nat
           /\ Matrix[i].kind = "send"
           /\ Matrix[i].flow = "setup" =>
                 /\ Matrix[i].expect = None
                 /\ Matrix[i].name \notin {"initialize", "fund", "release"}
           /\ Matrix[i].flow # "setup" =>
                 /\ Matrix[i].flow \in FlowNames /\ Matrix[i].expect # None
                 /\ Key(i) \in EscrowKeys /\ Key(i) = <<Sponsor, Matrix[i].flow>>
<1>1. SendShape(Matrix[i]) /\ Matrix[i].flow \in {"setup"} \cup FlowNames
  BY MatrixSound
<1>2. Matrix[i].flow # "setup" => Matrix[i].expect # None
  BY <1>1, BusinessFlowAssumption DEF SendShape, Status
<1>3. Matrix[i].flow = "setup" =>
         /\ Matrix[i].expect = None
         /\ Matrix[i].name \notin {"initialize", "fund", "release"}
  BY <1>1, BusinessFlowAssumption DEF SendShape, FlowNames, SetupNeeds
<1>4. i \in StepIds /\ i \in Nat /\ Matrix[i].kind = "send"
  BY MatrixSound DEF Sends, StepIds
<1>. QED  BY <1>1, <1>2, <1>3, <1>4, Identities DEF Key

(* A flow and a status verified name one send.                              *)
LEMMA OneSend ==
    ASSUME NEW i \in Sends, NEW j \in Sends, Matrix[i].flow = Matrix[j].flow,
           Matrix[i].expect = Matrix[j].expect \/ Matrix[i].name = Matrix[j].name,
           Matrix[i].flow # "setup"
    PROVE  i = j
<1>1. SendShape(Matrix[i]) /\ SendShape(Matrix[j])
  BY MatrixSound
<1>2. Matrix[i].name = Matrix[j].name
  BY <1>1 DEF SendShape
<1>. QED  BY <1>2, MatrixSound

LEMMA LoggedEffect ==
    ASSUME TypeOK, NEW k \in EscrowKeys, escrow[k] # Absent,
           NEW st \in {"Funded", "Released", "Refunded", "Cancelled"},
           NEW to \in Owners, NEW amount \in Nat,
           SetStatus(k, st), Emit(k, st, to, amount), now' = now,
           tokens' \in [Owners -> Nat]
    PROVE  /\ TypeOK'
           /\ escrow'[k].status = st /\ escrow'[k] # Absent
           /\ escrow'[k].sponsor = escrow[k].sponsor
           /\ escrow'[k].maintainer = escrow[k].maintainer
           /\ escrow'[k].contributor = escrow[k].contributor
           /\ escrow'[k].amount = escrow[k].amount
           /\ \A j \in EscrowKeys : j # k => escrow'[j] = escrow[j]
<1>1. st \in Status
  BY DEF Status
<1>2. /\ escrow' \in [EscrowKeys -> EscrowAccount \cup {Absent}]
      /\ escrow'[k] = [escrow[k] EXCEPT !.status = st]
      /\ escrow'[k].status = st /\ escrow'[k] # Absent
      /\ escrow'[k].sponsor = escrow[k].sponsor
      /\ escrow'[k].contributor = escrow[k].contributor
      /\ escrow'[k].amount = escrow[k].amount
      /\ \A j \in EscrowKeys : j # k => escrow'[j] = escrow[j]
  BY <1>1, SetStatusEffect
<1>3. events' \in [EscrowKeys -> Seq(Event)]
  BY EmitEffect
<1>4. escrow[k] \in EscrowAccount
  BY StatusTyped
<1>5. escrow'[k].maintainer = escrow[k].maintainer
  BY <1>2, <1>4 DEF EscrowAccount
<1>6. TypeOK'
  BY <1>2, <1>3 DEF TypeOK
<1>. QED  BY <1>2, <1>5, <1>6

(* The principal moves between two accounts.                                *)
Moved(from, to) ==
    /\ tokens'[from] = tokens[from] - Amount
    /\ tokens'[to] = tokens[to] + Amount
    /\ \A o \in Owners : o # from /\ o # to => tokens'[o] = tokens[o]

(* The instruction of a send found the status its name asks for, and left   *)
(* the one it is verified with.                                             *)
LEMMA InstructionEffect ==
    ASSUME TypeOK, RunTyped, FlowBooks, NEW i \in Sends,
           Matrix[i].flow # "setup", EscrowInstruction(i)
    PROVE  /\ TypeOK' /\ now' = now /\ assets' = assets /\ ~Expired(i)
           /\ escrow[Key(i)].status = From(Matrix[i].name)
           /\ escrow'[Key(i)].status = Matrix[i].expect /\ OnPlan(escrow'[Key(i)])
           /\ \A j \in EscrowKeys : j # Key(i) => escrow'[j] = escrow[j]
           /\ Matrix[i].name \in {"initialize", "cancel"} => tokens' = tokens
           /\ Matrix[i].name = "fund" =>
                 Moved(Sponsor, Key(i)) /\ tokens[Sponsor] >= Amount
           /\ Matrix[i].name = "release" => Moved(Key(i), Contributor)
           /\ Matrix[i].name = "refund" => Moved(Key(i), Sponsor)
<1>. DEFINE name == Matrix[i].name
            f == Matrix[i].flow
            k == Key(i)
<1>1. /\ SendShape(Matrix[i]) /\ f \in FlowNames
      /\ k \in EscrowKeys /\ k = <<Sponsor, f>> /\ k \in Owners /\ k \notin Users
  BY SendOf, Identities
<1>2. /\ Sponsor \in Users /\ Contributor \in Users /\ Maintainer \in Users
      /\ Sponsor \in Owners /\ Contributor \in Owners /\ Amount \in Nat
      /\ tokens \in [Owners -> Nat] /\ now \in Nat
  BY Identities, EscrowAssumption DEF TypeOK
<1>3. /\ escrow[k] # Absent => OnPlan(escrow[k])
      /\ assets' = assets
  BY <1>1 DEF FlowBooks, OnPlan, EscrowInstruction
<1>4. CASE name = "initialize"
  <2>. DEFINE x == planExpiry(f)
              e == [sponsor |-> Sponsor, maintainer |-> Maintainer,
                    contributor |-> Contributor, amount |-> Amount,
                    expiry |-> x, status |-> "Initialized"]
  <2>1. InitializeEscrow(Sponsor, f, Amount, x, Maintainer, Contributor)
    BY <1>4 DEF EscrowInstruction
  <2>2. x \in Nat
    BY BusinessFlowAssumption DEF planExpiry, RunTyped, RunType
  <2>3. /\ escrow[k] = Absent /\ x > now /\ escrow' = [escrow EXCEPT ![k] = e]
        /\ UNCHANGED <<now, tokens, events>>
    BY <1>1, <2>1 DEF InitializeEscrow, validate_initialization
  <2>4. e \in EscrowAccount /\ OnPlan(e) /\ e.status = "Initialized"
    BY <1>2, <2>2, Identities DEF EscrowAccount, Status, OnPlan, Absent
  <2>5. ~Expired(i)
    BY <1>2, <1>4, <2>2, <2>3 DEF Expired
  <2>. HIDE DEF e, x
  <2>6. escrow'[k] = e /\ \A j \in EscrowKeys : j # k => escrow'[j] = escrow[j]
    BY <1>1, <2>3 DEF TypeOK
  <2>7. TypeOK'
    BY <1>1, <2>3, <2>4 DEF TypeOK
  <2>8. escrow[k].status = From(name) /\ Matrix[i].expect = "Initialized"
    BY <1>1, <1>4, <2>3 DEF From, Absent, SendShape, SetupNeeds
  <2>. QED  BY <1>3, <1>4, <2>3, <2>4, <2>5, <2>6, <2>7, <2>8
<1>5. CASE name = "fund"
  <2>1. FundEscrow(k, Sponsor)
    BY <1>5 DEF EscrowInstruction
  <2>2. /\ escrow[k] # Absent /\ escrow[k].status = "Initialized"
        /\ now < escrow[k].expiry /\ Transfer(Sponsor, k, escrow[k].amount)
        /\ SetStatus(k, "Funded") /\ Emit(k, "Funded", k, escrow[k].amount)
        /\ now' = now /\ escrow[k].expiry \in Nat
    BY <1>1, <2>1, StatusTyped DEF FundEscrow, can_fund
  <2>3. OnPlan(escrow[k]) /\ escrow[k].amount = Amount
    BY <1>3, <2>2 DEF OnPlan
  <2>4. /\ tokens' \in [Owners -> Nat] /\ Moved(Sponsor, k) /\ tokens[Sponsor] >= Amount
    BY <1>1, <1>2, <2>2, <2>3, TransferEffect DEF Moved, Transfer
  <2>5. /\ TypeOK' /\ escrow'[k].status = "Funded" /\ OnPlan(escrow'[k])
        /\ \A j \in EscrowKeys : j # k => escrow'[j] = escrow[j]
    BY <1>1, <1>2, <2>2, <2>3, <2>4, LoggedEffect DEF OnPlan
  <2>6. ~Expired(i) /\ escrow[k].status = From(name) /\ Matrix[i].expect = "Funded"
    BY <1>1, <1>2, <1>5, <2>2 DEF Expired, From, SendShape, SetupNeeds
  <2>. QED  BY <1>3, <1>5, <2>2, <2>4, <2>5, <2>6
<1>6. CASE name = "release"
  <2>1. Release(k, Maintainer)
    BY <1>6 DEF EscrowInstruction
  <2>2. /\ escrow[k] # Absent /\ escrow[k].status = "Funded"
        /\ now < escrow[k].expiry
        /\ Transfer(k, escrow[k].contributor, escrow[k].amount)
        /\ SetStatus(k, "Released")
        /\ Emit(k, "Released", escrow[k].contributor, escrow[k].amount)
        /\ now' = now /\ escrow[k].expiry \in Nat
    BY <1>1, <2>1, StatusTyped DEF Release, can_release
  <2>3. OnPlan(escrow[k]) /\ escrow[k].amount = Amount /\ escrow[k].contributor = Contributor
    BY <1>3, <2>2 DEF OnPlan
  <2>4. tokens' \in [Owners -> Nat] /\ Moved(k, Contributor)
    BY <1>1, <1>2, <2>2, <2>3, TransferEffect DEF Moved
  <2>5. /\ TypeOK' /\ escrow'[k].status = "Released" /\ OnPlan(escrow'[k])
        /\ \A j \in EscrowKeys : j # k => escrow'[j] = escrow[j]
    BY <1>1, <1>2, <2>2, <2>3, <2>4, LoggedEffect DEF OnPlan
  <2>6. ~Expired(i) /\ escrow[k].status = From(name) /\ Matrix[i].expect = "Released"
    BY <1>1, <1>2, <1>6, <2>2 DEF Expired, From, SendShape, SetupNeeds
  <2>. QED  BY <1>3, <1>6, <2>2, <2>4, <2>5, <2>6
<1>7. CASE name = "refund"
  <2>1. Refund(k, Sponsor)
    BY <1>7 DEF EscrowInstruction
  <2>2. /\ escrow[k] # Absent /\ escrow[k].status = "Funded"
        /\ Transfer(k, Sponsor, escrow[k].amount)
        /\ SetStatus(k, "Refunded") /\ Emit(k, "Refunded", Sponsor, escrow[k].amount)
        /\ now' = now
    BY <2>1 DEF Refund, can_refund
  <2>3. OnPlan(escrow[k]) /\ escrow[k].amount = Amount
    BY <1>3, <2>2 DEF OnPlan
  <2>4. tokens' \in [Owners -> Nat] /\ Moved(k, Sponsor)
    BY <1>1, <1>2, <2>2, <2>3, TransferEffect DEF Moved
  <2>5. /\ TypeOK' /\ escrow'[k].status = "Refunded" /\ OnPlan(escrow'[k])
        /\ \A j \in EscrowKeys : j # k => escrow'[j] = escrow[j]
    BY <1>1, <1>2, <2>2, <2>3, <2>4, LoggedEffect DEF OnPlan
  <2>6. ~Expired(i) /\ escrow[k].status = From(name) /\ Matrix[i].expect = "Refunded"
    BY <1>1, <1>7, <2>2 DEF Expired, From, SendShape, SetupNeeds
  <2>. QED  BY <1>3, <1>7, <2>2, <2>4, <2>5, <2>6
<1>8. CASE name = "cancel"
  <2>1. Cancel(k, Sponsor)
    BY <1>8 DEF EscrowInstruction
  <2>2. /\ escrow[k] # Absent /\ escrow[k].status = "Initialized"
        /\ SetStatus(k, "Cancelled") /\ Emit(k, "Cancelled", Sponsor, 0)
        /\ now' = now /\ tokens' = tokens
    BY <2>1 DEF Cancel, can_cancel
  <2>3. OnPlan(escrow[k]) /\ tokens' \in [Owners -> Nat] /\ 0 \in Nat
    BY <1>2, <1>3, <2>2
  <2>4. /\ TypeOK' /\ escrow'[k].status = "Cancelled" /\ OnPlan(escrow'[k])
        /\ \A j \in EscrowKeys : j # k => escrow'[j] = escrow[j]
    BY <1>1, <1>2, <2>2, <2>3, LoggedEffect DEF OnPlan
  <2>5. ~Expired(i) /\ escrow[k].status = From(name) /\ Matrix[i].expect = "Cancelled"
    BY <1>1, <1>8, <2>2 DEF Expired, From, SendShape, SetupNeeds
  <2>. QED  BY <1>3, <1>8, <2>2, <2>4, <2>5
<1>9. name \in {"initialize", "fund", "release", "refund", "cancel"}
  BY <1>1 DEF SendShape, FlowNames
<1>. QED  BY <1>4, <1>5, <1>6, <1>7, <1>8, <1>9

(* A setup instruction only adds.                                           *)
LEMMA SetupEffect ==
    ASSUME TypeOK, NEW i \in Sends, Matrix[i].flow = "setup",
           SetupInstruction(Matrix[i].name)
    PROVE  /\ TypeOK' /\ UNCHANGED <<now, escrow, events>>
           /\ assets' = assets \cup {Matrix[i].name}
           /\ Matrix[i].name # "mint_tokens" => tokens' = tokens
           /\ Matrix[i].name = "mint_tokens" => tokens'[Sponsor] = tokens[Sponsor] + Minted
           /\ \A o \in Owners : o # Sponsor => tokens'[o] = tokens[o]
           /\ tokens'[Sponsor] >= tokens[Sponsor]
<1>1. Sponsor \in Owners /\ Minted \in Nat /\ tokens \in [Owners -> Nat]
  BY Identities DEF TypeOK
<1>2. /\ UNCHANGED <<now, escrow, events>> /\ assets' = assets \cup {Matrix[i].name}
      /\ tokens' = IF Matrix[i].name = "mint_tokens"
                   THEN [tokens EXCEPT ![Sponsor] = @ + Minted] ELSE tokens
  BY DEF SetupInstruction
<1>3. /\ tokens' \in [Owners -> Nat]
      /\ Matrix[i].name # "mint_tokens" => tokens' = tokens
      /\ Matrix[i].name = "mint_tokens" => tokens'[Sponsor] = tokens[Sponsor] + Minted
      /\ \A o \in Owners : o # Sponsor => tokens'[o] = tokens[o]
      /\ tokens'[Sponsor] >= tokens[Sponsor]
  BY <1>1, <1>2
<1>. QED  BY <1>2, <1>3 DEF TypeOK

-------------------------------------------------------------------------------
(* The cluster keeps the books                                               *)

(* Only the time and what is not "ok" about transactions changed.           *)
LEMMA TxOnly ==
    ASSUME ChainInv, TypeOK', TxTyped', UNCHANGED <<escrow, tokens, assets>>,
           \A j \in Sends : tx'[j] = "ok" <=> tx[j] = "ok"
    PROVE  ChainInv'
<1>1. /\ StatusIsEvidence /\ FlowBooks /\ Balances /\ EffectsRemain
      /\ \A f : StatusOf(f)' = StatusOf(f)
  BY DEF ChainInv, StatusOf
<1>2. StatusIsEvidence'
  BY <1>1 DEF StatusIsEvidence
<1>3. FlowBooks'
  BY <1>1 DEF FlowBooks
<1>4. Balances'
  <2>1. \A f : Spent(f)' = Spent(f)
    BY <1>1 DEF Spent
  <2>. QED  BY <1>1, <2>1 DEF Balances
<1>5. EffectsRemain'
  BY <1>1 DEF EffectsRemain
<1>. QED  BY <1>2, <1>3, <1>4, <1>5 DEF ChainInv

LEMMA InstructionKeepsBooks ==
    ASSUME ChainInv, RunTyped, NEW i \in Sends, tx[i] = "processed",
           Matrix[i].flow # "setup", EscrowInstruction(i), SetTx(i, "ok")
    PROVE  ChainInv'
<1>. DEFINE name == Matrix[i].name
            f == Matrix[i].flow
            k == Key(i)
<1>1. /\ TypeOK /\ TxTyped /\ StatusIsEvidence /\ FlowBooks /\ Balances /\ EffectsRemain
  BY DEF ChainInv
<1>2. /\ SendShape(Matrix[i]) /\ f \in FlowNames /\ Matrix[i].expect # None
      /\ k \in EscrowKeys /\ k = <<Sponsor, f>>
  BY SendOf
<1>3. /\ TypeOK' /\ assets' = assets
      /\ escrow[k].status = From(name)
      /\ escrow'[k].status = Matrix[i].expect /\ OnPlan(escrow'[k])
      /\ \A j \in EscrowKeys : j # k => escrow'[j] = escrow[j]
      /\ name \in {"initialize", "cancel"} => tokens' = tokens
      /\ name = "fund" => Moved(Sponsor, k) /\ tokens[Sponsor] >= Amount
      /\ name = "release" => Moved(k, Contributor)
      /\ name = "refund" => Moved(k, Sponsor)
  BY <1>1, InstructionEffect
<1>4. tx' = [tx EXCEPT ![i] = "ok"] /\ TxTyped' /\ tx'[i] = "ok"
      /\ \A j \in Sends : j # i => tx'[j] = tx[j]
  BY <1>1 DEF SetTx, TxTyped, TxStates
<1>5. /\ StatusOf(f) = From(name) /\ StatusOf(f)' = Matrix[i].expect
      /\ \A g \in FlowNames : g # f =>
            /\ escrow'[<<Sponsor, g>>] = escrow[<<Sponsor, g>>]
            /\ StatusOf(g)' = StatusOf(g)
  BY <1>2, <1>3, Identities DEF StatusOf
<1>6. StatusIsEvidence'
  <2>. SUFFICES ASSUME NEW j \in Sends, Matrix[j].expect # None, j # i,
                       escrow'[Key(j)].status = Matrix[j].expect
                PROVE  tx[j] = "ok"
    BY <1>4 DEF StatusIsEvidence
  <2>1. Matrix[j].flow # "setup" /\ Key(j) = <<Sponsor, Matrix[j].flow>>
        /\ Matrix[j].flow \in FlowNames /\ Key(j) \in EscrowKeys
    BY SendOf
  <2>2. CASE Matrix[j].flow = f
    BY <1>2, <1>3, <2>1, <2>2, OneSend
  <2>3. CASE Matrix[j].flow # f
    BY <1>1, <1>5, <2>1, <2>3 DEF StatusIsEvidence
  <2>. QED  BY <2>2, <2>3
<1>7. EffectsRemain'
  <2>. SUFFICES ASSUME NEW j \in Sends, j # i
                PROVE  /\ Matrix[j].name = "mint_tokens" /\ "mint_tokens" \in assets
                             => tx[j] = "ok"
                       /\ Matrix[j].name \in {"release", "refund", "cancel"}
                             /\ tx[j] = "ok"
                             => escrow'[Key(j)].status = Matrix[j].expect
    <3>1. /\ name # "mint_tokens"
          /\ escrow'[k].status = Matrix[i].expect
      BY <1>2, <1>3 DEF SendShape, SetupNeeds, FlowNames
    <3>. QED  BY <1>3, <1>4, <3>1 DEF EffectsRemain
  <2>1. ASSUME Matrix[j].name \in {"release", "refund", "cancel"}, tx[j] = "ok"
        PROVE  escrow'[Key(j)].status = Matrix[j].expect
    <3>1. /\ SendShape(Matrix[j])
          /\ Matrix[j].flow # "setup" /\ Matrix[j].flow \in FlowNames
          /\ Key(j) = <<Sponsor, Matrix[j].flow>>
          /\ Matrix[j].expect \in {"Released", "Refunded", "Cancelled"}
      BY <2>1, SendOf DEF SendShape, SetupNeeds
    <3>2. escrow[Key(j)].status = Matrix[j].expect
      BY <1>1, <2>1 DEF EffectsRemain
    <3>3. Matrix[j].flow # f
      BY <1>2, <1>3, <3>1, <3>2 DEF From
    <3>. QED  BY <1>5, <3>1, <3>2, <3>3
  <2>. QED  BY <1>1, <2>1 DEF EffectsRemain
<1>8. /\ Sponsor \in Owners /\ Contributor \in Owners /\ Sponsor # Contributor
      /\ Amount \in Nat /\ Amount # 0 /\ tokens \in [Owners -> Nat]
      /\ \A g \in FlowNames : <<Sponsor, g>> \in Owners
                              /\ <<Sponsor, g>> # Sponsor /\ <<Sponsor, g>> # Contributor
      /\ Minted \in Nat
  BY <1>1, Identities DEF TypeOK
<1>9. StatusOf(f)' \in {"Funded", "Released", "Refunded"} => "mint_tokens" \in assets
  <2>1. CASE name = "fund"
    BY <1>1, <1>3, <1>8, <2>1 DEF Balances, Spent
  <2>2. CASE name \in {"release", "refund"}
    <3>1. StatusOf(f) = "Funded"
      BY <1>5, <2>2 DEF From
    <3>. QED  BY <1>1, <1>2, <3>1 DEF FlowBooks
  <2>3. CASE name \notin {"fund", "release", "refund"}
    BY <1>2, <1>5, <2>3 DEF SendShape, FlowNames
  <2>. QED  BY <2>1, <2>2, <2>3
<1>10. StatusOf(f)' \in FlowStatus[f]
  BY <1>2, <1>5 DEF SendShape, FlowStatus, FlowNames
<1>11. tokens'[k] = IF StatusOf(f)' = "Funded" THEN Amount ELSE 0
  <2>1. tokens[k] = IF StatusOf(f) = "Funded" THEN Amount ELSE 0
    BY <1>1, <1>2 DEF FlowBooks
  <2>. HIDE DEF k
  <2>2. CASE name \in {"initialize", "cancel"}
    BY <1>2, <1>3, <1>5, <2>1, <2>2 DEF SendShape, From, SetupNeeds, FlowNames
  <2>3. CASE name = "fund"
    BY <1>2, <1>3, <1>5, <1>8, <2>1, <2>3 DEF SendShape, From, SetupNeeds, FlowNames, Moved
  <2>4. CASE name \in {"release", "refund"}
    BY <1>2, <1>3, <1>5, <1>8, <2>1, <2>4 DEF SendShape, From, SetupNeeds, FlowNames, Moved
  <2>. QED  BY <1>2, <2>2, <2>3, <2>4 DEF SendShape, FlowNames
<1>12. ASSUME NEW g \in FlowNames, g # f
       PROVE  tokens'[<<Sponsor, g>>] = tokens[<<Sponsor, g>>]
  <2>1. <<Sponsor, g>> # k
    BY <1>2, <1>12, Identities
  <2>2. name \in {"initialize", "cancel", "fund", "release", "refund"}
    BY <1>2 DEF SendShape, FlowNames
  <2>. HIDE DEF k
  <2>. QED  BY <1>3, <1>8, <2>1, <2>2 DEF Moved
<1>13. FlowBooks'
  <2>. SUFFICES ASSUME NEW g \in FlowNames
                PROVE  /\ StatusOf(g)' \in FlowStatus[g]
                       /\ g \notin Flows => StatusOf(g)' = "Absent"
                       /\ escrow'[<<Sponsor, g>>] # Absent => OnPlan(escrow'[<<Sponsor, g>>])
                       /\ tokens'[<<Sponsor, g>>] =
                             IF StatusOf(g)' = "Funded" THEN Amount ELSE 0
                       /\ StatusOf(g)' \in {"Funded", "Released", "Refunded"}
                             => "mint_tokens" \in assets'
    BY DEF FlowBooks
  <2>1. CASE g = f
    <3>1. f \in Flows
      BY <1>2 DEF SendShape, FlowNames
    <3>. QED  BY <1>2, <1>3, <1>9, <1>10, <1>11, <2>1, <3>1
  <2>2. CASE g # f
    BY <1>1, <1>3, <1>5, <1>12, <2>2 DEF FlowBooks
  <2>. QED  BY <2>1, <2>2
<1>14. Balances'
  <2>. DEFINE minted == IF "mint_tokens" \in assets THEN Minted ELSE 0
  <2>1. "release" \in FlowNames /\ "refund" \in FlowNames
    BY DEF FlowNames
  <2>2. /\ tokens[Contributor] = IF StatusOf("release") = "Released" THEN Amount ELSE 0
        /\ tokens[Sponsor] = minted - Spent("release") - Spent("refund")
        /\ minted' = minted /\ minted \in Nat /\ Amount \in Nat
        /\ Spent("release") \in Nat /\ Spent("refund") \in Nat
    BY <1>1, <1>3, <1>8 DEF Balances, Spent
  <2>. HIDE DEF minted
  <2>9. ASSUME tokens'[Contributor] =
                   IF StatusOf("release")' = "Released" THEN Amount ELSE 0,
               tokens'[Sponsor] = minted - Spent("release")' - Spent("refund")'
        PROVE  Balances'
    BY <2>2, <2>9 DEF Balances, minted
  <2>. HIDE DEF k
  <2>3. CASE name = "initialize"
    <3>1. tokens' = tokens /\ StatusOf(f) = "Absent" /\ StatusOf(f)' = "Initialized"
      BY <1>2, <1>3, <1>5, <2>3 DEF SendShape, From, SetupNeeds, FlowNames
    <3>2. /\ StatusOf("release")' = "Released" <=> StatusOf("release") = "Released"
          /\ Spent("release")' = Spent("release") /\ Spent("refund")' = Spent("refund")
      BY <1>5, <2>1, <3>1 DEF Spent
    <3>. QED  BY <2>2, <2>9, <3>1, <3>2
  <2>4. CASE name = "cancel"
    <3>1. tokens' = tokens /\ f = "cancel"
      BY <1>2, <1>3, <2>4 DEF SendShape, SetupNeeds, FlowNames
    <3>2. /\ StatusOf("release")' = "Released" <=> StatusOf("release") = "Released"
          /\ Spent("release")' = Spent("release") /\ Spent("refund")' = Spent("refund")
      BY <1>5, <2>1, <3>1 DEF Spent
    <3>. QED  BY <2>2, <2>9, <3>1, <3>2
  <2>5. CASE name = "fund"
    <3>1. /\ f \in {"release", "refund"}
          /\ StatusOf(f) = "Initialized" /\ StatusOf(f)' = "Funded"
          /\ tokens'[Sponsor] = tokens[Sponsor] - Amount
          /\ tokens'[Contributor] = tokens[Contributor]
      BY <1>2, <1>3, <1>5, <1>8, <2>5 DEF SendShape, From, SetupNeeds, FlowNames, Moved
    <3>2. CASE f = "release"
      <4>1. /\ StatusOf("release")' # "Released" /\ StatusOf("release") # "Released"
            /\ Spent("release") = 0 /\ Spent("release")' = Amount
            /\ Spent("refund")' = Spent("refund")
        BY <1>5, <2>1, <3>1, <3>2 DEF Spent
      <4>. QED  BY <2>2, <2>9, <3>1, <4>1
    <3>3. CASE f = "refund"
      <4>1. /\ StatusOf("release")' = "Released" <=> StatusOf("release") = "Released"
            /\ Spent("refund") = 0 /\ Spent("refund")' = Amount
            /\ Spent("release")' = Spent("release")
        BY <1>5, <2>1, <3>1, <3>3 DEF Spent
      <4>. QED  BY <2>2, <2>9, <3>1, <4>1
    <3>. QED  BY <3>1, <3>2, <3>3
  <2>6. CASE name = "release"
    <3>1. /\ f = "release" /\ StatusOf(f) = "Funded" /\ StatusOf(f)' = "Released"
          /\ tokens'[Sponsor] = tokens[Sponsor]
          /\ tokens'[Contributor] = tokens[Contributor] + Amount
      BY <1>2, <1>3, <1>5, <1>8, <2>6 DEF SendShape, From, SetupNeeds, FlowNames, Moved
    <3>2. /\ Spent("release") = Amount /\ Spent("release")' = Amount
          /\ Spent("refund")' = Spent("refund")
      BY <1>5, <2>1, <3>1 DEF Spent
    <3>. QED  BY <2>2, <2>9, <3>1, <3>2
  <2>7. CASE name = "refund"
    <3>1. /\ f = "refund" /\ StatusOf(f) = "Funded" /\ StatusOf(f)' = "Refunded"
          /\ tokens'[Sponsor] = tokens[Sponsor] + Amount
          /\ tokens'[Contributor] = tokens[Contributor]
      BY <1>2, <1>3, <1>5, <1>8, <2>7 DEF SendShape, From, SetupNeeds, FlowNames, Moved
    <3>2. /\ StatusOf("release")' = "Released" <=> StatusOf("release") = "Released"
          /\ Spent("refund") = Amount /\ Spent("refund")' = 0
          /\ Spent("release")' = Spent("release")
      BY <1>5, <2>1, <3>1 DEF Spent
    <3>. QED  BY <2>2, <2>9, <3>1, <3>2
  <2>. QED  BY <1>2, <2>3, <2>4, <2>5, <2>6, <2>7 DEF SendShape, FlowNames
<1>. QED  BY <1>3, <1>4, <1>6, <1>7, <1>13, <1>14 DEF ChainInv

LEMMA SetupKeepsBooks ==
    ASSUME ChainInv, NEW i \in Sends, tx[i] = "processed", Matrix[i].flow = "setup",
           SetupInstruction(Matrix[i].name), SetTx(i, "ok")
    PROVE  ChainInv'
<1>1. /\ TypeOK /\ TxTyped /\ StatusIsEvidence /\ FlowBooks /\ Balances /\ EffectsRemain
  BY DEF ChainInv
<1>2. /\ TypeOK' /\ escrow' = escrow /\ assets' = assets \cup {Matrix[i].name}
      /\ Matrix[i].name # "mint_tokens" => tokens' = tokens
      /\ Matrix[i].name = "mint_tokens" => tokens'[Sponsor] = tokens[Sponsor] + Minted
      /\ \A o \in Owners : o # Sponsor => tokens'[o] = tokens[o]
  BY <1>1, SetupEffect
<1>3. TxTyped' /\ tx'[i] = "ok" /\ \A j \in Sends : j # i => tx'[j] = tx[j]
  BY <1>1 DEF SetTx, TxTyped, TxStates
<1>4. /\ \A f : StatusOf(f)' = StatusOf(f) /\ Spent(f)' = Spent(f)
  BY <1>2 DEF StatusOf, Spent
<1>5. StatusIsEvidence'
  BY <1>1, <1>2, <1>3 DEF StatusIsEvidence
<1>6. EffectsRemain'
  <2>1. ASSUME NEW j \in Sends, Matrix[j].name = "mint_tokens", "mint_tokens" \in assets'
        PROVE  tx'[j] = "ok"
    <3>1. Matrix[j].flow = "setup"
      BY <2>1, SendOf DEF SendShape, FlowNames
    <3>2. CASE Matrix[i].name = "mint_tokens"
      BY <1>3, <2>1, <3>1, <3>2, MatrixSound
    <3>3. CASE Matrix[i].name # "mint_tokens"
      BY <1>1, <1>2, <1>3, <2>1, <3>3 DEF EffectsRemain
    <3>. QED  BY <3>2, <3>3
  <2>2. Matrix[i].name \notin {"release", "refund", "cancel"}
    BY SendOf DEF SendShape, SetupNeeds, FlowNames
  <2>. QED  BY <1>1, <1>2, <1>3, <2>1, <2>2 DEF EffectsRemain
<1>7. FlowBooks'
  <2>1. \A f \in FlowNames : tokens'[<<Sponsor, f>>] = tokens[<<Sponsor, f>>]
    BY <1>2, Identities
  <2>. QED  BY <1>1, <1>2, <1>4, <2>1 DEF FlowBooks
<1>8. Balances'
  <2>1. tokens'[Contributor] = tokens[Contributor]
    BY <1>2, Identities
  <2>2. CASE Matrix[i].name = "mint_tokens"
    <3>1. "mint_tokens" \notin assets /\ "mint_tokens" \in assets'
      BY <1>1, <1>2, <2>2 DEF EffectsRemain
    <3>2. /\ Minted \in Nat /\ Amount \in Nat
          /\ tokens'[Sponsor] = tokens[Sponsor] + Minted
      BY <1>2, <2>2, Identities
    <3>. QED  BY <1>1, <1>4, <2>1, <3>1, <3>2 DEF Balances, Spent
  <2>3. CASE Matrix[i].name # "mint_tokens"
    BY <1>1, <1>2, <1>4, <2>1, <2>3 DEF Balances
  <2>. QED  BY <2>2, <2>3
<1>. QED  BY <1>2, <1>3, <1>5, <1>6, <1>7, <1>8 DEF ChainInv

-------------------------------------------------------------------------------
(* What the preflight accepts                                                *)

(* The preflight, and the processed bank, accept what only the time refuses *)
(* later.                                                                    *)
LEMMA AcceptsMeans ==
    ASSUME TypeOK, RunTyped, FlowBooks, NEW i \in Sends
    PROVE  Accepts(i) <=> Acceptable(i) /\ ~Expired(i)
<1>. DEFINE name == Matrix[i].name
            f == Matrix[i].flow
            k == Key(i)
<1>1. SendShape(Matrix[i])
  BY SendOf
<1>2. CASE f = "setup"
  <2>1. ~Expired(i)
    BY <1>2, SendOf DEF Expired
  <2>. QED  BY <1>2, <2>1 DEF Accepts, Acceptable
<1>3. CASE f # "setup"
  <2>1. /\ f \in FlowNames /\ k \in EscrowKeys /\ k = <<Sponsor, f>> /\ k[2] = f
        /\ name \in {"initialize", "fund", "release", "refund", "cancel"}
    BY <1>1, <1>3, SendOf DEF SendShape, FlowNames
  <2>2. escrow[k] # Absent => /\ OnPlan(escrow[k]) /\ escrow[k].expiry \in Nat
                              /\ escrow[k].status \in Status
    BY <2>1, StatusTyped DEF FlowBooks
  <2>3. now \in Nat /\ planExpiry(f) \in Nat
    BY BusinessFlowAssumption, EscrowAssumption DEF TypeOK, planExpiry, RunTyped, RunType
  <2>4. /\ None # "AccountNotInitialized" /\ None # "InitializeError"
        /\ None # "ConstraintHasOne" /\ None # "InvalidStatus" /\ None # "EscrowExpired"
        /\ None # "EscrowNotExpired" /\ None # "InsufficientFunds"
    BY BusinessFlowAssumption DEF Errors
  <2>5. /\ Accepts(i) <=> ProgramError(name, k, SendSigner(i)) = None
        /\ Acceptable(i) <=>
              /\ InstructionNeeds(name) \subseteq assets
              /\ escrow[k].status = From(name)
              /\ name = "fund" => tokens[Sponsor] >= escrow[k].amount
              /\ name = "refund" => now >= escrow[k].expiry
    BY <1>3 DEF Accepts, Acceptable
  <2>6. /\ Absent.status = "Absent" /\ Absent.status \notin Status
        /\ escrow[k] = Absent <=> escrow[k].status = "Absent"
    BY <2>2 DEF Absent, Status
  <2>7. CASE name = "initialize"
    <3>1. Expired(i) <=> planExpiry(f) <= now
      BY <2>7 DEF Expired
    <3>2. From(name) = "Absent"
      BY <2>7 DEF From
    <3>. HIDE DEF k, f
    <3>3. ProgramError(name, k, SendSigner(i)) =
             IF ~(InstructionNeeds(name) \subseteq assets) THEN "AccountNotInitialized"
             ELSE IF escrow[k] = Absent /\ planExpiry(f) > now THEN None
             ELSE "InitializeError"
      BY <2>1, <2>7 DEF ProgramError
    <3>. QED  BY <2>3, <2>4, <2>5, <2>6, <2>7, <3>1, <3>2, <3>3
  <2>8. CASE name # "initialize"
    <3>1. Expired(i) <=> /\ name \in {"fund", "release"}
                         /\ escrow[k] # Absent /\ now >= escrow[k].expiry
      BY <2>8 DEF Expired
    <3>2. /\ From(name) = IF name \in {"fund", "cancel"} THEN "Initialized" ELSE "Funded"
          /\ SendSigner(i) = IF name = "release" THEN Maintainer ELSE Sponsor
      BY <2>8 DEF From, SendSigner
    <3>. HIDE DEF k, f
    <3>3. CASE ~(InstructionNeeds(name) \subseteq assets)
      BY <2>4, <2>5, <2>8, <3>3 DEF ProgramError
    <3>4. CASE InstructionNeeds(name) \subseteq assets /\ escrow[k] = Absent
      <4>1. ProgramError(name, k, SendSigner(i)) = "AccountNotInitialized"
        BY <2>8, <3>4 DEF ProgramError
      <4>. QED  BY <2>4, <2>5, <2>6, <3>2, <3>4, <4>1
    <3>5. CASE InstructionNeeds(name) \subseteq assets /\ escrow[k] # Absent
      <4>1. ProgramError(name, k, SendSigner(i)) =
               IF name = "release" /\ SendSigner(i) # escrow[k].maintainer
               THEN "ConstraintHasOne"
               ELSE IF escrow[k].status # From(name) THEN "InvalidStatus"
               ELSE IF name \in {"fund", "release"} /\ now >= escrow[k].expiry
               THEN "EscrowExpired"
               ELSE IF name = "refund" /\ now < escrow[k].expiry THEN "EscrowNotExpired"
               ELSE IF name = "fund" /\ tokens[SendSigner(i)] < escrow[k].amount
               THEN "InsufficientFunds"
               ELSE None
        BY <2>8, <3>2, <3>5 DEF ProgramError
      <4>2. /\ name = "release" => SendSigner(i) = escrow[k].maintainer
            /\ name = "fund" => SendSigner(i) = Sponsor
        BY <2>2, <3>2, <3>5 DEF OnPlan
      <4>3. tokens[Sponsor] \in Nat /\ escrow[k].amount \in Nat
        BY <2>2, <3>5, Identities DEF TypeOK, OnPlan
      <4>. QED  BY <2>2, <2>3, <2>4, <2>5, <3>1, <3>5, <4>1, <4>2, <4>3
    <3>. QED  BY <3>3, <3>4, <3>5
  <2>. QED  BY <2>7, <2>8
<1>. QED  BY <1>2, <1>3

(* Time and more assets do not undo what was acceptable, and an expiry that *)
(* has passed has passed.                                                   *)
LEMMA AcceptableKept ==
    ASSUME TypeOK, TypeOK', RunTyped, FlowBooks, NEW i \in Sends, escrow' = escrow,
           assets \subseteq assets', now' >= now, run'.base = run.base,
           tokens'[Sponsor] >= tokens[Sponsor]
    PROVE  /\ Acceptable(i) => Acceptable(i)'
           /\ Expired(i) => Expired(i)'
<1>1. /\ now \in Nat /\ now' \in Nat
      /\ tokens[Sponsor] \in Nat /\ tokens'[Sponsor] \in Nat
  BY EscrowAssumption, Identities DEF TypeOK
<1>2. CASE Matrix[i].flow = "setup"
  <2>1. ~Expired(i)
    BY <1>2, SendOf DEF Expired
  <2>2. Acceptable(i) => Acceptable(i)'
    BY <1>2 DEF Acceptable
  <2>. QED  BY <2>1, <2>2
<1>3. CASE Matrix[i].flow # "setup"
  <2>1. Key(i) \in EscrowKeys /\ planExpiry(Matrix[i].flow)' = planExpiry(Matrix[i].flow)
        /\ planExpiry(Matrix[i].flow) \in Nat
    BY <1>3, SendOf, BusinessFlowAssumption DEF planExpiry, RunTyped, RunType
  <2>2. escrow[Key(i)] # Absent => escrow[Key(i)].expiry \in Nat /\ escrow[Key(i)].amount \in Nat
    BY <2>1, StatusTyped
  <2>3. Expired(i) => Expired(i)'
    BY <1>1, <2>1, <2>2 DEF Expired
  <2>4. Acceptable(i) => Acceptable(i)'
    <3>. SUFFICES ASSUME Acceptable(i) PROVE Acceptable(i)'
      OBVIOUS
    <3>1. /\ InstructionNeeds(Matrix[i].name) \subseteq assets
          /\ escrow[Key(i)].status = From(Matrix[i].name)
          /\ Matrix[i].name = "fund" => tokens[Sponsor] >= escrow[Key(i)].amount
          /\ Matrix[i].name = "refund" => now >= escrow[Key(i)].expiry
      BY <1>3 DEF Acceptable
    <3>2. Matrix[i].name \in {"fund", "refund"} => escrow[Key(i)] # Absent
      BY <3>1 DEF From, Absent
    <3>3. /\ Matrix[i].name = "fund" => tokens'[Sponsor] >= escrow'[Key(i)].amount
          /\ Matrix[i].name = "refund" => now' >= escrow'[Key(i)].expiry
      BY <1>1, <2>2, <3>1, <3>2
    <3>. QED  BY <1>3, <3>1, <3>3 DEF Acceptable
  <2>. QED  BY <2>3, <2>4
<1>. QED  BY <1>2, <1>3

-------------------------------------------------------------------------------
(* Steps of the cluster                                                      *)

(* Transactions move on, the driver does not.                               *)
LEMMA ClusterKeepsDriver ==
    ASSUME DriverInv, UNCHANGED <<run, disk>>,
           \A j \in Sends : /\ tx[j] = "none" => tx'[j] = "none"
                            /\ tx[j] = "ok" => tx'[j] = "ok"
    PROVE  DriverInv'
<1>1. RunTyped' /\ Place'
  BY DEF DriverInv, RunTyped, Place
<1>2. NothingAhead' /\ VerifiedBehind'
  BY DEF DriverInv, NothingAhead, VerifiedBehind
<1>3. MemoryCovers'
  BY DEF DriverInv, MemoryCovers
<1>. QED  BY <1>1, <1>2, <1>3 DEF DriverInv

(* While a driver's transaction is open, the only others that may still     *)
(* execute are setup transactions.                                          *)
LEMMA OthersAreSetup ==
    ASSUME DriverInv, NEW i \in Sends, tx[i] \notin {"none", "ok"}
    PROVE  /\ i <= run.i
           /\ i # run.i => Matrix[i].flow = "setup"
<1>1. /\ NothingAhead /\ VerifiedBehind /\ i \in Nat /\ run.i \in Nat
  BY SendOf, MatrixSound DEF DriverInv, RunTyped, RunType
<1>. QED  BY <1>1, SendOf DEF NothingAhead, VerifiedBehind

(* A step of the cluster that leaves what was acceptable acceptable, and    *)
(* that neither revives a failure nor runs what has expired.                *)
LEMMA ClusterKeepsPromises ==
    ASSUME MatrixInv, TypeOK', UNCHANGED run,
           assets \subseteq assets', now' >= now,
           tokens'[Sponsor] >= tokens[Sponsor], escrow' = escrow,
           \A j \in Sends : /\ tx[j] = "ok" => tx'[j] = "ok"
                            /\ tx[j] = "failed" => tx'[j] = "failed"
                            /\ tx'[j] = "ok" => tx[j] = "ok" \/ Matrix[j].flow = "setup"
    PROVE  StillAcceptable' /\ FailureIsFinal'
<1>1. /\ TypeOK /\ RunTyped /\ FlowBooks /\ StillAcceptable /\ FailureIsFinal /\ Place
  BY DEF MatrixInv, ChainInv, DriverInv
<1>2. \A i \in Sends : /\ Acceptable(i) => Acceptable(i)'
                       /\ Expired(i) => Expired(i)'
                       /\ Expired(i) => Matrix[i].flow # "setup"
  <2>1. ASSUME NEW i \in Sends
        PROVE  Expired(i) => Matrix[i].flow # "setup"
    BY SendOf DEF Expired
  <2>. QED  BY <1>1, <2>1, AcceptableKept
<1>3. StillAcceptable'
  <2>. SUFFICES ASSUME NEW r \in Sends, run.i = r, run.pc \in {"confirm", "status"},
                       tx'[r] # "ok"
                PROVE  Acceptable(r)'
    BY <1>1 DEF StillAcceptable, Place, Busy, Sends
  <2>. QED  BY <1>1, <1>2 DEF StillAcceptable
<1>4. FailureIsFinal'
  <2>. SUFFICES ASSUME NEW entry \in run.log, entry.outcome = "CONFIRMED_FAILED",
                       NEW r \in Sends, entry.step = r
                PROVE  \/ tx'[r] = "failed"
                       \/ tx'[r] # "ok" /\ Expired(r)'
    BY <1>1 DEF FailureIsFinal
  <2>. QED  BY <1>1, <1>2 DEF FailureIsFinal
<1>. QED  BY <1>3, <1>4

LEMMA ProcessForkDrop ==
    ASSUME MatrixInv, NEW i \in Sends, Process(i) \/ Fork(i) \/ Drop(i)
    PROVE  MatrixInv'
<1>1. ChainInv /\ DriverInv /\ TypeOK /\ TxTyped
  BY DEF MatrixInv, ChainInv
<1>2. PICK state \in {"inflight", "processed", "dropped"} :
         /\ tx' = [tx EXCEPT ![i] = state] /\ tx[i] \in {"inflight", "processed"}
         /\ UNCHANGED <<now, escrow, tokens, events, assets, run, disk>>
  BY DEF Process, Fork, Drop, SetTx
<1>3. /\ TxTyped' /\ tx'[i] = state
      /\ \A j \in Sends : j # i => tx'[j] = tx[j]
  BY <1>1, <1>2 DEF TxTyped, TxStates
<1>4. \A j \in Sends : /\ tx'[j] = "ok" <=> tx[j] = "ok"
                       /\ tx[j] = "none" => tx'[j] = "none"
                       /\ tx[j] = "failed" => tx'[j] = "failed"
  BY <1>2, <1>3
<1>5. TypeOK'
  BY <1>1, <1>2 DEF TypeOK
<1>6. ChainInv'
  BY <1>1, <1>2, <1>3, <1>4, <1>5, TxOnly
<1>7. DriverInv'
  BY <1>1, <1>2, <1>4, ClusterKeepsDriver
<1>8. now \in Nat /\ tokens[Sponsor] \in Nat
  BY <1>1, EscrowAssumption, Identities DEF TypeOK
<1>9. StillAcceptable' /\ FailureIsFinal'
  BY <1>2, <1>4, <1>5, <1>8, ClusterKeepsPromises
<1>. QED  BY <1>6, <1>7, <1>9 DEF MatrixInv

LEMMA ClockStep ==
    ASSUME MatrixInv, Clock
    PROVE  MatrixInv'
<1>1. /\ ChainInv /\ DriverInv /\ TypeOK /\ TxTyped
      /\ UNCHANGED <<escrow, tokens, events, assets, tx, run, disk>>
  BY DEF MatrixInv, ChainInv, Clock, Tick
<1>2. now' \in 0 .. MaxTime /\ now' >= now
  BY <1>1, EscrowAssumption DEF Clock, Tick, TypeOK
<1>3. TypeOK' /\ TxTyped'
  BY <1>1, <1>2 DEF TypeOK, TxTyped
<1>4. ChainInv' /\ DriverInv'
  BY <1>1, <1>3, TxOnly, ClusterKeepsDriver
<1>5. tokens[Sponsor] \in Nat
  BY <1>1, Identities DEF TypeOK
<1>6. StillAcceptable' /\ FailureIsFinal'
  BY <1>1, <1>2, <1>3, <1>5, ClusterKeepsPromises
<1>. QED  BY <1>4, <1>6 DEF MatrixInv

LEMMA ExecuteStep ==
    ASSUME MatrixInv, NEW i \in Sends, Execute(i)
    PROVE  MatrixInv'
<1>1. /\ ChainInv /\ DriverInv /\ TypeOK /\ TxTyped /\ RunTyped /\ FlowBooks
      /\ StillAcceptable /\ FailureIsFinal /\ Place
      /\ tx[i] = "processed" /\ UNCHANGED <<run, disk>>
  BY DEF MatrixInv, ChainInv, DriverInv, Execute
<1>2. now \in Nat /\ tokens[Sponsor] \in Nat
  BY <1>1, EscrowAssumption, Identities DEF TypeOK
<1>3. ASSUME NEW state \in {"ok", "failed"}, SetTx(i, state)
      PROVE  /\ TxTyped' /\ tx'[i] = state /\ DriverInv'
             /\ \A j \in Sends : j # i => tx'[j] = tx[j]
  <2>1. TxTyped' /\ tx'[i] = state /\ \A j \in Sends : j # i => tx'[j] = tx[j]
    BY <1>1, <1>3 DEF SetTx, TxTyped, TxStates
  <2>2. \A j \in Sends : /\ tx[j] = "none" => tx'[j] = "none"
                         /\ tx[j] = "ok" => tx'[j] = "ok"
    BY <1>1, <2>1
  <2>. QED  BY <1>1, <2>1, <2>2, ClusterKeepsDriver
<1>4. CASE Matrix[i].flow = "setup" /\ SetupInstruction(Matrix[i].name) /\ SetTx(i, "ok")
  <2>1. ChainInv' /\ DriverInv'
    BY <1>1, <1>3, <1>4, SetupKeepsBooks
  <2>2. /\ TypeOK' /\ UNCHANGED <<now, escrow>> /\ assets \subseteq assets'
        /\ tokens'[Sponsor] >= tokens[Sponsor]
    BY <1>1, <1>4, SetupEffect
  <2>3. \A j \in Sends : /\ tx[j] = "ok" => tx'[j] = "ok"
                         /\ tx[j] = "failed" => tx'[j] = "failed"
                         /\ tx'[j] = "ok" => tx[j] = "ok" \/ Matrix[j].flow = "setup"
    BY <1>1, <1>3, <1>4
  <2>4. StillAcceptable' /\ FailureIsFinal'
    BY <1>1, <1>2, <2>2, <2>3, ClusterKeepsPromises
  <2>. QED  BY <2>1, <2>4 DEF MatrixInv
<1>5. CASE Matrix[i].flow # "setup" /\ EscrowInstruction(i) /\ SetTx(i, "ok")
  <2>1. ChainInv' /\ DriverInv' /\ tx'[i] = "ok"
    BY <1>1, <1>3, <1>5, InstructionKeepsBooks
  <2>2. i = run.i
    BY <1>1, <1>5, OthersAreSetup
  <2>3. StillAcceptable'
    BY <1>1, <2>1, <2>2 DEF StillAcceptable
  <2>4. ~Expired(i)
    BY <1>1, <1>5, InstructionEffect
  <2>5. FailureIsFinal'
    BY <1>1, <2>2, <2>4 DEF FailureIsFinal
  <2>. QED  BY <2>1, <2>3, <2>5 DEF MatrixInv
<1>6. CASE SetTx(i, "failed") /\ UNCHANGED <<now, escrow, tokens, events, assets>>
  <2>1. TypeOK'
    BY <1>1, <1>6 DEF TypeOK
  <2>2. \A j \in Sends : /\ tx'[j] = "ok" <=> tx[j] = "ok"
                         /\ tx[j] = "failed" => tx'[j] = "failed"
    BY <1>1, <1>3, <1>6
  <2>3. ChainInv' /\ DriverInv'
    BY <1>1, <1>3, <1>6, <2>1, <2>2, TxOnly
  <2>4. StillAcceptable' /\ FailureIsFinal'
    BY <1>1, <1>2, <1>6, <2>1, <2>2, ClusterKeepsPromises
  <2>. QED  BY <2>3, <2>4 DEF MatrixInv
<1>. QED  BY <1>4, <1>5, <1>6 DEF Execute

-------------------------------------------------------------------------------
(* Steps of the driver                                                       *)

(* A receipt that is written is the memory it was written from.             *)
LEMMA WriteEffect ==
    ASSUME NEW r \in RunType, Write(r)
    PROVE  /\ run' \in RunType /\ run'.pc = r.pc /\ run'.i = r.i /\ run'.base = r.base
           /\ run'.log = r.log /\ run'.pending = r.pending /\ run'.status = r.status
           /\ ~run'.missed => disk'.log = run'.log /\ disk'.pending = run'.pending
<1>1. PICK missed \in BOOLEAN : /\ run' = [r EXCEPT !.missed = missed]
                                /\ disk' = IF missed THEN disk ELSE Receipt(r)
  BY DEF Write
<1>2. /\ run' \in RunType /\ run'.pc = r.pc /\ run'.i = r.i /\ run'.base = r.base
      /\ run'.log = r.log /\ run'.pending = r.pending /\ run'.status = r.status
      /\ run'.missed = missed
  BY <1>1 DEF RunType
<1>3. Receipt(r).log = r.log /\ Receipt(r).pending = r.pending
  BY DEF Receipt
<1>. QED  BY <1>1, <1>2, <1>3

(* The memories a step writes, field by field.                              *)
LEMMA MemoryFields ==
    ASSUME RunTyped, run.i \in StepIds, NEW outcome \in Outcomes
    PROVE  /\ WithEvidence(run, outcome) \in RunType
           /\ \A r \in {run, WithEvidence(run, outcome)} :
                 /\ r.pc = run.pc /\ r.i = run.i /\ r.base = run.base
                 /\ r.log = run.log /\ r.pending = run.pending /\ r.status = run.status
                 /\ LET q == Logged(r, outcome)
                    IN  /\ q \in RunType /\ q.pc = "step" /\ q.i = run.i + 1
                        /\ q.base = run.base
                        /\ q.log = run.log \cup {Entry(outcome)}
                        /\ q.pending = None /\ q.status = run.status
                 /\ LET q == Stopped(r, outcome)
                    IN  /\ q \in RunType /\ q.pc = "returned" /\ q.i = run.i
                        /\ q.base = run.base
                        /\ q.log = run.log \cup {Entry(outcome)}
                        /\ q.pending = None /\ q.status = outcome
<1>1. Entry(outcome) \in [step : StepIds, outcome : Outcomes]
  BY DEF Entry
<1>2. run.i + 1 \in 1 .. Len(Matrix) + 1
  BY MatrixSound DEF StepIds
<1>. DEFINE w == WithEvidence(run, outcome)
            e == Entry(outcome)
<1>. HIDE DEF e
<1>3. /\ w \in RunType /\ w.pc = run.pc /\ w.i = run.i /\ w.base = run.base
      /\ w.log = run.log /\ w.pending = run.pending /\ w.status = run.status
  BY <1>1 DEF WithEvidence, RunTyped, RunType, e
<1>. HIDE DEF w
<1>4. run \in RunType
  BY DEF RunTyped
<1>5. ASSUME NEW r \in RunType, r.i = run.i
      PROVE  LET q == Logged(r, outcome)
             IN  /\ q \in RunType /\ q.pc = "step" /\ q.i = run.i + 1
                 /\ q.base = r.base /\ q.log = r.log \cup {e}
                 /\ q.pending = None /\ q.status = r.status
  <2>1. /\ r.log \cup {e} \in SUBSET [step : StepIds, outcome : Outcomes]
        /\ r.i + 1 \in 1 .. Len(Matrix) + 1 /\ "step" \in Pcs
    BY <1>1, <1>2, <1>5 DEF RunType, e, Pcs
  <2>2. Logged(r, outcome) = [r EXCEPT !.log = r.log \cup {e}, !.pending = None,
                                       !.pc = "step", !.i = r.i + 1]
    BY DEF Logged, e
  <2>. DEFINE q == Logged(r, outcome)
              h == [r EXCEPT !.log = r.log \cup {e}, !.pending = None]
  <2>3. /\ h \in RunType /\ h.base = r.base /\ h.log = r.log \cup {e}
        /\ h.pending = None /\ h.status = r.status
    BY <2>1 DEF RunType
  <2>4. q = [h EXCEPT !.pc = "step", !.i = r.i + 1]
    BY <2>2 DEF RunType
  <2>. DEFINE n == r.i + 1
  <2>5. n = run.i + 1 /\ n \in 1 .. Len(Matrix) + 1
    BY <1>5, <2>1
  <2>. HIDE DEF Logged, h, n
  <2>6. q = [h EXCEPT !.pc = "step", !.i = n]
    BY <2>4 DEF n
  <2>. HIDE DEF q
  <2>7. /\ q \in RunType /\ q.pc = "step" /\ q.i = n
        /\ q.base = h.base /\ q.log = h.log /\ q.pending = h.pending
        /\ q.status = h.status
    BY <2>1, <2>3, <2>5, <2>6 DEF RunType
  <2>. QED  BY <2>3, <2>5, <2>7 DEF q
<1>6. ASSUME NEW r \in RunType, r.i = run.i
      PROVE  LET q == Stopped(r, outcome)
             IN  /\ q \in RunType /\ q.pc = "returned" /\ q.i = r.i
                 /\ q.base = r.base /\ q.log = r.log \cup {e}
                 /\ q.pending = None /\ q.status = outcome
  <2>1. /\ r.log \cup {e} \in SUBSET [step : StepIds, outcome : Outcomes]
        /\ "returned" \in Pcs
    BY <1>1 DEF RunType, e, Pcs
  <2>2. Stopped(r, outcome) = [r EXCEPT !.log = r.log \cup {e}, !.pending = None,
                                        !.pc = "returned", !.status = outcome]
    BY DEF Stopped, e
  <2>. HIDE DEF Stopped
  <2>. QED  BY <2>1, <2>2 DEF RunType
<1>7. /\ WithEvidence(run, outcome) = w /\ Entry(outcome) = e
  BY DEF w, e
<1>8. ASSUME NEW r \in {run, w}
      PROVE  /\ r \in RunType /\ r.pc = run.pc /\ r.i = run.i /\ r.base = run.base
             /\ r.log = run.log /\ r.pending = run.pending /\ r.status = run.status
  BY <1>3, <1>4
<1>. QED  BY <1>3, <1>5, <1>6, <1>7, <1>8

(* The driver does not touch the chain, and of the transactions only sends  *)
(* its own: the books stay.                                                 *)
LEMMA DriverKeepsBooks ==
    ASSUME MatrixInv, UNCHANGED chain,
           tx' = tx \/ (run.pc = "send" /\ tx' = [tx EXCEPT ![run.i] = "inflight"])
    PROVE  /\ ChainInv' /\ TxTyped'
           /\ \A j \in Sends : /\ tx'[j] = "ok" <=> tx[j] = "ok"
                               /\ j # run.i => tx'[j] = tx[j]
<1>1. /\ ChainInv /\ TypeOK /\ TxTyped /\ Place /\ NothingAhead /\ RunTyped
  BY DEF MatrixInv, ChainInv, DriverInv
<1>2. TypeOK'
  BY <1>1 DEF chain, TypeOK
<1>3. /\ TxTyped' /\ \A j \in Sends : /\ tx'[j] = "ok" <=> tx[j] = "ok"
                                      /\ j # run.i => tx'[j] = tx[j]
  <2>1. CASE tx' = tx
    BY <1>1, <2>1 DEF TxTyped
  <2>2. CASE run.pc = "send" /\ tx' = [tx EXCEPT ![run.i] = "inflight"]
    <3>1. run.i \in Sends
      BY <1>1, <2>2 DEF Place, Busy, Sends
    <3>2. tx[run.i] = "none"
      BY <1>1, <2>2, <3>1, SendOf DEF NothingAhead
    <3>. QED  BY <1>1, <2>2, <3>1, <3>2 DEF TxTyped, TxStates
  <2>. QED  BY <2>1, <2>2
<1>. QED  BY <1>1, <1>2, <1>3, TxOnly DEF chain

(* The next step: what is behind the driver is verified.                    *)
LEMMA LogStep ==
    ASSUME MatrixInv, run.pc \in Busy, NEW outcome \in Outcomes,
           outcome # "CONFIRMED_FAILED",
           Write(Logged(run, outcome)) \/ Write(Logged(WithEvidence(run, outcome), outcome)),
           run.i \in Sends /\ Matrix[run.i].expect # None => tx[run.i] = "ok",
           UNCHANGED <<chain, tx>>
    PROVE  MatrixInv'
<1>1. /\ RunTyped /\ Place /\ NothingAhead /\ VerifiedBehind /\ MemoryCovers
      /\ StillAcceptable /\ FailureIsFinal /\ run.i \in StepIds /\ run.i \in Nat
      /\ run.pending = run.i
  BY MatrixSound DEF MatrixInv, DriverInv, Place, StepIds
<1>2. /\ run' \in RunType /\ run'.pc = "step" /\ run'.i = run.i + 1
      /\ run'.base = run.base /\ run'.log = run.log \cup {Entry(outcome)}
      /\ run'.pending = None /\ run'.status = run.status
      /\ ~run'.missed => disk'.log = run'.log /\ disk'.pending = run'.pending
  BY <1>1, MemoryFields, WriteEffect
<1>3. ChainInv'
  BY DriverKeepsBooks
<1>4. RunTyped' /\ Place'
  BY <1>1, <1>2 DEF RunTyped, Place, Busy
<1>5. NothingAhead'
  <2>1. ASSUME NEW j \in Sends, tx[j] # "none"
        PROVE  j < run.i + 1
    BY <1>1, <2>1, SendOf DEF NothingAhead
  <2>. QED  BY <1>2, <2>1 DEF NothingAhead
<1>6. VerifiedBehind'
  <2>1. ASSUME NEW j \in Sends, j < run.i + 1, Matrix[j].expect # None
        PROVE  tx[j] = "ok"
    <3>1. j < run.i \/ j = run.i
      BY <1>1, <2>1, SendOf
    <3>. QED  BY <1>1, <2>1, <3>1 DEF VerifiedBehind
  <2>. QED  BY <1>2, <2>1 DEF VerifiedBehind
<1>7. MemoryCovers'
  <2>1. Entry(outcome).step = run.i
    BY DEF Entry
  <2>. QED  BY <1>1, <1>2, <2>1 DEF MemoryCovers
<1>8. StillAcceptable'
  BY <1>2 DEF StillAcceptable
<1>9. FailureIsFinal'
  <2>1. Entry(outcome).outcome # "CONFIRMED_FAILED"
    BY DEF Entry
  <2>2. run.pc # "returned"
    BY DEF Busy
  <2>. QED  BY <1>1, <1>2, <2>1, <2>2 DEF FailureIsFinal
<1>. QED  BY <1>3, <1>4, <1>5, <1>6, <1>7, <1>8, <1>9 DEF MatrixInv, DriverInv

(* The driver stops: a failure it reports is final.                         *)
LEMMA StopStep ==
    ASSUME MatrixInv, run.pc \in Busy, NEW outcome \in Outcomes,
           Write(Stopped(run, outcome)) \/ StopSend(run, outcome),
           UNCHANGED chain,
           tx' = tx \/ (run.pc = "send" /\ tx' = [tx EXCEPT ![run.i] = "inflight"]),
           outcome = "CONFIRMED_FAILED" =>
               /\ run.i \in Sends /\ tx' = tx
               /\ tx[run.i] = "failed" \/ (tx[run.i] # "ok" /\ Expired(run.i))
    PROVE  MatrixInv'
<1>1. /\ RunTyped /\ Place /\ NothingAhead /\ VerifiedBehind /\ MemoryCovers
      /\ StillAcceptable /\ FailureIsFinal /\ run.i \in StepIds /\ run.i \in Nat
      /\ run.pending = run.i /\ run.pc # "returned"
  BY MatrixSound DEF MatrixInv, DriverInv, Place, StepIds, Busy
<1>2. /\ run' \in RunType /\ run'.pc = "returned" /\ run'.i = run.i
      /\ run'.base = run.base /\ run'.log = run.log \cup {Entry(outcome)}
      /\ run'.pending = None /\ run'.status = outcome
      /\ ~run'.missed => disk'.log = run'.log /\ disk'.pending = run'.pending
  BY <1>1, MemoryFields, WriteEffect DEF StopSend
<1>3. /\ ChainInv'
      /\ \A j \in Sends : /\ tx'[j] = "ok" <=> tx[j] = "ok"
                          /\ j # run.i => tx'[j] = tx[j]
  BY DriverKeepsBooks
<1>4. RunTyped' /\ Place'
  BY <1>2 DEF RunTyped, Place, Busy, Outcomes
<1>5. NothingAhead' /\ VerifiedBehind'
  BY <1>1, <1>2, <1>3 DEF NothingAhead, VerifiedBehind
<1>6. MemoryCovers'
  <2>1. Entry(outcome).step = run.i
    BY DEF Entry
  <2>. QED  BY <1>1, <1>2, <1>3, <2>1 DEF MemoryCovers
<1>7. StillAcceptable'
  BY <1>2 DEF StillAcceptable
<1>8. FailureIsFinal'
  <2>1. ASSUME NEW entry \in run'.log, entry.outcome = "CONFIRMED_FAILED"
        PROVE  outcome = "CONFIRMED_FAILED" /\ entry.step = run.i
    BY <1>1, <1>2, <2>1 DEF Entry, FailureIsFinal
  <2>2. ASSUME NEW s \in Sends, Expired(s)
        PROVE  Expired(s)'
    BY <1>2, <2>2 DEF Expired, planExpiry, chain
  <2>3. outcome = "CONFIRMED_FAILED" =>
           /\ run.i \in Sends /\ \E s \in Sends : s = run.i
           /\ \A s \in Sends : s = run.i =>
                 tx'[s] = "failed" \/ (tx'[s] # "ok" /\ Expired(s)')
    BY <2>2
  <2>4. ASSUME NEW s \in Sends, s = run.i, outcome = "CONFIRMED_FAILED"
        PROVE  \A entry \in run'.log : entry.outcome = "CONFIRMED_FAILED" =>
                  /\ run'.pc = "returned" /\ entry.step = s
                  /\ tx'[s] = "failed" \/ (tx'[s] # "ok" /\ Expired(s)')
    BY <1>2, <2>1, <2>3, <2>4
  <2>5. CASE outcome # "CONFIRMED_FAILED"
    BY <2>1, <2>5 DEF FailureIsFinal
  <2>6. CASE outcome = "CONFIRMED_FAILED"
    <3>1. PICK s \in Sends : s = run.i
      BY <2>3, <2>6
    <3>2. run'.i = s
      BY <1>2, <3>1
    <3>3. ASSUME NEW entry \in run'.log, entry.outcome = "CONFIRMED_FAILED"
          PROVE  /\ run'.pc = "returned" /\ entry.step = run'.i /\ run'.i \in Sends
                 /\ entry.step = s
                 /\ tx'[s] = "failed" \/ (tx'[s] # "ok" /\ Expired(s)')
      BY <2>4, <2>6, <3>1, <3>2, <3>3
    <3>. QED  BY <3>3 DEF FailureIsFinal
  <2>. QED  BY <2>5, <2>6
<1>. QED  BY <1>3, <1>4, <1>5, <1>6, <1>7, <1>8 DEF MatrixInv, DriverInv

(* Nobody catches the exception: the driver is gone, its receipt stays.     *)
LEMMA ThrowStep ==
    ASSUME MatrixInv, run.pc \in Busy \cup {"step"}, Threw
    PROVE  MatrixInv'
<1>1. /\ RunTyped /\ Place /\ NothingAhead /\ VerifiedBehind /\ MemoryCovers
      /\ FailureIsFinal /\ run \in RunType /\ run.status = "RUNNING"
      /\ run.pc # "returned"
  BY DEF MatrixInv, DriverInv, Place, Busy, RunTyped
<1>2. /\ run' = [run EXCEPT !.pc = "threw"] /\ "threw" \in Pcs
      /\ UNCHANGED <<chain, tx, disk>>
  BY DEF Threw, Pcs
<1>3. /\ run' \in RunType /\ run'.pc = "threw" /\ run'.i = run.i
      /\ run'.log = run.log /\ run'.pending = run.pending /\ run'.status = "RUNNING"
      /\ run'.missed = run.missed
  BY <1>1, <1>2 DEF RunType
<1>4. ChainInv'
  BY <1>2, DriverKeepsBooks
<1>5. RunTyped' /\ Place'
  BY <1>3 DEF RunTyped, Place, Busy
<1>6. NothingAhead' /\ VerifiedBehind' /\ MemoryCovers'
  BY <1>1, <1>2, <1>3 DEF NothingAhead, VerifiedBehind, MemoryCovers
<1>7. StillAcceptable' /\ FailureIsFinal'
  BY <1>1, <1>3 DEF StillAcceptable, FailureIsFinal
<1>. QED  BY <1>4, <1>5, <1>6, <1>7 DEF MatrixInv, DriverInv

(* The driver goes on within its current step.                              *)
LEMMA StayStep ==
    ASSUME MatrixInv, run.pc \in Busy, run' \in RunType,
           \/ run'.pc \in {"confirm", "status", "verify"} /\ run.pc \notin {"simulate", "wait"}
           \/ run'.pc = "wait" /\ run.pc = "wait",
           run'.i = run.i, run'.base = run.base, run'.log = run.log,
           run'.pending = run.pending, run'.status = run.status,
           ~run'.missed => disk'.log = run.log /\ disk'.pending = run.pending,
           UNCHANGED chain,
           tx' = tx \/ (run.pc = "send" /\ tx' = [tx EXCEPT ![run.i] = "inflight"]),
           NEW r, r = run.i,
           run'.pc \in {"confirm", "status"} /\ tx'[r] # "ok" => Acceptable(r)
    PROVE  MatrixInv'
<1>1. /\ RunTyped /\ Place /\ NothingAhead /\ VerifiedBehind /\ MemoryCovers
      /\ FailureIsFinal /\ run.status = "RUNNING" /\ run.pc # "returned"
      /\ run.i \in StepIds /\ run.pending = run.i
      /\ Matrix[run.i].kind = IF run.pc \in {"simulate", "wait"} THEN run.pc ELSE "send"
  BY DEF MatrixInv, DriverInv, Place, Busy
<1>2. /\ ChainInv'
      /\ \A j \in Sends : /\ tx'[j] = "ok" <=> tx[j] = "ok"
                          /\ j # run.i => tx'[j] = tx[j]
  BY DriverKeepsBooks
<1>3. RunTyped' /\ Place'
  BY <1>1 DEF RunTyped, Place, Busy
<1>4. NothingAhead'
  <2>. SUFFICES ASSUME NEW j \in Sends, tx'[j] # "none", j # run.i
                PROVE  j < run.i
    <3>1. run.i \in Sends => run.pc \notin {"simulate", "wait"}
      BY <1>1 DEF Sends
    <3>. QED  BY <3>1 DEF NothingAhead
  <2>. QED  BY <1>1, <1>2 DEF NothingAhead
<1>5. VerifiedBehind'
  BY <1>1, <1>2 DEF VerifiedBehind
<1>6. MemoryCovers'
  BY <1>1, <1>2 DEF MemoryCovers
<1>7. StillAcceptable'
  <2>1. Acceptable(r)' <=> Acceptable(r)
    BY DEF Acceptable, Key, chain
  <2>2. r = run'.i
    OBVIOUS
  <2>. QED  BY <2>1, <2>2 DEF StillAcceptable
<1>8. FailureIsFinal'
  BY <1>1 DEF FailureIsFinal
<1>. QED  BY <1>2, <1>3, <1>4, <1>5, <1>6, <1>7, <1>8 DEF MatrixInv, DriverInv

LEMMA BeginKeeps ==
    ASSUME MatrixInv, BeginStep
    PROVE  MatrixInv'
<1>. DEFINE pc == IF Current.kind = "send" /\ run.sent >= computeFullCeiling THEN "threw"
                  ELSE Current.kind
            q == [run EXCEPT !.pending = run.i, !.pc = pc]
<1>1. /\ RunTyped /\ Place /\ NothingAhead /\ VerifiedBehind /\ MemoryCovers
      /\ FailureIsFinal /\ run \in RunType /\ run.pc = "step" /\ run.i \in StepIds
      /\ run.pending = None /\ run.status = "RUNNING"
      /\ Current.kind \in {"send", "simulate", "wait"} /\ Current = Matrix[run.i]
      /\ Write(q) /\ UNCHANGED <<chain, tx>>
  BY DEF MatrixInv, DriverInv, Place, RunTyped, BeginStep, At, Current
<1>2. pc \in {"threw", "send", "simulate", "wait"} /\ (pc = "threw" \/ pc = Current.kind)
  BY <1>1
<1>. HIDE DEF pc
<1>3. /\ q \in RunType /\ q.pc = pc /\ q.pending = run.i /\ q.i = run.i
      /\ q.log = run.log /\ q.status = run.status
  BY <1>1, <1>2 DEF RunType, Pcs
<1>. HIDE DEF q
<1>4. /\ run' \in RunType /\ run'.pc = pc /\ run'.i = run.i /\ run'.log = run.log
      /\ run'.pending = run.i /\ run'.status = "RUNNING"
      /\ ~run'.missed => disk'.log = run'.log /\ disk'.pending = run'.pending
  BY <1>1, <1>3, WriteEffect
<1>5. ChainInv'
  BY <1>1, DriverKeepsBooks
<1>6. RunTyped' /\ Place'
  BY <1>1, <1>2, <1>4 DEF RunTyped, Place, Busy
<1>7. NothingAhead' /\ VerifiedBehind'
  BY <1>1, <1>4 DEF NothingAhead, VerifiedBehind
<1>8. MemoryCovers'
  <2>1. \A j \in Sends : j # None
    BY SendOf, BusinessFlowAssumption
  <2>. QED  BY <1>1, <1>4, <2>1 DEF MemoryCovers
<1>9. StillAcceptable' /\ FailureIsFinal'
  BY <1>1, <1>2, <1>4 DEF StillAcceptable, FailureIsFinal
<1>. QED  BY <1>5, <1>6, <1>7, <1>8, <1>9 DEF MatrixInv, DriverInv

(* A driver at a point of its send has a send.                              *)
LEMMA CurrentSend ==
    ASSUME MatrixInv, run.pc \in {"send", "confirm", "status", "verify"}
    PROVE  /\ run \in RunType /\ run.pc \in Busy /\ run.i \in Sends
           /\ TypeOK /\ RunTyped /\ FlowBooks /\ TxTyped
           /\ ~run.missed => disk.log = run.log /\ disk.pending = run.pending
BY DEF MatrixInv, ChainInv, DriverInv, Place, Busy, Sends, RunTyped, MemoryCovers

LEMMA SendKeeps ==
    ASSUME MatrixInv, Send
    PROVE  MatrixInv'
<1>1. run.pc = "send" /\ UNCHANGED chain
  BY DEF Send, At
<1>2. /\ run \in RunType /\ run.pc \in Busy /\ run.i \in Sends
      /\ TypeOK /\ RunTyped /\ FlowBooks
      /\ ~run.missed => disk.log = run.log /\ disk.pending = run.pending
  BY <1>1, CurrentSend
<1>3. CASE /\ Accepts(run.i) /\ tx' = [tx EXCEPT ![run.i] = "inflight"]
           /\ run' = [run EXCEPT !.sent = @ + 1, !.pc = "confirm"] /\ UNCHANGED disk
  <2>. DEFINE n == run.sent + 1
  <2>1. n \in Nat
    BY <1>2 DEF RunType
  <2>2. run' = [run EXCEPT !.sent = n, !.pc = "confirm"]
    BY <1>3
  <2>. HIDE DEF n
  <2>3. /\ run' \in RunType /\ run'.pc = "confirm" /\ run'.i = run.i
        /\ run'.base = run.base /\ run'.log = run.log /\ run'.pending = run.pending
        /\ run'.status = run.status /\ run'.missed = run.missed
    BY <1>2, <2>1, <2>2 DEF RunType, Pcs
  <2>4. PICK r \in Sends : r = run.i
    BY <1>2
  <2>5. Acceptable(r)
    BY <1>2, <1>3, <2>4, AcceptsMeans
  <2>. QED  BY <1>1, <1>2, <1>3, <2>3, <2>4, <2>5, StayStep
<1>4. CASE StopSend(run, "CONFIRMATION_UNKNOWN")
           /\ tx' \in {tx, [tx EXCEPT ![run.i] = "inflight"]}
  <2>1. "CONFIRMATION_UNKNOWN" \in Outcomes
    BY DEF Outcomes
  <2>. QED  BY <1>1, <1>2, <1>4, <2>1, StopStep
<1>. QED  BY <1>3, <1>4 DEF Send

LEMMA ConfirmReturnsKeeps ==
    ASSUME MatrixInv, ConfirmReturns
    PROVE  MatrixInv'
<1>1. run.pc = "confirm" /\ UNCHANGED chain /\ tx' = tx
  BY DEF ConfirmReturns, At
<1>2. /\ run \in RunType /\ run.pc \in Busy /\ run.i \in Sends
      /\ ~run.missed => disk.log = run.log /\ disk.pending = run.pending
  BY <1>1, CurrentSend
<1>3. CASE run' = [run EXCEPT !.pc = "verify"] /\ UNCHANGED disk
  <2>1. /\ run' \in RunType /\ run'.pc = "verify" /\ run'.i = run.i
        /\ run'.base = run.base /\ run'.log = run.log /\ run'.pending = run.pending
        /\ run'.status = run.status /\ run'.missed = run.missed
    BY <1>2, <1>3 DEF RunType, Pcs
  <2>. QED  BY <1>1, <1>2, <1>3, <2>1, StayStep
<1>4. CASE tx[run.i] = "failed" /\ StopSend(run, "CONFIRMED_FAILED")
  <2>1. "CONFIRMED_FAILED" \in Outcomes
    BY DEF Outcomes
  <2>. QED  BY <1>1, <1>2, <1>4, <2>1, StopStep
<1>. QED  BY <1>3, <1>4 DEF ConfirmReturns

LEMMA ConfirmThrowsKeeps ==
    ASSUME MatrixInv, ConfirmThrows
    PROVE  MatrixInv'
<1>1. /\ run.pc = "confirm" /\ UNCHANGED chain /\ tx' = tx
      /\ run' = [run EXCEPT !.pc = "status"] /\ UNCHANGED disk
  BY DEF ConfirmThrows, At
<1>2. /\ run \in RunType /\ run.pc \in Busy /\ run.i \in Sends
      /\ ~run.missed => disk.log = run.log /\ disk.pending = run.pending
  BY <1>1, CurrentSend
<1>3. /\ run' \in RunType /\ run'.pc = "status" /\ run'.i = run.i
      /\ run'.base = run.base /\ run'.log = run.log /\ run'.pending = run.pending
      /\ run'.status = run.status /\ run'.missed = run.missed
  BY <1>1, <1>2 DEF RunType, Pcs
<1>4. tx[run.i] # "ok" => Acceptable(run.i)
  BY <1>1 DEF MatrixInv, StillAcceptable
<1>5. PICK r : r = run.i
  OBVIOUS
<1>6. tx'[r] # "ok" => Acceptable(r)
  BY <1>1, <1>4, <1>5
<1>. QED  BY <1>1, <1>2, <1>3, <1>5, <1>6, StayStep

(* A processed transaction that shows as failed has run out of time: it can *)
(* never take effect on another fork.                                       *)
LEMMA ReadStatusKeeps ==
    ASSUME MatrixInv, ReadStatus
    PROVE  MatrixInv'
<1>1. run.pc = "status" /\ UNCHANGED chain /\ tx' = tx
  BY DEF ReadStatus, At
<1>2. /\ run \in RunType /\ run.pc \in Busy /\ run.i \in Sends /\ TypeOK /\ RunTyped
      /\ FlowBooks /\ run.i \in StepIds
  BY <1>1, CurrentSend DEF Sends
<1>3. PICK outcome \in {StatusOutcome(run.i), "CONFIRMATION_UNKNOWN"} :
         IF outcome = "CONFIRMED_SUCCESS"
         THEN Write([WithEvidence(run, outcome) EXCEPT !.pc = "verify"])
         ELSE StopSend(run, outcome)
  BY DEF ReadStatus
<1>4. PICK r \in Sends : r = run.i
  BY <1>2
<1>5. /\ StatusOutcome(r) \in {"CONFIRMED_SUCCESS", "CONFIRMED_FAILED", "CONFIRMATION_UNKNOWN"}
      /\ StatusOutcome(r) = "CONFIRMED_FAILED" =>
            tx[r] = "failed" \/ (tx[r] = "processed" /\ ~Accepts(r))
  BY DEF StatusOutcome
<1>6. StatusOutcome(r) = "CONFIRMED_FAILED" =>
         tx[r] = "failed" \/ (tx[r] # "ok" /\ Expired(r))
  <2>. SUFFICES ASSUME tx[r] = "processed", ~Accepts(r) PROVE Expired(r)
    BY <1>5
  <2>1. Acceptable(r)
    BY <1>1, <1>4 DEF MatrixInv, StillAcceptable
  <2>. QED  BY <1>2, <2>1, AcceptsMeans
<1>7. outcome \in Outcomes
  BY <1>3, <1>4, <1>5 DEF Outcomes
<1>8. CASE outcome = "CONFIRMED_SUCCESS"
  <2>. DEFINE w == WithEvidence(run, outcome)
              q == [w EXCEPT !.pc = "verify"]
  <2>1. /\ w \in RunType /\ w.i = run.i /\ w.base = run.base /\ w.log = run.log
        /\ w.pending = run.pending /\ w.status = run.status
    BY <1>2, <1>7, MemoryFields
  <2>2. Write(q)
    BY <1>3, <1>8
  <2>. HIDE DEF w
  <2>3. /\ q \in RunType /\ q.pc = "verify" /\ q.i = run.i /\ q.base = run.base
        /\ q.log = run.log /\ q.pending = run.pending /\ q.status = run.status
    BY <2>1 DEF RunType, Pcs
  <2>. HIDE DEF q
  <2>4. /\ run' \in RunType /\ run'.pc = "verify" /\ run'.i = run.i
        /\ run'.base = run.base /\ run'.log = run.log /\ run'.pending = run.pending
        /\ run'.status = run.status
        /\ ~run'.missed => disk'.log = run.log /\ disk'.pending = run.pending
    BY <2>2, <2>3, WriteEffect
  <2>. QED  BY <1>1, <1>2, <1>4, <2>4, StayStep
<1>9. CASE outcome # "CONFIRMED_SUCCESS"
  <2>1. StopSend(run, outcome)
    BY <1>3, <1>9
  <2>2. outcome = "CONFIRMED_FAILED" =>
           tx[run.i] = "failed" \/ (tx[run.i] # "ok" /\ Expired(run.i))
    BY <1>3, <1>4, <1>6
  <2>. QED  BY <1>1, <1>2, <1>7, <2>1, <2>2, StopStep
<1>. QED  BY <1>8, <1>9

(* The escrow's status is the evidence that the driver's transaction, and   *)
(* no other, took effect.                                                   *)
LEMMA VerifyKeeps ==
    ASSUME MatrixInv, Verify
    PROVE  MatrixInv'
<1>1. run.pc = "verify"
  BY DEF Verify, At
<1>2. /\ run \in RunType /\ run.pc \in Busy /\ run.i \in Sends
      /\ "CONFIRMED_SUCCESS" \in Outcomes /\ "STOPPED_ON_STATE_MISMATCH" \in Outcomes
  BY <1>1, CurrentSend DEF Outcomes
<1>3. CASE /\ Verified(run.i)
           /\ Write(Logged(WithEvidence(run, "CONFIRMED_SUCCESS"), "CONFIRMED_SUCCESS"))
           /\ UNCHANGED <<chain, tx>>
  <2>1. Matrix[run.i].expect # None => tx[run.i] = "ok"
    BY <1>2, <1>3 DEF Verified, MatrixInv, ChainInv, StatusIsEvidence
  <2>. QED  BY <1>2, <1>3, <2>1, LogStep
<1>4. CASE StopSend(run, "STOPPED_ON_STATE_MISMATCH") /\ UNCHANGED <<chain, tx>>
  BY <1>2, <1>4, StopStep
<1>5. CASE Threw
  BY <1>2, <1>5, ThrowStep
<1>. QED  BY <1>3, <1>4, <1>5 DEF Verify

LEMMA SimulateKeeps ==
    ASSUME MatrixInv, simulate
    PROVE  MatrixInv'
<1>1. run.pc \in Busy /\ run.i \notin Sends
  BY DEF simulate, At, MatrixInv, DriverInv, Place, Busy, Sends
<1>2. /\ "EXPECTED_ERROR" \in Outcomes /\ "EXPECTED_ERROR" # "CONFIRMED_FAILED"
      /\ "STOPPED_ON_SIMULATION" \in Outcomes /\ "STOPPED_ON_SIMULATION" # "CONFIRMED_FAILED"
  BY DEF Outcomes
<1>3. CASE Write(Logged(run, "EXPECTED_ERROR")) /\ UNCHANGED <<chain, tx>>
  BY <1>1, <1>2, <1>3, LogStep
<1>4. CASE Write(Stopped(run, "STOPPED_ON_SIMULATION")) /\ UNCHANGED <<chain, tx>>
  BY <1>1, <1>2, <1>4, StopStep
<1>5. CASE Threw
  BY <1>1, <1>5, ThrowStep
<1>6. ASSUME NEW c \in BOOLEAN,
             Write(IF c THEN Logged(run, "EXPECTED_ERROR")
                   ELSE Stopped(run, "STOPPED_ON_SIMULATION"))
      PROVE  \/ Write(Logged(run, "EXPECTED_ERROR"))
             \/ Write(Stopped(run, "STOPPED_ON_SIMULATION"))
  <2>1. CASE c
    BY <1>6, <2>1
  <2>2. CASE ~c
    BY <1>6, <2>2
  <2>. QED  BY <2>1, <2>2
<1>. QED  BY <1>3, <1>4, <1>5, <1>6 DEF simulate

LEMMA WaitKeeps ==
    ASSUME MatrixInv, waitForExpiry
    PROVE  MatrixInv'
<1>1. /\ run.pc = "wait" /\ run.pc \in Busy /\ run.i \notin Sends /\ run \in RunType
      /\ ~run.missed => disk.log = run.log /\ disk.pending = run.pending
  BY DEF waitForExpiry, At, MatrixInv, DriverInv, Place, Busy, Sends, RunTyped, MemoryCovers
<1>2. /\ "REACHED" \in Outcomes /\ "REACHED" # "CONFIRMED_FAILED"
      /\ "STOPPED_ON_EXPIRY_TIMEOUT" \in Outcomes
      /\ "STOPPED_ON_EXPIRY_TIMEOUT" # "CONFIRMED_FAILED"
  BY DEF Outcomes
<1>3. CASE Write(Logged(run, "REACHED")) /\ UNCHANGED <<chain, tx>>
  BY <1>1, <1>2, <1>3, LogStep
<1>4. CASE Write(Stopped(run, "STOPPED_ON_EXPIRY_TIMEOUT")) /\ UNCHANGED <<chain, tx>>
  BY <1>1, <1>2, <1>4, StopStep
<1>5. CASE run' = [run EXCEPT !.polls = @ + 1] /\ UNCHANGED <<chain, tx, disk>>
  <2>. DEFINE n == run.polls + 1
  <2>1. n \in Nat /\ run' = [run EXCEPT !.polls = n]
    BY <1>1, <1>5 DEF RunType
  <2>. HIDE DEF n
  <2>2. /\ run' \in RunType /\ run'.pc = "wait" /\ run'.i = run.i
        /\ run'.base = run.base /\ run'.log = run.log /\ run'.pending = run.pending
        /\ run'.status = run.status /\ run'.missed = run.missed
    BY <1>1, <2>1 DEF RunType
  <2>3. PICK r : r = run.i
    OBVIOUS
  <2>. QED  BY <1>1, <1>5, <2>2, <2>3, StayStep
<1>6. CASE Threw
  BY <1>1, <1>6, ThrowStep
<1>. QED  BY <1>3, <1>4, <1>5, <1>6 DEF waitForExpiry

LEMMA ReadKeeps ==
    ASSUME MatrixInv, ReadBetween
    PROVE  MatrixInv'
<1>1. /\ ChainInv /\ TypeOK /\ RunTyped /\ Place /\ NothingAhead /\ VerifiedBehind
      /\ MemoryCovers /\ FailureIsFinal /\ run \in RunType /\ run.pc = "step"
      /\ run.i \in StepIds /\ run.i \notin Sends /\ run.status = "RUNNING"
      /\ run.i \in Nat /\ run.pending = None
  BY MatrixSound
     DEF MatrixInv, ChainInv, DriverInv, Place, RunTyped, ReadBetween, At, Current, Sends, StepIds
<1>2. now \in Nat /\ \A o \in Owners : tokens[o] \in Nat
  BY <1>1, EscrowAssumption DEF TypeOK
<1>3. CASE Threw
  BY <1>1, <1>3, ThrowStep
<1>4. CASE /\ \E account \in {Sponsor, Contributor} :
                 run' \in {[run EXCEPT !.i = @ + 1, !.base = now],
                           [run EXCEPT !.i = @ + 1, !.before = tokens[account]]}
           /\ UNCHANGED <<chain, tx, disk>>
  <2>. DEFINE n == run.i + 1
  <2>1. n \in 1 .. Len(Matrix) + 1
    BY <1>1, MatrixSound DEF StepIds
  <2>2. PICK amount \in Nat : run' \in {[run EXCEPT !.i = n, !.base = now],
                                        [run EXCEPT !.i = n, !.before = amount]}
    BY <1>2, <1>4, Identities
  <2>. HIDE DEF n
  <2>3. /\ run' \in RunType /\ run'.pc = "step" /\ run'.i = n
        /\ run'.log = run.log /\ run'.pending = None /\ run'.status = "RUNNING"
        /\ run'.missed = run.missed
    BY <1>1, <1>2, <2>1, <2>2 DEF RunType
  <2>4. ChainInv'
    BY <1>4, DriverKeepsBooks
  <2>5. RunTyped' /\ Place'
    BY <2>3 DEF RunTyped, Place, Busy
  <2>6. \A j \in Sends : j < n <=> j < run.i
    BY <1>1, SendOf DEF n
  <2>7. NothingAhead' /\ VerifiedBehind' /\ MemoryCovers'
    BY <1>1, <1>4, <2>3, <2>6 DEF NothingAhead, VerifiedBehind, MemoryCovers
  <2>8. StillAcceptable' /\ FailureIsFinal'
    BY <1>1, <2>3 DEF StillAcceptable, FailureIsFinal
  <2>. QED  BY <2>4, <2>5, <2>7, <2>8 DEF MatrixInv, DriverInv
<1>5. (IF Current.flow = "release" THEN Contributor ELSE Sponsor) \in {Sponsor, Contributor}
  OBVIOUS
<1>. QED  BY <1>3, <1>4, <1>5 DEF ReadBetween

LEMMA CompleteKeeps ==
    ASSUME MatrixInv, Complete
    PROVE  MatrixInv'
<1>. DEFINE q == [run EXCEPT !.pc = "returned", !.status = "COMPLETE"]
<1>1. /\ NothingAhead /\ VerifiedBehind /\ MemoryCovers /\ FailureIsFinal
      /\ run \in RunType /\ run.pc = "step" /\ run.i \notin StepIds
      /\ Write(q) /\ UNCHANGED <<chain, tx>>
  BY DEF MatrixInv, DriverInv, RunTyped, Complete
<1>2. /\ q \in RunType /\ q.pc = "returned" /\ q.status = "COMPLETE" /\ q.i = run.i
      /\ q.log = run.log /\ q.pending = run.pending
  BY <1>1 DEF RunType, Pcs
<1>. HIDE DEF q
<1>3. /\ run' \in RunType /\ run'.pc = "returned" /\ run'.status = "COMPLETE"
      /\ run'.i = run.i /\ run'.log = run.log /\ run'.pending = run.pending
      /\ ~run'.missed => disk'.log = run'.log /\ disk'.pending = run'.pending
  BY <1>1, <1>2, WriteEffect
<1>4. ChainInv'
  BY <1>1, DriverKeepsBooks
<1>5. RunTyped' /\ Place'
  BY <1>1, <1>3 DEF RunTyped, Place, Busy
<1>6. NothingAhead' /\ VerifiedBehind' /\ MemoryCovers'
  BY <1>1, <1>3 DEF NothingAhead, VerifiedBehind, MemoryCovers
<1>7. StillAcceptable' /\ FailureIsFinal'
  BY <1>1, <1>3 DEF StillAcceptable, FailureIsFinal
<1>. QED  BY <1>4, <1>5, <1>6, <1>7 DEF MatrixInv, DriverInv

-------------------------------------------------------------------------------
(* The invariant                                                             *)

LEMMA MatrixInitially ==
    ASSUME MatrixInit
    PROVE  MatrixInv
<1>1. /\ Init /\ assets = {} /\ tx = [i \in Sends |-> "none"]
      /\ run = [pc |-> "step", i |-> 1, base |-> 0, before |-> 0, polls |-> 0,
                sent |-> 0, log |-> {}, evidence |-> {}, pending |-> None,
                status |-> "RUNNING", missed |-> FALSE]
      /\ disk = [log |-> {}, evidence |-> {}, pending |-> None, status |-> "RUNNING"]
      /\ TypeOK
  BY InitEstablishes DEF MatrixInit, EscrowInv
<1>2. /\ escrow = [k \in EscrowKeys |-> Absent]
      /\ tokens = [o \in Owners |-> IF o \in Users THEN Supply[o] ELSE 0]
  BY <1>1 DEF Init
<1>3. /\ \A f \in FlowNames : /\ escrow[<<Sponsor, f>>] = Absent
                              /\ StatusOf(f) = "Absent" /\ tokens[<<Sponsor, f>>] = 0
      /\ tokens[Sponsor] = 0 /\ tokens[Contributor] = 0
      /\ Absent.status = "Absent"
  BY <1>2, Identities, BusinessFlowAssumption DEF StatusOf, Absent
<1>4. /\ TxTyped /\ \A j \in Sends : tx[j] = "none"
  BY <1>1 DEF TxTyped, TxStates
<1>5. StatusIsEvidence
  <2>. SUFFICES ASSUME NEW j \in Sends, Matrix[j].expect # None
                PROVE  escrow[Key(j)].status # Matrix[j].expect
    BY DEF StatusIsEvidence
  <2>1. /\ Matrix[j].flow \in FlowNames /\ Key(j) = <<Sponsor, Matrix[j].flow>>
        /\ SendShape(Matrix[j])
    BY SendOf
  <2>2. Matrix[j].expect # "Absent"
    BY <2>1, SendOf DEF SendShape
  <2>. QED  BY <1>3, <2>1, <2>2
<1>6. FlowBooks
  BY <1>3 DEF FlowBooks, FlowStatus, FlowNames
<1>7. Balances
  BY <1>1, <1>3, Identities DEF Balances, Spent, FlowNames
<1>8. EffectsRemain
  BY <1>1, <1>4 DEF EffectsRemain
<1>9. RunTyped /\ Place
  <2>1. 1 \in 1 .. Len(Matrix) + 1
    BY MatrixSound
  <2>. QED  BY <1>1, <2>1 DEF RunTyped, RunType, Pcs, Place, Busy
<1>10. NothingAhead /\ MemoryCovers /\ FailureIsFinal /\ StillAcceptable
  BY <1>1, <1>4 DEF NothingAhead, MemoryCovers, FailureIsFinal, StillAcceptable
<1>11. VerifiedBehind
  <2>1. ASSUME NEW j \in Sends, j < 1
        PROVE  FALSE
    BY <2>1, MatrixSound DEF Sends, StepIds
  <2>. QED  BY <1>1, <2>1 DEF VerifiedBehind
<1>. QED
  BY <1>1, <1>4, <1>5, <1>6, <1>7, <1>8, <1>9, <1>10, <1>11
     DEF MatrixInv, ChainInv, DriverInv

LEMMA MatrixSteps ==
    ASSUME MatrixInv, [MatrixNext]_matrixVars
    PROVE  MatrixInv'
<1>1. CASE DriverStep
  BY <1>1, BeginKeeps, SendKeeps, ConfirmReturnsKeeps, ConfirmThrowsKeeps, ReadStatusKeeps,
     VerifyKeeps, SimulateKeeps, WaitKeeps, ReadKeeps, CompleteKeeps DEF DriverStep
<1>2. ASSUME NEW i \in Sends, Process(i) \/ Execute(i) \/ Fork(i) \/ Drop(i)
      PROVE  MatrixInv'
  BY <1>2, ProcessForkDrop, ExecuteStep
<1>3. CASE Clock
  BY <1>3, ClockStep
<1>4. CASE UNCHANGED matrixVars
  <2>1. /\ UNCHANGED <<now, escrow, tokens, events, assets, tx, run, disk>>
        /\ ChainInv /\ DriverInv /\ TypeOK /\ TxTyped
    BY <1>4 DEF matrixVars, MatrixInv, ChainInv
  <2>2. TypeOK' /\ TxTyped'
    BY <2>1 DEF TypeOK, TxTyped
  <2>3. ChainInv' /\ DriverInv'
    BY <2>1, <2>2, TxOnly, ClusterKeepsDriver
  <2>4. StillAcceptable' /\ FailureIsFinal'
    <3>1. now' >= now /\ tokens'[Sponsor] >= tokens[Sponsor]
      BY <2>1, EscrowAssumption, Identities DEF TypeOK
    <3>. QED  BY <2>1, <2>2, <3>1, ClusterKeepsPromises
  <2>. QED  BY <2>3, <2>4 DEF MatrixInv
<1>. QED  BY <1>1, <1>2, <1>3, <1>4 DEF MatrixNext

(* The places of the sends, the evidence of the statuses and the books of   *)
(* the tokens hold in every state of executeFullMatrix and its cluster,     *)
(* whatever the faults.                                                     *)
THEOREM MatrixInvariant == MatrixSpec => []MatrixInv
<1>1. MatrixInit => MatrixInv
  BY MatrixInitially
<1>2. MatrixInv /\ [MatrixNext]_matrixVars => MatrixInv'
  BY MatrixSteps
<1>. QED  BY <1>1, <1>2, PTL DEF MatrixSpec

-------------------------------------------------------------------------------
(* The properties                                                            *)

(* A transaction reported CONFIRMED_FAILED, be it from a processed status,  *)
(* never takes effect: the preflight accepted it, so only the time can have *)
(* made it fail, and the time does not come back.                           *)
THEOREM FailuresAreFinal == MatrixSpec => []FailedHadNoEffect
<1>1. MatrixInv => FailedHadNoEffect
  <2>1. ASSUME FailureIsFinal PROVE FailedHadNoEffect
    BY <2>1 DEF FailureIsFinal, FailedHadNoEffect
  <2>. QED  BY <2>1 DEF MatrixInv
<1>. QED  BY <1>1, MatrixInvariant, PTL

(* verify() is what makes the order of the steps an order of effects.       *)
THEOREM StepsAreVerified == MatrixSpec => []VerifiedBeforeNext
<1>1. MatrixInv => VerifiedBeforeNext
  <2>. SUFFICES ASSUME MatrixInv, NEW i \in Sends, NEW j \in Sends, i < j,
                       tx[j] # "none", Matrix[i].expect # None
                PROVE  tx[i] = "ok"
    BY DEF VerifiedBeforeNext
  <2>1. /\ NothingAhead /\ VerifiedBehind /\ i \in Nat /\ j \in Nat /\ run.i \in Nat
    BY SendOf, MatrixSound DEF MatrixInv, DriverInv, RunTyped, RunType
  <2>2. i < run.i
    BY <2>1 DEF NothingAhead
  <2>. QED  BY <2>1, <2>2 DEF VerifiedBehind
<1>. QED  BY <1>1, MatrixInvariant, PTL

(* The receipt on disk names every transaction that may have been sent,     *)
(* wherever the driver dies, unless its last write was swallowed.           *)
THEOREM ReceiptIsComplete == MatrixSpec => []ReceiptCoversEverySend
<1>1. MatrixInv => ReceiptCoversEverySend
  <2>1. ASSUME MemoryCovers PROVE ReceiptCoversEverySend
    BY <2>1 DEF MemoryCovers, ReceiptCoversEverySend
  <2>. QED  BY <2>1 DEF MatrixInv, DriverInv
<1>. QED  BY <1>1, MatrixInvariant, PTL

(* COMPLETE is the truth about the chain, down to the last token.           *)
THEOREM CompletionIsSettlement == MatrixSpec => []CompleteMeansSettled
<1>1. MatrixInv => CompleteMeansSettled
  <2>. SUFFICES ASSUME MatrixInv, run.status = "COMPLETE"
                PROVE  /\ \A f \in Flows : /\ StatusOf(f) = FinalStatus[f]
                                           /\ tokens[<<Sponsor, f>>] = 0
                       /\ tokens[Contributor] = IF "release" \in Flows THEN Amount ELSE 0
                       /\ Flows \cap {"release", "refund"} # {} =>
                             tokens[Sponsor] =
                                Minted - (IF "release" \in Flows THEN Amount ELSE 0)
    BY DEF CompleteMeansSettled, StatusOf
  <2>1. /\ Place /\ VerifiedBehind /\ FlowBooks /\ Balances /\ EffectsRemain
        /\ run.i \in 1 .. Len(Matrix) + 1 /\ run.i \notin StepIds
        /\ Len(Matrix) \in Nat /\ Minted \in Nat /\ Amount \in Nat
        /\ Flows \subseteq FlowNames
    BY MatrixSound, Identities, BusinessFlowAssumption
       DEF MatrixInv, ChainInv, DriverInv, RunTyped, RunType, Place
  <2>2. \A j \in Sends : j < run.i
    BY <2>1 DEF Sends, StepIds
  <2>3. ASSUME NEW f \in Flows
        PROVE  StatusOf(f) = FinalStatus[f]
    <3>1. PICK j \in Sends : /\ Matrix[j].flow = f /\ Matrix[j].expect = FinalStatus[f]
                             /\ Matrix[j].name \in {"release", "refund", "cancel"}
      BY MatrixSound
    <3>2. Matrix[j].flow # "setup"
      BY <2>1, <3>1 DEF FlowNames
    <3>3. Matrix[j].expect # None /\ Key(j) = <<Sponsor, f>>
      BY <3>1, <3>2, SendOf
    <3>4. tx[j] = "ok"
      BY <2>1, <2>2, <3>3 DEF VerifiedBehind
    <3>. QED  BY <2>1, <3>1, <3>3, <3>4 DEF EffectsRemain, StatusOf
  <2>4. \A f \in FlowNames \ Flows : StatusOf(f) = "Absent"
    BY <2>1 DEF FlowBooks
  <2>5. /\ "release" \in FlowNames /\ "refund" \in FlowNames
        /\ FinalStatus["release"] = "Released" /\ FinalStatus["refund"] = "Refunded"
        /\ \A f \in FlowNames : FinalStatus[f] # "Funded"
    BY DEF FlowNames, FinalStatus
  <2>6. \A f \in Flows : tokens[<<Sponsor, f>>] = 0
    BY <2>1, <2>3, <2>5 DEF FlowBooks
  <2>7. /\ StatusOf("release") = IF "release" \in Flows THEN "Released" ELSE "Absent"
        /\ StatusOf("refund") = IF "refund" \in Flows THEN "Refunded" ELSE "Absent"
    BY <2>3, <2>4, <2>5
  <2>8. tokens[Contributor] = IF "release" \in Flows THEN Amount ELSE 0
    BY <2>1, <2>7 DEF Balances
  <2>9. ASSUME Flows \cap {"release", "refund"} # {}
        PROVE  tokens[Sponsor] = Minted - (IF "release" \in Flows THEN Amount ELSE 0)
    <3>1. "mint_tokens" \in assets
      BY <2>1, <2>5, <2>7, <2>9 DEF FlowBooks
    <3>2. /\ Spent("release") = IF "release" \in Flows THEN Amount ELSE 0
          /\ Spent("refund") = 0
      BY <2>7 DEF Spent
    <3>. QED  BY <2>1, <3>1, <3>2 DEF Balances
  <2>. QED  BY <2>3, <2>6, <2>8, <2>9
<1>. QED  BY <1>1, MatrixInvariant, PTL
===============================================================================
