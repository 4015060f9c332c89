---------------------------- MODULE BusinessFlow ------------------------------
(***************************************************************************)
(* The acceptance matrix: executeFullMatrix and runAcceptanceMatrix of     *)
(* business-flow-execution.mjs, with the expiry policy of                  *)
(* business-flow-runner.mjs and the adapter of business-flow-adapter.mjs,  *)
(* driving the program of module Escrow.                                   *)
(*                                                                         *)
(* One step of the driver ends where the code awaits.  Sent transactions   *)
(* execute, fall off their fork or expire on their own, also after the     *)
(* driver has gone.                                                        *)
(***************************************************************************)
EXTENDS Escrow

CONSTANTS
    Sponsor, Maintainer, Contributor,   \* plan.identities
    Flows,        \* grant.enabledFlows
    Amount,       \* plan.manifest.amount
    ReleaseLead,  \* initFundBufferSeconds + 3600
    RefundLead,   \* refundExpiryLeadSeconds
    MaxPolls,     \* bound: polls before waitTimeoutMs has elapsed
    Faults,       \* bound: what may go wrong, a subset of MatrixFaults
    None

MatrixFaults == {"throw", "lag", "drop", "fork", "write"}

FlowNames == {"release", "refund", "cancel"}

(* What the program answers a simulated instruction with.                    *)
Errors == {"AccountNotInitialized", "InitializeError", "ConstraintHasOne",
           "InvalidStatus", "EscrowExpired", "EscrowNotExpired", "InsufficientFunds"}

(* The matrix creates its own mint: nobody holds any of it before.           *)
ASSUME BusinessFlowAssumption ==
    /\ Supply = [u \in Users |-> 0]
    /\ None \notin Nat \cup Status \cup Errors
    /\ {Sponsor, Maintainer, Contributor} \subseteq Users
    /\ Contributor # Maintainer /\ Contributor # Sponsor
    /\ Flows \subseteq FlowNames /\ FlowNames \subseteq Refs \ {ZeroRef}
    /\ Amount \in Nat \ {0}
    /\ ReleaseLead \in Nat \ {0} /\ RefundLead \in Nat \ {0}
    /\ MaxPolls \in Nat
    /\ Faults \subseteq MatrixFaults

-------------------------------------------------------------------------------
(* The steps, in the order of executeFullMatrix                              *)

Step(kind, flow, name, expect) ==
    [kind |-> kind, flow |-> flow, name |-> name, expect |-> expect]

(* expect of a send is the escrow status its verification wants; None: the   *)
(* send is not verified.  expect of a simulation is the error it wants.      *)
SetupSteps ==
    << Step("send", "setup", "create_mint", None),
       Step("send", "setup", "sponsor_ata", None),
       Step("send", "setup", "contributor_ata", None),
       Step("send", "setup", "mint_tokens", None),
       Step("time", "setup", "chain_time", None) >>

FlowSteps ==
    [release |->
        << Step("send", "release", "initialize", "Initialized"),
           Step("send", "release", "fund", "Funded"),
           Step("simulate", "release", "unauthorized_release", "any"),
           Step("read", "release", "before", None),
           Step("send", "release", "release", "Released") >>,
     refund |->
        << Step("send", "refund", "initialize", "Initialized"),
           Step("send", "refund", "fund", "Funded"),
           Step("simulate", "refund", "refund_before_expiry", "EscrowNotExpired"),
           Step("wait", "refund", "wait_expiry", None),
           Step("simulate", "refund", "release_at_or_after_expiry", "EscrowExpired"),
           Step("read", "refund", "before", None),
           Step("send", "refund", "refund", "Refunded") >>,
     cancel |->
        << Step("send", "cancel", "initialize", "Initialized"),
           Step("send", "cancel", "cancel", "Cancelled") >>]

StepsOf(flow) == IF flow \in Flows THEN FlowSteps[flow] ELSE << >>

Matrix == SetupSteps \o StepsOf("release") \o StepsOf("refund") \o StepsOf("cancel")

StepIds == 1 .. Len(Matrix)

Sends == {i \in StepIds : Matrix[i].kind = "send"}

(* setupWrites + liveWrites of FLOW_DEFINITIONS                              *)
LiveWrites == [release |-> 3, refund |-> 3, cancel |-> 2]

computeFullCeiling ==
    4 + (IF "release" \in Flows THEN LiveWrites.release ELSE 0)
      + (IF "refund" \in Flows THEN LiveWrites.refund ELSE 0)
      + (IF "cancel" \in Flows THEN LiveWrites.cancel ELSE 0)

-------------------------------------------------------------------------------
VARIABLES
    assets,  \* setup instructions that took effect on the cluster
    tx,      \* tx[i]: the transaction of step i on the cluster
    run,     \* the memory of the driver
    disk     \* the receipts: <id>.matrix.json and the evidence of <id>.json

matrixVars == <<now, escrow, tokens, events, assets, tx, run, disk>>

TxStates == {"none", "inflight", "processed", "ok", "failed", "dropped"}

Outcomes == {"CONFIRMED_SUCCESS", "CONFIRMED_FAILED", "CONFIRMATION_UNKNOWN",
             "STOPPED_ON_STATE_MISMATCH", "STOPPED_ON_SIMULATION",
             "STOPPED_ON_EXPIRY_TIMEOUT", "EXPECTED_ERROR", "REACHED"}

MatrixInit ==
    /\ Init
    /\ assets = {}
    /\ tx = [i \in Sends |-> "none"]
    /\ run = [pc |-> "step", i |-> 1, base |-> 0, before |-> 0, polls |-> 0,
              sent |-> 0, log |-> {}, evidence |-> {}, pending |-> None,
              status |-> "RUNNING", missed |-> FALSE]
    /\ disk = [log |-> {}, evidence |-> {}, pending |-> None, status |-> "RUNNING"]

-------------------------------------------------------------------------------
(* The instructions the sends carry                                          *)

Key(i) == <<Sponsor, Matrix[i].flow>>

planExpiry(flow) == run.base + (IF flow = "refund" THEN RefundLead ELSE ReleaseLead)

(* What the mint and the associated token account program require.           *)
SetupNeeds ==
    [create_mint |-> {}, sponsor_ata |-> {"create_mint"},
     contributor_ata |-> {"create_mint"},
     mint_tokens |-> {"create_mint", "sponsor_ata"}]

Minted == Amount * (IF Flows = {} THEN 1 ELSE Cardinality(Flows))

SetupInstruction(name) ==
    /\ SetupNeeds[name] \subseteq assets
    /\ assets' = assets \cup {name}
    /\ tokens' = IF name = "mint_tokens" THEN [tokens EXCEPT ![Sponsor] = @ + Minted]
                 ELSE tokens
    /\ UNCHANGED <<now, escrow, events>>

(* The mint and the token accounts an instruction names must exist.          *)
InstructionNeeds(name) ==
    CASE name = "initialize" -> {"create_mint"}
      [] name = "release" -> {"contributor_ata"}
      [] OTHER -> {}

EscrowInstruction(i) ==
    LET name == Matrix[i].name
    IN  /\ InstructionNeeds(name) \subseteq assets
        /\ \/ /\ name = "initialize"
              /\ InitializeEscrow(Sponsor, Matrix[i].flow, Amount,
                     planExpiry(Matrix[i].flow), Maintainer, Contributor)
           \/ name = "fund" /\ FundEscrow(Key(i), Sponsor)
           \/ name = "release" /\ Release(Key(i), Maintainer)
           \/ name = "refund" /\ Refund(Key(i), Sponsor)
           \/ name = "cancel" /\ Cancel(Key(i), Sponsor)
        /\ UNCHANGED assets

(* The error the program answers with, None when the instruction succeeds.   *)
ProgramError(name, key, signer) ==
    LET e == escrow[key]
    IN  CASE ~(InstructionNeeds(name) \subseteq assets) -> "AccountNotInitialized"
          [] name = "initialize" /\ InstructionNeeds(name) \subseteq assets ->
               IF e = Absent /\ planExpiry(key[2]) > now THEN None ELSE "InitializeError"
          [] name # "initialize" /\ e = Absent -> "AccountNotInitialized"
          [] OTHER ->
               IF name = "release" /\ signer # e.maintainer THEN "ConstraintHasOne"
               ELSE IF e.status # (IF name \in {"fund", "cancel"} THEN "Initialized" ELSE "Funded")
                    THEN "InvalidStatus"
               ELSE IF name \in {"fund", "release"} /\ now >= e.expiry THEN "EscrowExpired"
               ELSE IF name = "refund" /\ now < e.expiry THEN "EscrowNotExpired"
               ELSE IF name = "fund" /\ tokens[signer] < e.amount THEN "InsufficientFunds"
               ELSE None

SendSigner(i) == IF Matrix[i].name = "release" THEN Maintainer ELSE Sponsor

Accepts(i) ==
    IF Matrix[i].flow = "setup" THEN SetupNeeds[Matrix[i].name] \subseteq assets
    ELSE ProgramError(Matrix[i].name, Key(i), SendSigner(i)) = None

-------------------------------------------------------------------------------
(* The cluster.  Effects are those of the confirmed bank; a processed        *)
(* transaction is on a fork that may still be abandoned.                     *)

SetTx(i, state) == tx' = [tx EXCEPT ![i] = state]

Process(i) ==
    /\ tx[i] = "inflight"
    /\ SetTx(i, "processed")
    /\ UNCHANGED <<now, escrow, tokens, events, assets, run, disk>>

Execute(i) ==
    /\ tx[i] = "processed"
    /\ \/ /\ IF Matrix[i].flow = "setup" THEN SetupInstruction(Matrix[i].name)
             ELSE EscrowInstruction(i)
          /\ SetTx(i, "ok")
       \/ /\ ~Accepts(i)
          /\ SetTx(i, "failed")
          /\ UNCHANGED <<now, escrow, tokens, events, assets>>
    /\ UNCHANGED <<run, disk>>

Fork(i) ==
    /\ "fork" \in Faults
    /\ tx[i] = "processed"
    /\ SetTx(i, "inflight")
    /\ UNCHANGED <<now, escrow, tokens, events, assets, run, disk>>

Drop(i) ==
    /\ "drop" \in Faults
    /\ tx[i] = "inflight"
    /\ SetTx(i, "dropped")
    /\ UNCHANGED <<now, escrow, tokens, events, assets, run, disk>>

Clock == Tick /\ UNCHANGED <<assets, tx, run, disk>>

-------------------------------------------------------------------------------
(* The driver                                                                *)

chain == <<now, escrow, tokens, events, assets>>

Current == Matrix[run.i]

At(pc) == run.pc = pc /\ run.i \in StepIds

(* writeReceipt of the driver and of runAcceptanceMatrix: both swallow a     *)
(* failing write.                                                            *)
Receipt(r) == [log |-> r.log, evidence |-> r.evidence, pending |-> r.pending,
               status |-> r.status]

Write(r) ==
    \E missed \in (IF "write" \in Faults THEN BOOLEAN ELSE {FALSE}) :
        /\ run' = [r EXCEPT !.missed = missed]
        /\ disk' = IF missed THEN disk ELSE Receipt(r)

Entry(outcome) == [step |-> run.i, outcome |-> outcome]

(* steps.push, pending = null, on to the next step                           *)
Logged(r, outcome) ==
    [r EXCEPT !.log = @ \cup {Entry(outcome)}, !.pending = None,
              !.pc = "step", !.i = @ + 1]

(* the same, then stop(reason, status)                                       *)
Stopped(r, outcome) ==
    [r EXCEPT !.log = @ \cup {Entry(outcome)}, !.pending = None,
              !.pc = "returned", !.status = outcome]

WithEvidence(r, outcome) == [r EXCEPT !.evidence = @ \cup {Entry(outcome)}]

StopSend(r, outcome) == Write(Stopped(WithEvidence(r, outcome), outcome))

(* An exception no handler of the driver catches: nothing more is written.   *)
Threw ==
    /\ run' = [run EXCEPT !.pc = "threw"]
    /\ UNCHANGED <<chain, tx, disk>>

(* Mutant of BeginStep: the pending step is not written.                     *)
BeginUnwritten ==
    /\ At("step")
    /\ Current.kind \in {"send", "simulate", "wait"}
    /\ run' = [run EXCEPT !.pc = Current.kind, !.pending = run.i]
    /\ UNCHANGED <<chain, tx, disk>>

(* pending = {...}; writeMatrixReceipt(), and guardCeiling for a send         *)
BeginStep ==
    /\ At("step")
    /\ Current.kind \in {"send", "simulate", "wait"}
    /\ Write([run EXCEPT !.pending = run.i,
           !.pc = IF Current.kind = "send" /\ run.sent >= computeFullCeiling THEN "threw"
                  ELSE Current.kind])
    /\ UNCHANGED <<chain, tx>>

(* adapter.send: the preflight simulation refuses what the program would     *)
(* refuse; any other error leaves open whether the cluster got it.           *)
Send ==
    LET submitted == [tx EXCEPT ![run.i] = "inflight"]
    IN  /\ At("send")
        /\ \/ /\ Accepts(run.i)
              /\ tx' = submitted
              /\ run' = [run EXCEPT !.sent = @ + 1, !.pc = "confirm"]
              /\ UNCHANGED disk
           \/ /\ ~Accepts(run.i)
              /\ StopSend(run, "CONFIRMATION_UNKNOWN")
              /\ UNCHANGED tx
           \/ /\ "throw" \in Faults
              /\ StopSend(run, "CONFIRMATION_UNKNOWN")
              /\ tx' \in {tx, submitted}
        /\ UNCHANGED chain

(* confirmTransaction waits for the confirmed commitment; it throws when the *)
(* blockhash expires and on any RPC error.                                   *)
ConfirmReturns ==
    /\ At("confirm")
    /\ \/ /\ tx[run.i] = "ok"
          /\ run' = [run EXCEPT !.pc = "verify"]
          /\ UNCHANGED disk
       \/ tx[run.i] = "failed" /\ StopSend(run, "CONFIRMED_FAILED")
    /\ UNCHANGED <<chain, tx>>

ConfirmThrows ==
    /\ At("confirm")
    /\ tx[run.i] = "dropped" \/ "throw" \in Faults
    /\ run' = [run EXCEPT !.pc = "status"]
    /\ UNCHANGED <<chain, tx, disk>>

(* Mutant of StatusOutcome: a signature nobody knows counts as failed.       *)
UnknownIsFailed(i) ==
    IF tx[i] = "ok" \/ (tx[i] = "processed" /\ Accepts(i)) THEN "CONFIRMED_SUCCESS"
    ELSE "CONFIRMED_FAILED"

(* signatureStatus: whatever status the node has, a processed one included.  *)
StatusOutcome(i) ==
    CASE tx[i] = "ok" \/ (tx[i] = "processed" /\ Accepts(i)) -> "CONFIRMED_SUCCESS"
      [] tx[i] = "failed" \/ (tx[i] = "processed" /\ ~Accepts(i)) -> "CONFIRMED_FAILED"
      [] OTHER -> "CONFIRMATION_UNKNOWN"

ReadStatus ==
    /\ At("status")
    /\ \E outcome \in {StatusOutcome(run.i)} \cup
                      (IF "throw" \in Faults THEN {"CONFIRMATION_UNKNOWN"} ELSE {}) :
          IF outcome = "CONFIRMED_SUCCESS"
          THEN Write([WithEvidence(run, outcome) EXCEPT !.pc = "verify"])
          ELSE StopSend(run, outcome)
    /\ UNCHANGED <<chain, tx>>

(* The token account whose delta a terminal step is verified with.           *)
Paid(i) == IF Matrix[i].name = "release" THEN Contributor ELSE Sponsor

verifyTokenDelta(i) ==
    Matrix[i].name \in {"release", "refund"} => tokens[Paid(i)] - run.before = Amount

(* Mutant of Verified: the confirmation alone is believed.                   *)
Unverified(i) == TRUE

(* verify(): the escrow account, then the token account.  A node that lags   *)
(* behind shows the state before the step.                                   *)
Verified(i) ==
    Matrix[i].expect # None =>
        escrow[Key(i)].status = Matrix[i].expect /\ verifyTokenDelta(i)

Verify ==
    /\ At("verify")
    /\ \/ /\ Verified(run.i)
          /\ Write(Logged(WithEvidence(run, "CONFIRMED_SUCCESS"), "CONFIRMED_SUCCESS"))
          /\ UNCHANGED <<chain, tx>>
       \/ /\ Current.expect # None /\ escrow[Key(run.i)] # Absent
          /\ ~Verified(run.i) \/ ("lag" \in Faults /\ Current.name # "initialize")
          /\ StopSend(run, "STOPPED_ON_STATE_MISMATCH")
          /\ UNCHANGED <<chain, tx>>
       \/ /\ Current.expect # None
          /\ \/ escrow[Key(run.i)] = Absent
             \/ "lag" \in Faults /\ Current.name = "initialize"
             \/ "throw" \in Faults
          /\ Threw

(* The simulated instruction, and what the program answers.                  *)
SimulationError ==
    CASE Current.name = "unauthorized_release" ->
           ProgramError("release", Key(run.i), Contributor)
      [] Current.name = "refund_before_expiry" ->
           ProgramError("refund", Key(run.i), Sponsor)
      [] Current.name = "release_at_or_after_expiry" ->
           ProgramError("release", Key(run.i), Maintainer)

simulate ==
    /\ At("simulate")
    /\ \/ /\ \E error \in {SimulationError} \cup
                          (IF "lag" \in Faults THEN {"AccountNotInitialized"} ELSE {}) :
                Write(IF error # None /\ Current.expect \in {error, "any"}
                      THEN Logged(run, "EXPECTED_ERROR")
                      ELSE Stopped(run, "STOPPED_ON_SIMULATION"))
          /\ UNCHANGED <<chain, tx>>
       \/ "throw" \in Faults /\ Threw

(* Mutant of waitForExpiry: the timeout is measured from the last poll and   *)
(* never elapses.                                                            *)
WaitFromLastPoll ==
    /\ At("wait")
    /\ now >= planExpiry("refund")
    /\ Write(Logged(run, "REACHED"))
    /\ UNCHANGED <<chain, tx>>

(* One round of waitForExpiry.                                               *)
waitForExpiry ==
    /\ At("wait")
    /\ \/ /\ now >= planExpiry("refund")
          /\ Write(Logged(run, "REACHED"))
          /\ UNCHANGED <<chain, tx>>
       \/ /\ now < planExpiry("refund") /\ run.polls >= MaxPolls
          /\ Write(Stopped(run, "STOPPED_ON_EXPIRY_TIMEOUT"))
          /\ UNCHANGED <<chain, tx>>
       \/ /\ now < planExpiry("refund") /\ run.polls < MaxPolls
          /\ run' = [run EXCEPT !.polls = @ + 1]
          /\ UNCHANGED <<chain, tx, disk>>
       \/ "throw" \in Faults /\ Threw

(* getChainTime and tokenAmount between two steps: no receipt is written.    *)
(* tokenAmount throws when there is no such account.                         *)
ReadBetween ==
    /\ At("step")
    /\ Current.kind \in {"time", "read"}
    /\ LET account == IF Current.flow = "release" THEN Contributor ELSE Sponsor
           exists == Current.flow = "release" => "contributor_ata" \in assets
       IN  \/ /\ exists
              /\ run' = IF Current.kind = "time"
                        THEN [run EXCEPT !.i = @ + 1, !.base = now]
                        ELSE [run EXCEPT !.i = @ + 1, !.before = tokens[account]]
              /\ UNCHANGED <<chain, tx, disk>>
           \/ (~exists \/ "throw" \in Faults) /\ Threw

Complete ==
    /\ run.pc = "step"
    /\ run.i \notin StepIds
    /\ Write([run EXCEPT !.pc = "returned", !.status = "COMPLETE"])
    /\ UNCHANGED <<chain, tx>>

DriverStep ==
    \/ BeginStep
    \/ Send
    \/ ConfirmReturns
    \/ ConfirmThrows
    \/ ReadStatus
    \/ Verify
    \/ simulate
    \/ waitForExpiry
    \/ ReadBetween
    \/ Complete

MatrixNext ==
    \/ DriverStep
    \/ \E i \in Sends : Process(i) \/ Execute(i) \/ Fork(i) \/ Drop(i)
    \/ Clock

(* A crash of the driver is a behaviour in which it takes no more steps: the *)
(* invariants hold of its receipt wherever that happens.                     *)
MatrixSpec == MatrixInit /\ [][MatrixNext]_matrixVars

(* The driver goes on, and the cluster decides every transaction it has.     *)
(* The chain's time is not required to advance: the wait has its own bound.  *)
MatrixFairSpec ==
    /\ MatrixSpec
    /\ WF_matrixVars(DriverStep)
    /\ \A i \in Sends : WF_matrixVars(Process(i)) /\ WF_matrixVars(Execute(i))

-------------------------------------------------------------------------------
(* Properties                                                                *)

FinalStatus == [release |-> "Released", refund |-> "Refunded", cancel |-> "Cancelled"]

(* COMPLETE is a statement about the chain: every enabled flow reached its   *)
(* terminal status, the contributor has exactly the released amount, no      *)
(* vault holds anything, and the sponsor has the rest of the mint.  The last *)
(* needs a flow that funds: nothing verifies the setup steps, so a matrix of *)
(* cancellations completes as well when the mint's transaction, reported     *)
(* from a processed status, is abandoned with its fork.                      *)
CompleteMeansSettled ==
    run.status = "COMPLETE" =>
        LET paid == IF "release" \in Flows THEN Amount ELSE 0
        IN  /\ \A f \in Flows : /\ escrow[<<Sponsor, f>>].status = FinalStatus[f]
                                /\ tokens[<<Sponsor, f>>] = 0
            /\ tokens[Contributor] = paid
            /\ Flows \cap {"release", "refund"} # {} =>
                  tokens[Sponsor] = Minted - paid

(* No step N+1: while a step is on the cluster, every earlier send that has  *)
(* a verification took effect.  The verification is what makes this true     *)
(* when signatureStatus answers with a status of an abandoned fork.          *)
VerifiedBeforeNext ==
    \A i, j \in Sends :
        i < j /\ tx[j] # "none" /\ Matrix[i].expect # None => tx[i] = "ok"

(* A driver that dies anywhere leaves a receipt that names every transaction *)
(* it may have sent, as a logged step or as the pending one, unless the last *)
(* write of the receipt failed, which writeMatrixReceipt swallows; the next  *)
(* write that succeeds makes up for the ones before it.                      *)
ReceiptCoversEverySend ==
    \A i \in Sends : tx[i] # "none" /\ ~run.missed =>
        disk.pending = i \/ \E entry \in disk.log : entry.step = i

(* What is reported CONFIRMED_FAILED never takes effect, also not later.     *)
FailedHadNoEffect ==
    \A entry \in run.log :
        entry.outcome = "CONFIRMED_FAILED" => tx[entry.step] # "ok"

(* The matrix does not run for ever, even when the chain's time stands       *)
(* still during the wait for the expiry.                                     *)
RunEnds == <>(run.pc \in {"returned", "threw"})
===============================================================================
