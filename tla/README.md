# TLA+ models of the OSS bounty escrow

The repository holds an Anchor program for Solana that keeps bounties in escrow,
and the Node.js tooling that uploads the program to a cluster, supervises those
uploads and runs an acceptance matrix against the deployed program. The modules
here model the program and the parts of the tooling that must survive crashes,
forks, timeouts and concurrent commands. TLC checks them on small instances;
every safety and action property of the runs, and the refinements of the abstract
escrow and the abstract upload, are proved with TLAPS for every instance.

## 1. The system

| Component | State it keeps | Operations | Interacts with |
|---|---|---|---|
| Escrow program (`programs/oss-bounty-escrow/src/lib.rs`, `rules.rs`) | one account and one vault per (sponsor, reference) | initialize, fund, release, refund, cancel | token program, cluster clock |
| Upload window (`upload-execution-command.mjs`, `throttled-uploader.mjs`, `upload-validation-snapshot.mjs`, `upload-terminal-evidence.mjs`) | an in-memory copy of the checkpoint; the checkpoint file, the lease directory, `telemetry.json`, terminal evidence | preflight, acquire, scan, sign, persist, send, confirm, record, terminalize | cluster (through the RPC scheduler), lease commands (through the files) |
| Lease commands (`upload-execution-lease.mjs`, `upload-buffer-cli.mjs`) | operation lock, receipts, archive | reconcile, apply, release, inspect and recover a pre-selection failure | checkpoint and lease files, process table, cluster |
| RPC scheduler and ledger (`rpc-request-scheduler.mjs`, `rpc-request-ledger.mjs`) | queue, active request, last start, counts per outcome | schedule, close, abort, start, time out, retry | callers' guards and observers, network |
| Window host and supervisor (`upload-window-host.mjs`, `upload-process-supervisor.mjs`, `upload-process-classifier.mjs`) | directory per execution id, two child processes, timers | verify manifest, consume id, spawn, terminate, classify, write the verdict | operating system, lease directory |
| Acceptance matrix (`business-flow-execution.mjs`, `-runner`, `-adapter`, `-instructions`) | step log, pending step, receipt file | four setup sends, eight flow sends, three simulations, expiry wait | escrow program, cluster |
| Execution ids (`reserveExecutionId`) | `execution-ids.json` | reserve | concurrent runs |
| Checkpoint store (`state.mjs`, `durable-json.mjs`) | `.devnet/state.json`, its shared temporary file, `history/` | validate, back up, save, migrate, configure | every upload and state command |
| State commands (`run.mjs`, `state-migration-command.mjs`) | a copy of the state in memory | `init-identities`, `prepare-buffer`, `migrate-state-v3` | checkpoint store, without the lease's lock |
| Telemetry (`upload-execution-telemetry.mjs`) | a snapshot in memory and `telemetry.json` | create, record starts, ends, cool-offs and sends, finish | upload window, RPC ledger (subscribers), release |
| Upload contract (`upload-execution-contract.mjs`) | none | compares an authorization with constants | window host |
| Upload plan (`upload-plan.mjs`, `loader-v3-codec.mjs`, `binary.mjs`, `plan-upload-*.mjs`) | none | chunk arithmetic, encodings | preflight |
| Deployment scripts (`deploy.mjs`, `live-deployment.mjs`, `safety.mjs`, `cluster.mjs`, `program-identity.mjs`, `candidate-evidence.mjs`) | none | build command lines, classify output, check configuration | tests |
| Local validator supervisor (`scripts/local-validator-supervisor.mjs`) | two child processes, port 8899, one ledger directory | start, probe, run the tests, clean up, handle signals | validator, tests, other supervisors |
| Test fixtures (`create-test-account.mjs`) | none | write a fixture | tests |

What is hard here:

* **Custody.** Anybody can send tokens to a vault, a contributor may itself be
  the address of an escrow, and release and refund meet at one second.
* **At most one transaction per chunk.** Sending is ambiguous, the process may
  die at any await, and the checkpoint is compared with its hash *before* the
  directory that excludes other windows is made.
* **Evidence that ages.** Lease commands act on a hash an earlier command
  printed; bytes at confirmed commitment may still be taken back by a fork.
* **Two levels of process supervision**, with exit and close as separate events,
  timers that race them, and no lock before the spawn.
* **A scheduler built of awaits**, where an abort may happen inside every wait.
* **Evidence that is written while things fail.** Every telemetry record is a
  write that may fail, also after its rename, and the failure is itself recorded.
* **Files without a lock.** The state commands and the reservation of ids read,
  change and write whole files, and all savers of the state share one temporary
  name.
* **An interrupt handler that runs beside main** in the validator supervisor, and
  supervisors that share a port and a directory.

The components and the hazards, each at its line, are listed in `PROJECT.json`.

## 2. Modules and how they correspond to the code

Definitions keep the name of the function they translate; the `map` of
`PROJECT.json` gives the lines of each. A SHA-256 is modelled by the value it
hashes, wording and timestamps are left out, and an operator written next to a
definition and described as its mutant is a deliberately wrong variant, which
shows that the properties notice that bug; no specification uses it.

### `Escrow`, `IdealEscrow`, `MCEscrow`, `EscrowProofs`

`escrow`, `tokens` and `now` are the accounts, the balances and the clock;
`events` is what `emit!` logs, with the time. Each action is one successful
instruction with the account constraints of its `#[derive(Accounts)]` struct; a
failing instruction rolls back and is a stutter. `TokenTransfer` lets users send
tokens anywhere, vaults included, and `Contributors` contains an escrow address,
for which a payout ends in a vault or, for its own address, moves nothing. There
is one mint (accounts of another mint are refused by the constraints).
`IdealEscrow` is the abstract specification: a trusted third party with a purse
per party, principals that are held per deal, and gifts that nobody can draw.
`Escrow!ImplementsIdeal` is the refinement: a vault's balance splits into the
principal the status implies and the rest.

### `UploadWorld`, `Uploader`, `LeaseOperator`, `UploadSystem`, `IdealUpload`, `MCUpload`, `UploadProofs`

`UploadWorld` declares what is shared: the checkpoint `file`, the `lease`
directory, its `archive`, the operation lock, the process table and the
transactions on the cluster, which land, fail, fall off their fork, finalize or
expire on their own. `Uploader` is one process per execution id, one action per
stretch between two awaits or file operations, from the preflight to the catch
block. `LeaseOperator` is one process per concurrently running command.
`UploadSystem` interleaves them with the cluster and states the properties.
A behaviour begins by choosing one of the `Scenarios`: the window's limit, the
chunks already on the buffer (`Matched`), the chunks an older uploader left
UNKNOWN (`Legacy`), and `Faults`, what may go wrong: exceptions, kills of windows
(`kill`) and commands (`opkill`), failing writes, timeouts, rate limits, failing,
forked and expired transactions. A command that fails before it has the lease leaves no
trace of its id, so the same model process may try again. `OldExec` stands for
an uploader from before leases existed; only scenarios with `Legacy` use it.
`NoLease` stands for the missing directory, `NoArchive` for the archive of an id
that has none and `NoOutcome` for the window of an id that the checkpoint does not
list; all are records, so that what is present is provably different from them.

`IdealUpload` is the abstract specification: one worker at a time holds the plan,
signs a chunk before it submits it and submits it at most once, resolves what it
sent by what the cluster cannot take back, and is let go of only when nothing it
sent is open. There are no processes, files, locks, evidence or faults in it.
`UploadSystem!ImplementsIdeal` is the refinement: the records are those of the
checkpoint file, the holder is the owner of the lease, `Chain` is the transaction of
the signer on record (a chunk has no other), `Working` says that some window is
inside its lease, `Past` are the archived ids, and `Undo` is the copy that a lease
command which has saved its reconciliation may still put back.

### `Telemetry`, `MCTelemetry`, `TelemetryProofs`

One window seen from its telemetry. `snap` is the store's copy in memory and
`disk` the file; `persist` checks the next snapshot (`validateSnapshot`,
`assertMonotonicExtension`), writes it and only then moves the copy. A write fails
before the rename, or after it in the flush of the directory, which leaves the
file ahead of the copy. `ledger` is what really went over the network, the truth
the file is compared with. The actions are the store's operations in the order the
window calls them, with the ledger's two subscribers inside `StartRequest` and
`EndRequest`, the retry of reads, the fallback of `recordSendFinish` and both
calls of `finish`. In `Uploader` the same file has three states (none, open,
finished); here its contents are modelled and the rest of the window is reduced to
what it records.

### `BusinessFlow`, `MCBusinessFlow`, `BusinessFlowProofs`

The driver of the acceptance matrix as a program counter over the list of steps
the code executes, on top of module `Escrow` (which it extends: the transactions
of the driver execute the instructions of the program model). `run` is the
driver's memory, `disk` the receipt file, `tx` the transactions. The cluster
processes, forks, executes and expires transactions also after the driver ended.
A crash of the driver needs no action: it is a behaviour in which the driver takes
no further step, and the safety properties hold in every state. The matrix creates
its own mint, so nobody has tokens before `mint_tokens` (`Supply` is zero).

### `StateFile`, `ExecutionIds`, `LocalCommands`, `MCLocalCommands`, `LocalCommandsProofs`

What an operator runs side by side in the shells of one machine. In `StateFile`
a command reads `state.json`, works on its copy, backs the file up and saves it:
`path` gives the names `state.json` and `state.json.tmp` to inodes and `data` their
contents, so that one process may truncate, fill or rename the temporary file another
has open. `WriteTemporary` over the bytes of another writer may leave a mixture, a
file that does not parse, and a write that fails ends the command, or makes a
migration restore its backup. A backup takes four steps, as in the code: the file is
parsed for its version (`ParseForBackup`), the name made of version and time is
looked up (`ChooseName`; a name that has a file is replaced by one with a UUID),
`state.json` is copied to the temporary name (`CopyState`) and renamed
(`PublishCopy`), over whatever has the name by then. `named` and `draft` are the files
of `history/` by name, `own` those whose name has a UUID, `clash` records that two
commands at work took the same name. A copy is one step, because only commands that
took the same name write the same file, and there the order of the copies is all
that matters. A state is its version, what is configured, and the marks windows
left in the chunk records. The upload window appears with its lease (one at a
time) and one save. `ExecutionIds` is `reserveExecutionId` as the three moments
that matter: read and check, truncate, fill; a file without valid JSON counts as
empty, as in the code. `lapped` are the runs whose ids a reader may have missed, and
the readers that did. `LocalCommands` gives every shell one of the two tools.

### `RpcScheduler`, `MCRpcScheduler`, `RpcSchedulerProofs`

`runItem`, `pump`, `schedule`, `close` and `abort`, with the ledger's entries
counted per request and outcome.
Clock readings are modelled by countdowns (`gap`, `budget`, `notBefore` and the
timer of the active request), so no bound on time is needed; timers may fire
late. `net` keeps operations that a timeout gave up, because no operation
listens to the abort signal. `since` is a history variable, the time since the
last start, against which `StartsSpaced` judges the code's own countdown.

### `WindowHost`, `MCWindowHost`, `WindowHostProofs`

Hosts, supervisors and uploaders as processes of one machine. Timers are untimed
(any timer that is set may fire). `"stuck"` processes and processes that ignore
signals are possible; the host's `platform` decides whether a tree kill reaches the detached
uploader (`taskkill /T`) or only the supervisor's group (`process.kill(-pid)`). The close
event clears the timers of a termination; a log that fails after it sets them again,
and the deadline may then still take back that the cleanup was completed.

### `ValidatorSupervisor`, `MCValidatorSupervisor`, `ValidatorSupervisorProofs`

Each supervisor is a process with two flows: `main` (`pc`) and the interrupt
handler (`h`), which take down the same children. Validator and tests are
processes that may end by themselves and may ignore SIGTERM. `port` is who is
bound, including the instant in which `checkPortFree` itself is, and `ledger` whose
validator wrote the shared directory; a refused start removes that directory once
before it looks at the port and once more in the catch around `main` (`Refuse`). The
first probe goes out before any event of the child, so that a validator that could
not be spawned is noticed only by the second look. A kill of the supervisor leaves its
detached children running. Only POSIX is modelled.

## 3. Runs

Every run finishes within five minutes. `about` in `PROJECT.json` says in one
sentence what each shows.

| Run | Instance | What it shows |
|---|---|---|
| `escrow_program` | 2 users, 2 references (one all-zero), amounts 0..1, times 0..2 | exact custody, one settlement on its side of the expiry, refinement of `IdealEscrow` (which also keeps the terms of a deal), and a funded escrow is settled whatever was sent to its vault |
| `upload_windows` | 2 windows, 1 operator, 2 chunks; three scenarios: a fresh checkpoint with throw, kill, write and timeout; one UNKNOWN chunk of an uploader without leases with timeouts and failing, forked and dropped transactions; the same with a chunk already on the buffer and rate limits | every send is on record, nothing is pending without a lease, CONFIRMED means finalized, the checkpoint only moves forward, refinement of `IdealUpload` |
| `upload_operators` | 2 windows, 2 operators that may be killed, 1 chunk; two scenarios: timeouts, or kills and failing writes of the window | a window holds its lease, and concurrent commands with old evidence, or receipts left by dead ones, never archive the lease of the wrong window or without a reason |
| `upload_liveness` | no faults, 2 chunks, 1 per window | windows and releases alternate until the upload is done or the ids are used up |
| `upload_exact_match_gap` | no faults, 3 chunks, the last one already on the buffer | expected violation, see below |
| `telemetry` | 3 chunks, 2 per window, 2 polls, 1 retry, 2 faults, a kill anywhere | a send on the network is evidenced on disk, COMPLETE leaves nothing out, an outcome refers to the file that is there, the terminal record is never refused |
| `matrix` | three flows, times 0..3, one expiry poll; throw, lag, drop, fork, write | COMPLETE is true of the chain, no step after an unverified one, the receipt covers every send, CONFIRMED_FAILED is final, and the driver ends although the chain's time may stand still |
| `rpc_scheduler` | a read and a send, a queue of one, gap 2, timeout 2, deadlines, failing callbacks | spacing of starts, bounded attempts, complete ledger, nothing starts after an abort, every accepted request settles and close and abort return although the network may stay silent |
| `window_host` | 1 host on either platform, every fault | a clean end means no process is left, success is earned, an absent lease stays absent, a host always ends |
| `window_hosts` | 2 hosts that may be killed, 2 ids | two windows never overlap |
| `local_commands` | 3 shells, each with a state command or a reservation of one of 2 ids; no state, a version 2 state or a version 3 state; all within one second of the clock | an id is reserved twice only by a run that overlapped another or met a torn file; a mark of a window that overlapped no one is never lost, and the state parses unless commands overlapped; the version 2 state is recoverable unless two commands took one backup name |
| `validator_supervisor` | 2 supervisors, 2 probes, 2 signals | a supervisor that ends leaves no process, supervisors disturb each other only when they really met, and each one that begins ends |

One run is expected to be violated, and has an entry under `findings`:
`upload_exact_match_gap` shows that chunks already on the buffer are confirmed
beyond the window, after which the prefix check refuses every preflight.

**Other differences from the documents.** The models contain these behaviours of
the code, and the properties are stated so that they allow exactly them; no run
isolates them.

* The scan resolves an UNKNOWN record by bytes at confirmed commitment
  (`throttled-uploader.mjs:188`), where
  `docs/PHASE_2_R4D_D_CHECKPOINT_2026-07-20.md:41` lets only a finalized status
  advance a chunk:
  `ConfirmedIsFinal` leaves the chunks of `Legacy` out.
* A read that throws leaves the receipt of the matrix at RUNNING
  (`business-flow-execution.mjs:552`, `docs/BUSINESS_FLOW_RUNNER.md:118`), and
  the write of a failure receipt may itself be swallowed (`:423`; the flag
  `run.missed` of `BusinessFlow`).
* A setup send is followed when it is only processed (`:315`), where
  `docs/BUSINESS_FLOW_RUNNER.md:117` stops the matrix on the first failure: a setup
  transaction may still fall off its fork after the next step was sent. No
  verification follows the setup either: a matrix of which only the cancel flow is
  enabled ends COMPLETE although `mint_tokens` fell off. `CompleteMeansSettled`
  states the sponsor's balance only where a flow funds an escrow; the proof attempt
  found the case, which the checked instance (all flows) does not contain.
* Two commands that overlap may lose a backup: `backupState` looks up
  `state-v<version>-<timestamp>.json`, and only then copies and renames over it
  (`state.mjs:158`, `:165`), and `run.mjs:204` keeps the seconds of the time. One
  command finds the name free, another backs up the version 2 state under it and
  saves version 3, and the first then copies version 3 over that backup.
  `docs/superpowers/specs/2026-07-19-r4a-bounded-devnet-upload-gate-design.md:95`
  speaks of a collision-safe backup, and `tests/devnet/state.test.mjs:176` tests that
  "same-timestamp backups preserve both snapshots", one after the other.
  `OriginalRecoverable` leaves out exactly the commands that took one name at the
  same time (`clash`); without that conjunct TLC finds the loss.
* Two overlapping runs, or a run after a torn write of `execution-ids.json`, may
  reserve the same id (`:90`, `:99`); `docs/BUSINESS_FLOW_RUNNER.md:102` names a refusal of replays.
  `ReplayNeedsOverlapOrTear` says that one of the two runs was itself part of it.
* On POSIX the host's `process.kill(-pid)` (`upload-window-host.mjs:611`) reaches
  the group of the supervisor, but the uploader is started detached
  (`upload-process-supervisor.mjs:152`): after an interrupt the supervisor is gone
  and the uploader goes on, where
  `docs/superpowers/specs/2026-07-26-r4-outer-upload-host-design.md:25` speaks of
  an owned-process-tree cleanup. The host reports CLEANUP_FAILED.
* When only the flush of the directory fails, `telemetry.json` is ahead of the
  store, and the next record, built on the store's copy, takes the file back
  (`upload-execution-telemetry.mjs:600`). No send gets lost by it:
  `SendIsEvidenced`.
* A chunk that is finalized at its first poll has one confirmation poll and makes
  the verdict INCOMPLETE (`upload-execution-telemetry.mjs:328`).
* `init-identities` and `prepare-buffer` turn a version 2 state into a version 3
  state without a plan (`run.mjs:220`); `migrate-state-v3`, described in
  `docs/superpowers/specs/2026-07-19-r4a-bounded-devnet-upload-gate-design.md:93`,
  then fails with "chunk coverage mismatch". The version 2 state stays in
  `history/`: `OriginalRecoverable`.
* Two commands that overlap may publish each other's half-written state, because
  all of them save through `state.json.tmp` (`state.mjs:139`).
* A second signal of the same kind ends the validator supervisor at once
  (`process.once`, `local-validator-supervisor.mjs:585`) and leaves its detached
  children; and a second supervisor removes the ledger of the first one before it
  finds the port in use (`:609`).

**Bounds.** Two windows suffice for the races between windows: a lease has one
owner, and a third window only repeats what the second meets (an archive of
another id, a checkpoint that moved). Two or three chunks give a chunk before, in
and after the window. Two operators give every overlap of two commands, and the
lock admits one. Two users with two roles each, times 0..2 and amounts 0..1 over
two tokens per user cover before, at and after the expiry, the refused amount
and balances that do and do not cover the payments; the proofs remove these
bounds. For the scheduler, a gap and a timeout of two units separate "before",
"at" and "after"; for the hosts, two hosts with two ids give equal and different
ids. In the matrix the release lead of 3 and the refund lead of 1 let the refund
expire before the release does. In the telemetry two chunks per window of three
give a sent, a confirmed and an untouched chunk, and two faults let a write fail
after a failed request. Three shells give two overlapping commands and one that
comes later. One reading of the clock gives equal backup names; different ones come
from the version and from the two formats of the time, and the proofs hold for any
clock. Two requests never meet a full scheduler queue; three are too many for TLC
here. Two supervisors and two signals give an interrupted one, a killed one
and one that meets what was left. Symmetry is used for execution ids and operators
in the safety runs of the upload, for hosts and ids in `window_hosts` and for
shells and ids in `local_commands`, where no property distinguishes them; no run
with a liveness property uses it.

**Deadlock.** It is checked except where the system really stops: a matrix that
has ended, shells whose commands are over, a window that has ended, hosts that
have written their verdict, supervisors that have ended, and lease commands that
were all killed.

**Fairness.** `Escrow`: the clock advances, and the sponsor asks for the refund
(nobody else can move the principal after the expiry). `UploadSystem`: a running
process goes on (weak, its own steps), the cluster lands and finalizes, and
somebody repeats reconcile and release (strong, because other commands may
interpose); no fault is enabled. `BusinessFlow`: the driver goes on and the
cluster decides; the clock is *not* fair. `RpcScheduler`: timers fire and the
event loop runs; answers are not fair. `WindowHost`: the host's own timers and
continuations; nothing about its children. `ValidatorSupervisor`: the event loop
(weak, main and handler apart), the tests end because each has a timeout, and a
validator that was sent SIGKILL ends; nothing obliges it to answer or to heed
SIGTERM.

## 4. Proofs

One module of theorems per component extends the component and `TLAPS`. Each
proves, for every value of the constants that satisfies the named assumption of
its module, that an inductive invariant holds, and derives the properties of the
runs from it. The layout is the same everywhere: typing, one lemma on the effect
of each action, lemmas that carry each conjunct over such an effect, and a last
step with `PTL`. No theorem assumes anything beyond the `ASSUME`s of the modules,
which TLC evaluates in the runs; what they say is that the sentinels (`None`,
`Null`, `NoLease`...) are not values of the program, that bounds are natural numbers
and that the parties of the matrix are different.

**`EscrowProofs`** (assumption: kinds of addresses are distinct, amounts natural).
`EscrowInv` consists of `TypeOK`, `VaultSolvent`, `PayoutFollowsTerms` and two
strengthenings. `LogMatchesStatus` ties the log of an escrow to its status (nothing
while initialized, a deposit while funded, a deposit and a payout once settled, a
cancellation alone): without it neither one settlement nor the payouts' terms are
inductive. `AddressOfSponsor` says that the sponsor recorded at an address is the
one in its seeds, which makes the funding wallet and the refund wallet the same.
Theorems: `TypeCorrect`, `Solvency`, `PayoutsFollowTerms`, `SettledOnce`, the action
properties `VaultDebits` and `TermsAreFrozen`, and the refinement `ProgramIsEscrow`:
the initial states of the program map to the initial state of `IdealEscrow`, and
every instruction to one ideal step or a stutter, under the mapping `Deal`, `Purse`,
`Held`, `Gifts` (the principal is read off the status, a gift is what the vault holds
beyond it, which solvency makes non-negative). Solvency rests on a lemma that a
transfer lowers only its source, and the source is a user's wallet or the vault of
the escrow whose status leaves "Funded" in that step.

**`UploadProofs`** (any number of chunks, windows and commands; any scenario, hence
all faults together, which no run combines). Files, leases and evidence contain each
other (a receipt holds a checkpoint that holds receipts), so they are typed by their
fields. The invariant `IInv` has four parts besides the properties themselves.
`ProcInv` is what a window relies on between two steps: its memory is the file; the
record of the chunk in work is PLANNED, then SENT under its own id; nothing but
`Legacy` is unresolved until it sends; a chunk whose error was seen has a
transaction; an id that has not started has left no trace (`Clean`). `LeaseInv`: the
lease belongs to a window that runs or has ended, and the checkpoint it was taken on
did not know that window. This is what bridges the gap between the hash check and
the mkdir of `acquireUploadLease`: a window that acquires on a stale hash still
finds nothing pending, because without a lease nothing ever is. `OpInv`: a command
that has decided (`applied`, `receipt`) holds the operation lock, its window has
ended, the file is still as it found it, or as it made it of the copy it may put
back, and every transaction it saw final still is (`Observed`). `ArchiveInv`: an
archived id has ended for good. Mutual exclusion follows from the process table
(`SafeToRelease` refuses a live owner, and the owner is alive exactly between
preflight and end), not from the operation lock. Theorems: `WindowsHoldTheLease`,
`SendsAreRecorded`, `ConfirmationIsFinal`, `LeaseCoversPending`,
`ArchivesAreJustified`, the action property `CheckpointIsMonotone`, and the
refinement `SystemIsIdeal`. Its argument: a window's preflight is a stutter until
the mkdir of the lease, which is `Begin`; after it every step is one of `Match`,
`Sign`, `Submit`, `Resolve`, `Stop` or a stutter, by what the step does to the one
record it may move (`RecordMoves`, `Submits`); the save of an apply is `Reconcile`,
its end, verified, rolled back or killed, is `Verify`, and the rename to the archive
is `Release`; the fate of a transaction on record is `Advance`. What makes it hold
is that no step of one process moves the picture of another: a window writes only
under its lease, a command only where its window has ended, and only the holder of
the operation lock has something to put back.

**`TelemetryProofs`** (any plan, window, retries and faults). `TelemetryInv` relates
the copy in memory, the file and the network: what is open (a request, a send, a
poll) in each phase, that the store's own checks accept the copy, that the file is
the copy or one record ahead of it, and which evidence each phase has already put on
disk. `FinishIsAdmitted` needs most of it: the terminal record is only admitted when
every open item is closed in the right order. Theorems: `SendsAreEvidenced`,
`OutcomesNameTheFile`, `FinishIsAdmitted`, `CompleteIsComplete`.

**`BusinessFlowProofs`** (any enabled flows, amounts, lead times, polls and faults).
`MatrixInv` has a part about the chain (`ChainInv`: the status of an escrow is
evidence of the transaction that set it, and the books of each flow balance), one
about the driver (`DriverInv`: every send is behind, at or ahead of it, what is
ahead is not on the cluster, what it verified took effect, its memory covers every
send), and two that join them: a transaction of an abandoned fork can only be
executed again where it still is acceptable, and a reported failure is final.
Theorems: `FailuresAreFinal`, `StepsAreVerified`, `ReceiptIsComplete`,
`CompletionIsSettlement`.

**`LocalCommandsProofs`** (any finite set of shells, any ids and times). `LocalInv`
has one part per store. `ReserveInv`: the id of a run that is not `lapped` is in the
list and in what every run at work has read, and nobody goes on with an id it has
read. For the state file: `ApartInv`, as long as no name was taken twice, no file has
a name a command took and nobody else took it; `OriginalInv`, as long as no backup has
the version 2 state it is still in place, nobody has begun to save, and whoever is
about to name a backup holds a copy of it; `SoloInv`, what a command that met no other
has in its temporary file; `WindowInv`, a window saves a version 3 state with its own
mark; `MarkInv`, the mark of a window that overlapped no one is in the file, in the
temporary file while that parses, and in the memory of whoever is at work, and no
migration is; `ParseInv`, while no two commands overlapped the file parses and so does
everything it may be replaced by. Theorems: `ReplaysAreExplained`, `OriginalIsKept`,
`ProgressIsKept`.

**`RpcSchedulerProofs`**. Spacing: `gap + since >= Gap`, the countdown never runs
ahead of the time that passed. Attempts: the phase and the attempt number of the
active item agree with the starts counted, and what waits in the queue has not
started. Ledger: the entries of a request are its starts, less one while its attempt
is in flight; the attempts' invariant makes sure that every outcome is entered for
the request that is active. Theorems: `RequestsAreSpaced`, `AttemptsAreBounded`,
`AttemptsAreRecorded`, `AbortIsFinal`.

**`WindowHostProofs`** (any number of hosts and ids, both platforms). `WindowInv`
describes which records a host holds of its children in each phase, that the
supervisor's report is evidence of the uploader's end, and that at most one host is
past its look at the process table (`OneHolder`). Theorems: `WindowsExclude`,
`CleanupIsComplete`, `SuccessesAreEarned`, `AbsenceIsFinal`.

**`ValidatorSupervisorProofs`** (any number of supervisors and signals).
`SupervisorInv` ties the children to the places of `main` and the handler, the port
to a validator, and interference to a meeting (`SharersMet`). Theorems:
`NothingIsLeftBehind`, `InterferenceExplained`.

Only model-checked:

* the liveness properties (`FundedEventuallySettled`, `UploadNeverWedged`,
  `RunEnds`, `EveryRequestSettles`, `DrainEnds`, `HostEnds`, `SupervisorEnds`): fairness and
  `ENABLED` are not in the prover's reach;
* the expected violation `upload_exact_match_gap`.

## 5. Not modelled

* Command-line and manifest parsing, the upload contract, the text of evidence
  and receipts: input validation and wording without state.
* The funding and freshness checks the matrix and the preflight run once before
  their first write; `waitForCoolOff`; the retention of old ledger entries.
* In the telemetry the sizes of time gaps and the legacy schema;
  `evaluateUploadTelemetryPublication`, `decideNextStep` and the functions of
  `deploy.mjs` and `live-deployment.mjs` have no caller but the tests.
* The upload plan's arithmetic: pure functions, whose result (a partition into
  chunks) is a constant of the upload modules.
* In `StateFile` schema version 1 and the comparison of keys and hashes (a check
  that may fail); in `ValidatorSupervisor` the Windows cleanup, diagnostics and the
  log.

## 6. Status

`Escrow` and the upload have abstract specifications and are shown to refine them;
the other components state their promises as properties. Every safety and action
property of the runs and both refinements are proved for all instances. What could
still be added: the checks that run once before the first write (funding, freshness,
the manifest), `waitForCoolOff`, and the Windows cleanup of the validator supervisor.
