------------------------------ MODULE Pipeline ------------------------------
(***************************************************************************)
(* The operator's scripts in front of the program: set up, snapshot,       *)
(* simulate, prove, verify, one at a time or all in a row under demo.sh.   *)
(* The scripts talk to each other through files only.  Any of them may be  *)
(* killed between two of its steps, or have a call fail; meanwhile the     *)
(* price moves, and another key may have created the protocol first.       *)
(*                                                                         *)
(* The chain is the module RiskEngine, in the build 6-verify.ts is made    *)
(* for: it replaces every proof it finds too long by zeros.                *)
(*                                                                         *)
(* Abstractions.  A file holds the input it was computed from; a file is   *)
(* written in one step.  The shock is the one of the configuration, its    *)
(* direction an argument.  The proof itself is not looked at again, and    *)
(* PYTH_PRICE_ACCOUNT is not set.                                          *)
(***************************************************************************)
EXTENDS RiskEngine, Sequences

CONSTANTS
    Operator,           \* the key in id.json
    MaxFaults,          \* bound on the calls that fail and the scripts killed
    MaxRefreshes        \* bound on the price changes

ASSUME PipelineAssumption ==
    /\ Operator \in Users
    /\ MaxFaults \in Nat
    /\ MaxRefreshes \in Nat

\* A prover may be handed whatever the accounts hold, and no snapshot is no file.
ASSUME SnapshotsAssumption ==
    /\ None \notin Snapshots
    /\ DEFAULT_ORACLE_PRICE \in SnapshotPrices
    /\ DEFAULT_INSURANCE_FUND \in SnapshotFunds
    /\ \A feed \in PythFeeds : ValidFeed(feed) => StoredPrice(feed) \in SnapshotPrices

VARIABLES
    disk,               \* the files the scripts leave to each other
    script,             \* what the running script does next, or "idle"
    shock_up,           \* its argument, false under demo.sh
    reading,            \* the account 3-snapshot.ts has fetched, if it is running
    demo,               \* "off", "running", "stopped" or "complete"
    queue,              \* the scripts demo.sh has still to start
    outcome,            \* what became of the last submission
    setUp,              \* 2-initialize.ts has once returned without an error
    spent               \* of the two bounds

operator == <<disk, script, shock_up, reading, demo, queue, outcome, setUp>>
pipelineVars == <<vars, operator, spent>>

\* What a script may do first, by its number; the last one reports the state.
FirstStep == <<"-", "init:check", "snapshot:state", "simulate:results",
               "prove:check", "verify:files", "status:read">>

\* demo.sh after the deployment.
DemoScripts == <<2, 3, 4, 5, 6, 7>>

\* Everything a snapshot of the present accounts holds, the shock put down.
Present == LiveSnapshot(FALSE)

\* The input of a run: a snapshot file and a direction.
Input(snapshot) == [snapshot EXCEPT !.shock_direction_up = shock_up]

\* The repository comes with the results of the demo book at the default price.
ShippedInput ==
    [book |-> DemoBook,
     oracle_price |-> DEFAULT_ORACLE_PRICE,
     insurance_fund |-> DEFAULT_INSURANCE_FUND,
     maintenance_margin_bps |-> DEFAULT_MAINTENANCE_MARGIN_BPS,
     liquidation_fee_bps |-> DEFAULT_LIQUIDATION_FEE_BPS,
     liquidation_target_margin_bps |-> DEFAULT_LIQUIDATION_TARGET_MARGIN_BPS,
     circuit_breaker_threshold |-> DEFAULT_CB_THRESHOLD,
     shock_bps |-> DEFAULT_SHOCK_BPS,
     shock_direction_up |-> FALSE]

PipelineInit ==
    /\ Init
    /\ disk = [demo_snapshot |-> None, results |-> ShippedInput,
               snapshot |-> ShippedInput, public_values |-> None,
               input_hash |-> None]
    /\ script = "idle"
    /\ shock_up = FALSE
    /\ reading = None
    /\ demo = "off"
    /\ queue = <<>>
    /\ outcome = "none"
    /\ setUp = FALSE
    /\ spent = [faults |-> 0, refreshes |-> 0]

-----------------------------------------------------------------------------
(* Starting and ending scripts *)

GoTo(step) ==
    /\ script' = step
    /\ UNCHANGED <<shock_up, demo, queue>>

\* Under demo.sh a script that returns 0 is followed by the next one, and any other
\* exit code ends the demo (set -e).
Exit(code) ==
    /\ UNCHANGED shock_up
    /\ CASE demo # "running" ->
              script' = "idle" /\ UNCHANGED <<demo, queue>>
         [] demo = "running" /\ code # 0 ->
              script' = "idle" /\ demo' = "stopped" /\ queue' = <<>>
         [] demo = "running" /\ code = 0 /\ queue = <<>> ->
              script' = "idle" /\ demo' = "complete" /\ UNCHANGED queue
         [] demo = "running" /\ code = 0 /\ queue # <<>> ->
              script' = FirstStep[Head(queue)] /\ queue' = Tail(queue) /\ UNCHANGED demo

StartDemo ==
    /\ script = "idle"
    /\ demo' = "running"
    /\ script' = FirstStep[Head(DemoScripts)]
    /\ queue' = Tail(DemoScripts)
    /\ shock_up' = FALSE
    /\ outcome' = "none"
    /\ UNCHANGED <<vars, disk, reading, setUp, spent>>

StartScript(number, up) ==
    /\ script = "idle"
    /\ up => number \in {4, 5}
    /\ demo' = "off"
    /\ script' = FirstStep[number]
    /\ shock_up' = up
    /\ UNCHANGED <<vars, disk, reading, queue, outcome, setUp, spent>>

-----------------------------------------------------------------------------
(* 2-initialize.ts *)

\* Transactions the program refuses throw, as calls that fail do.
Sent(transaction) ==
    /\ transaction
    /\ UNCHANGED <<disk, reading, outcome, setUp, spent>>

\* Mutant: a protocol that exists is taken for one that is set up.
InitCheckAllOrNothing ==
    /\ script = "init:check"
    /\ IF Exists("global_state") THEN Exit(0) /\ setUp' = TRUE
       ELSE GoTo("init:protocol") /\ UNCHANGED setUp
    /\ UNCHANGED <<vars, disk, reading, outcome, spent>>

\* The protocol and its incentives are skipped together, the positions are not.
InitCheck ==
    /\ script = "init:check"
    /\ GoTo(IF Exists("global_state") THEN "init:positions" ELSE "init:protocol")
    /\ UNCHANGED <<vars, disk, reading, outcome, setUp, spent>>

InitProtocol ==
    /\ script = "init:protocol"
    /\ Sent(InitializeProtocol(Operator))
    /\ GoTo("init:incentives")

InitIncentives ==
    /\ script = "init:incentives"
    /\ \E reward \in RewardChoices, interval \in IntervalChoices :
          Sent(InitializeIncentives(Operator, reward, interval, TRUE))
    /\ GoTo("init:fund")

InitFund ==
    /\ script = "init:fund"
    /\ \E amount \in FundingChoices : Sent(FundRewardVault(Operator, amount))
    /\ GoTo("init:positions")

InitPositions ==
    /\ script = "init:positions"
    /\ \/ /\ globalState.total_positions = 0
          /\ InitializePositions(Operator)
       \/ /\ globalState.total_positions > 0
          /\ UNCHANGED vars
    /\ setUp' = TRUE
    /\ Exit(0)
    /\ UNCHANGED <<disk, reading, outcome, spent>>

-----------------------------------------------------------------------------
(* 3-snapshot.ts and 4-simulate.sh *)

\* The first of the three reads, of the price and the fund.
SnapshotState ==
    /\ script = "snapshot:state"
    /\ Exists("global_state")
    /\ reading' = Present
    /\ GoTo("snapshot:rest")
    /\ UNCHANGED <<vars, disk, outcome, setUp, spent>>

\* The configuration and the book are read later, and the file is written.
SnapshotRest ==
    /\ script = "snapshot:rest"
    /\ disk' = [disk EXCEPT !.demo_snapshot =
                  [Present EXCEPT !.oracle_price = reading.oracle_price,
                                  !.insurance_fund = reading.insurance_fund]]
    /\ reading' = None
    /\ Exit(0)
    /\ UNCHANGED <<vars, outcome, setUp, spent>>

\* The simulator reads the snapshot and writes the results first ...
SimulateResults ==
    /\ script = "simulate:results"
    /\ disk.demo_snapshot # None
    /\ disk' = [disk EXCEPT !.results = Input(disk.demo_snapshot)]
    /\ GoTo("simulate:snapshot")
    /\ UNCHANGED <<vars, reading, outcome, setUp, spent>>

\* Mutant: a copy that is there already is kept.
SimulateSnapshotOnce ==
    /\ script = "simulate:snapshot"
    /\ disk' = [disk EXCEPT !.snapshot = IF @ = None THEN disk.demo_snapshot ELSE @]
    /\ Exit(0)
    /\ UNCHANGED <<vars, reading, outcome, setUp, spent>>

\* ... and then a copy of its input, which is what the prover reads.
SimulateSnapshot ==
    /\ script = "simulate:snapshot"
    /\ disk' = [disk EXCEPT !.snapshot = disk.demo_snapshot]
    /\ Exit(0)
    /\ UNCHANGED <<vars, reading, outcome, setUp, spent>>

-----------------------------------------------------------------------------
(* 5-prove.sh *)

\* Mutant: the direction is left out of the hash.
CacheHitOfSnapshot ==
    /\ disk.input_hash # None
    /\ disk.public_values # None
    /\ disk.input_hash = [Input(disk.snapshot) EXCEPT
                            !.shock_direction_up = disk.input_hash.shock_direction_up]

\* The hash of the last run is that of this input, and its proof is there.
CacheHit ==
    /\ disk.input_hash # None
    /\ disk.public_values # None
    /\ disk.input_hash = Input(disk.snapshot)

ProveCheck ==
    /\ script = "prove:check"
    /\ disk.snapshot # None
    /\ IF CacheHit THEN Exit(0) ELSE GoTo("prove:values")
    /\ UNCHANGED <<vars, disk, reading, outcome, setUp, spent>>

\* The guest has run on the snapshot: proof.bin and public_values.bin.
ProveValues ==
    /\ script = "prove:values"
    /\ disk' = [disk EXCEPT !.public_values = Input(disk.snapshot)]
    /\ GoTo("prove:hash")
    /\ UNCHANGED <<vars, reading, outcome, setUp, spent>>

ProveHash ==
    /\ script = "prove:hash"
    /\ disk' = [disk EXCEPT !.input_hash = Input(disk.snapshot)]
    /\ Exit(0)
    /\ UNCHANGED <<vars, reading, outcome, setUp, spent>>

-----------------------------------------------------------------------------
(* 6-verify.ts and 7-status.ts *)

VerifyFiles ==
    /\ script = "verify:files"
    /\ IF disk.results # None /\ disk.public_values # None
       THEN GoTo("verify:submit") ELSE Exit(1)
    /\ UNCHANGED <<vars, disk, reading, outcome, setUp, spent>>

\* The public values of the prover's file, with the direction of the simulator's.
Submitted == PublicValues(disk.public_values, StressScore(disk.public_values))

\* Mutant: the prover's word is taken for the accounts.
SubmissionAcceptedUnbound ==
    /\ Exists("global_state")
    /\ Submitted.shock_direction_up = disk.results.shock_direction_up
    /\ ProofAgeAccepted

\* What the program checks of it.
SubmissionAccepted ==
    /\ Exists("global_state")
    /\ Submitted.shock_direction_up = disk.results.shock_direction_up
    /\ ProofAgeAccepted
    /\ BoundToState(Submitted)
    /\ ShockRecomputed(Submitted)
    /\ Panics(Submitted) =>
         globalState.max_leverage * CB_LEVERAGE_REDUCTION_BPS <= U64_MAX

\* The incentives' accounts are named when both exist.
WithIncentives == Exists("incentives_config") /\ rewardVault > 0

Landed ==
    /\ SubmissionAccepted
    /\ RecordProof(Submitted)
    /\ history' = [history EXCEPT
                     !.panicSlot = IF Panics(Submitted) THEN slot ELSE @,
                     !.paidSlot = IF Pays(WithIncentives) THEN slot ELSE @]
    /\ rewardVault' = rewardVault - Reward(WithIncentives)
    /\ wallets' = [wallets EXCEPT ![Operator] = @ + Reward(WithIncentives)]
    /\ UNCHANGED <<slot, accounts, riskConfig, positionBook, incentivesConfig>>

VerifyAccepted ==
    /\ script = "verify:submit"
    /\ Landed
    /\ outcome' = "accepted"
    /\ Exit(0)
    /\ UNCHANGED <<disk, reading, setUp, spent>>

\* Mutant: the error is reported, the exit code forgotten.
VerifyRefusedQuietly ==
    /\ script = "verify:submit"
    /\ Exists("global_state")
    /\ ~ SubmissionAccepted
    /\ outcome' = "refused"
    /\ Exit(0)
    /\ UNCHANGED <<vars, disk, reading, setUp, spent>>

VerifyRefused ==
    /\ script = "verify:submit"
    /\ Exists("global_state")
    /\ ~ SubmissionAccepted
    /\ outcome' = "refused"
    /\ Exit(1)
    /\ UNCHANGED <<vars, disk, reading, setUp, spent>>

StatusRead ==
    /\ script = "status:read"
    /\ Exit(0)
    /\ UNCHANGED <<vars, disk, reading, outcome, setUp, spent>>

-----------------------------------------------------------------------------
(* Faults *)

Fault == spent.faults < MaxFaults /\ spent' = [spent EXCEPT !.faults = @ + 1]

\* The step cannot be done: an account or a file is missing, or the transaction
\* is refused.  (Refused submissions have an action of their own.)
Impossible ==
    \/ script = "init:protocol" /\ Exists("global_state")
    \/ script = "init:incentives" /\ Exists("incentives_config")
    \/ script = "init:fund" /\ \A amount \in FundingChoices : amount > wallets[Operator]
    \/ /\ script = "init:positions"
       /\ globalState.total_positions = 0
       /\ globalState.authority # Operator
    \/ script = "simulate:results" /\ disk.demo_snapshot = None
    \/ script \in {"snapshot:state", "verify:submit"} /\ ~ Exists("global_state")

\* main().catch(console.error) ends the TypeScript programs with 0 ("verify:submit"
\* begins with a read outside the `try`), the Rust ones end with an error.
CodeOfThrow ==
    IF script \in {"simulate:results", "simulate:snapshot", "prove:check",
                   "prove:values", "prove:hash"} THEN 1 ELSE 0

StepThrows ==
    /\ Impossible
    /\ Exit(CodeOfThrow)
    /\ UNCHANGED <<vars, disk, reading, outcome, setUp, spent>>

\* A call, a write or the prover fails.
StepFails ==
    /\ script # "idle"
    /\ Fault
    /\ \/ Exit(CodeOfThrow)
       \/ script = "verify:submit" /\ Exit(1)
    /\ reading' = None
    /\ UNCHANGED <<vars, disk, outcome, setUp>>

\* The submission lands and its confirmation is lost.
ConfirmationLost ==
    /\ script = "verify:submit"
    /\ Fault
    /\ Landed
    /\ outcome' = "lost"
    /\ Exit(1)
    /\ UNCHANGED <<disk, reading, setUp>>

\* The running script is killed, and demo.sh with it.
Killed ==
    /\ script # "idle"
    /\ Fault
    /\ script' = "idle"
    /\ demo' = "off"
    /\ queue' = <<>>
    /\ reading' = None
    /\ UNCHANGED <<vars, disk, shock_up, outcome, setUp>>

-----------------------------------------------------------------------------
(* The rest of the world *)

PriceMoves ==
    /\ spent.refreshes < MaxRefreshes
    /\ \E feed \in PythFeeds : RefreshOraclePrice(feed)
    /\ globalState' # globalState
    /\ spent' = [spent EXCEPT !.refreshes = @ + 1]
    /\ UNCHANGED operator

TimePasses == AdvanceSlot /\ UNCHANGED <<operator, spent>>

\* Another key is faster.
FrontRun ==
    /\ \E user \in Users \ {Operator} : InitializeProtocol(user)
    /\ UNCHANGED <<operator, spent>>

ScriptStep ==
    \/ InitCheck \/ InitProtocol \/ InitIncentives \/ InitFund \/ InitPositions
    \/ SnapshotState \/ SnapshotRest
    \/ SimulateResults \/ SimulateSnapshot
    \/ ProveCheck \/ ProveValues \/ ProveHash
    \/ VerifyFiles \/ VerifyAccepted \/ VerifyRefused
    \/ StatusRead
    \/ StepThrows

PipelineNext ==
    \/ StartDemo
    \/ \E number \in 2..6, up \in BOOLEAN : StartScript(number, up)
    \/ ScriptStep
    \/ StepFails \/ ConfirmationLost \/ Killed
    \/ PriceMoves \/ TimePasses \/ FrontRun

PipelineSpec == PipelineInit /\ [][PipelineNext]_pipelineVars

\* A script that runs goes on, and an operator starts the demo again and again,
\* whatever else is run in between.
PipelineFairSpec ==
    /\ PipelineSpec
    /\ WF_pipelineVars(ScriptStep)
    /\ SF_pipelineVars(StartDemo)
-----------------------------------------------------------------------------
(* Properties *)

Files == Snapshots \cup {None}

\* The files hold inputs of runs, a demo that runs has a script that runs, and the
\* bounds are kept.
PipelineTypeOK ==
    /\ disk \in [demo_snapshot : Files, results : Files, snapshot : Files,
                 public_values : Files, input_hash : Files]
    /\ script \in {"idle", "init:check", "init:protocol", "init:incentives",
                   "init:fund", "init:positions", "snapshot:state", "snapshot:rest",
                   "simulate:results", "simulate:snapshot", "prove:check",
                   "prove:values", "prove:hash", "verify:files", "verify:submit",
                   "status:read"}
    /\ shock_up \in BOOLEAN
    /\ reading \in Files
    /\ reading # None <=> script = "snapshot:rest"
    /\ demo \in {"off", "running", "stopped", "complete"}
    /\ demo = "running" => script # "idle" /\ ~ shock_up
    /\ queue \in Seq(2..7)
    /\ demo # "running" => queue = <<>>
    /\ outcome \in {"none", "accepted", "refused", "lost"}
    /\ setUp \in BOOLEAN
    /\ spent \in [faults : 0..MaxFaults, refreshes : 0..MaxRefreshes]

\* The pipeline drives the program as the program allows: every step of it is a
\* step of RiskEngine, or none.
ProgramRefined == Spec

\* demo.sh says "Demo Complete" of no submission the program refused, and, unless
\* some call failed, only of an accepted one: the scripts that hide their errors
\* behind exit code 0 do not hide that one.
CompleteMeansAccepted ==
    demo = "complete" =>
        /\ outcome # "refused"
        /\ spent.faults = 0 => outcome = "accepted"

\* 2-initialize.ts brings the demo book on chain before it says it is done, also
\* when an earlier run of it stopped half way.  (It does not repair the
\* incentives, which it skips with the protocol.)
SetupRepairsBook == setUp => positionBook = DemoBook

\* The public values the prover would not recompute.
PoisonedHit ==
    script = "prove:check" /\ CacheHit /\ disk.public_values # Input(disk.snapshot)

\* As long as no script was killed and no write failed, a proof taken from the
\* cache is one of the very input asked for, the direction included.
CacheIsClean == spent.faults = 0 => ~ PoisonedHit

\* The program and the guest find the same price after the demo's shock, the
\* downward one: at this price it is a whole number of the price's units.
DemoShockAgreed ==
    GuestShockedPrice(globalState.oracle_price, riskConfig.shock_magnitude_bps, FALSE)
      = ApplyShockPrice(globalState.oracle_price, riskConfig.shock_magnitude_bps, FALSE)

\* submit_proof.rs:122-130, 5-prove.ts - an operator who starts the demo again and
\* again gets a proof on chain in the end, whatever was killed, refused or moved
\* meanwhile, on two conditions.  No prover killed between two files has left the hash
\* of one input with the proof of another; and the price comes to stay where program
\* and guest agree: everywhere else every proof demo.sh submits is refused.
FirstProofLands ==
    []~ PoisonedHit /\ <>[]DemoShockAgreed => <>(globalState.last_proof_slot # 0)
=============================================================================
