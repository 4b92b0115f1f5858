# Proof of Panic in TLA+

Proof of Panic is a circuit breaker for a perpetuals protocol on Solana. An
off-chain engine shocks the price, liquidates positions until nothing more
falls, and gives the state a risk score; a zkVM proves the run; the on-chain
program `proof_of_panic` checks that the proof is about the accounts as they
are now and halts the protocol when the score is over a threshold. This
directory holds the TLA+ specifications of that system, the TLC configurations
that check them and the TLAPS proofs about them.

## The system

| Part | State | Operations | Talks to |
|---|---|---|---|
| Risk engine program, `programs/proof-of-panic` | `GlobalState`, `RiskConfig`, `PositionBook`, `IncentivesConfig`, reward vault | `initialize_protocol`, `initialize_positions`, `refresh_oracle_price`, `submit_proof_and_verify`, `update_risk_params`, `init_incentives`, `update_incentives`, `fund_reward_vault` | verifier (CPI), Pyth account (read), clock |
| Position accounts and registry, same program | `PositionRegistry`, `PositionAccount` | `init_position_registry`, `update_position_root`, `upsert_position` | nobody reads them |
| Demo protocol, `programs/target-perp` | `PerpState` | `initialize`, `apply_circuit_breaker` | reads `GlobalState` |
| Simulator, `simulator` | a run's positions, price, reports; two output files | shock, cascade, solvency, commitment | used by the guest; read by the scripts |
| SP1 guest, `sp1-program` | none | commits public values | simulator |
| SP1 host, `sp1-script` | four files of an output directory | prove, with a cache | guest |
| Scripts 2-7 and `demo.sh` | files between the steps, exit codes | set up, snapshot, simulate, prove, verify, status | all of the above over RPC |
| Keeper, `keeper` | two gauges, polls under way | poll every 5 s, mock a proof | RPC, Prometheus |
| Web app, `app` | React state, timers, fetches; artifacts on the server | run a scenario, verify it, list proofs | its two API routes, RPC |
| SDK | none | addresses, encodings | used by keeper and app |

### What is hard about it

* **Time of check.** A proof takes minutes. Prices, parameters, positions and
  the insurance fund move while it is in flight, and the snapshot it starts from
  is read account by account. The program has to refuse everything that is not
  about the live accounts (`submit_proof.rs:84-130`).
* **Slots as timers.** Five slot numbers drive the guards: last proof, breaker
  activation, last parameter change, and the intervals measured from them. Each is
  written by one instruction and read by another, several transactions share a
  slot, and slot 0 doubles as "never".
* **Competition.** At most one proof per slot is accepted, from anybody, and a
  proof of the harmless shock direction counts as one.
* **Governance in between.** Resets race further trips; the timelock that guards
  parameters is itself a parameter.
* **Two implementations of one computation.** The shocked price is computed by
  the guest and again by the program, with another rounding: while the price stands
  where they differ, no downward proof is accepted (`submit_proof.rs:122`).
* **Money.** The vault pays rewards that governance changes and keepers drain.
* **A cascade** that must end, account for every fee and loss, and not overflow.
* **Files as messages.** The scripts hand each other files that outlive the run
  they belong to; a script may die between two writes; most of them report success
  to the shell whatever happened (`main().catch(console.error)`).
* **Answers that come late.** Keeper polls overlap; the page's timers and fetches go
  on after the tab they were started for is gone, some of them after the run that
  started them has failed.

What makes each part correct:

* *program* - only live scores are recorded; a trip holds for the reset timelock;
  payouts and parameter changes keep their distance; the vault is not overdrawn;
  lasting danger is eventually answered by a halt, if the program lets it be proved;
* *target-perp* - leverage moves only on evidence, and lasting danger brings it to 1x;
* *simulator* - the cascade terminates in a state where no open position is under
  maintenance, and losses, fees and collateral balance;
* *pipeline* - whatever files it starts from, what reaches the chain is about the
  chain; a demo that says it is complete is; repeating it succeeds, at a price whose
  shock the program does not refuse;
* *keeper* - the gauges show one state of the chain at a time and catch up with it;
* *web app* - what is worked out from a result agrees, one run at a time; no answer
  reaches the wrong panel, and no spinner turns for ever.

## Modules

**`RiskEngine`** is the program. One action per instruction; a transaction is
atomic and a failed `require!` reverts it, so each action's guard is the
conjunction of the handler's checks, and `overflow-checks = true` makes each
plain addition a guard where it can overflow. Correspondence:

| Action | Code |
|---|---|
| `InitializeProtocol`, `InitializePositions`, `RefreshOraclePrice` | `initialize.rs`, `init_positions.rs`, `refresh_oracle.rs` |
| `InitializeIncentives`, `UpdateIncentives`, `FundRewardVault` | `init_incentives.rs`, `update_incentives.rs`, `fund_reward_vault.rs` |
| `SubmitProof` = `ProofAgeAccepted`, `BoundToState`, `ShockRecomputed`, `OracleAgrees`, `AdminApproves`, `Verified`, `RecordProof`, `Pays` | `submit_proof.rs`, step by step |
| `UpdateRiskParams` = `ChangesParams`, `GovernanceTimelockExpired`, `ValidUpdate`, `ResetTimelockExpired` | `update_risk.rs` |
| `AdvanceSlot` | the cluster's clock; any number of transactions fit in a slot |

`SubmitProof` lets the prover choose any snapshot at all (`Snapshots`), which is
what stale, torn and invented snapshots amount to for the chain; the verifier
accepts exactly what the guest outputs for some snapshot (`Verified`). The
variable `history` keeps past slots that no instruction reads; only properties do.

**`CircuitBreaker`** is the abstract specification of the breaker: danger, whether the
program lets it be proved (`provable`), halted, and two ages instead of slot numbers. Ages stop growing where no guard
can tell the difference, so the state space is finite without bounding the clock
and liveness can be checked. `RiskEngine!BreakerRefined` is the refinement, with
`Danger`, `Provable` (danger of a direction whose shocked price guest and program agree
on, `ShockAgreed`), `Proven`, `ProofAge`, `HaltAge` as the mapping. A refinement of
steps says what the program may do, not what it can; `TripGuardExact` is the other half,
for the one step that matters: `Accept(TRUE)` is open in the abstract breaker exactly
when the program would accept a proof that trips.

**`TargetPerp`** extends `CircuitBreaker` with the demo protocol, which reads the
engine's `circuit_breaker_active` in the transaction that cuts its own leverage.
`EngineStep` is any step of the breaker, `Initialize` and `ApplyCircuitBreaker` the
two instructions. That what is said of the client here is said of it with the real
engine is the business of `Protocol`.

**`Liquidation`** is the computation the guest proves, `evaluate_positions`, as a
state machine: `SkipPosition`, `KeepPosition` and `LiquidatePosition` are one turn
of the inner loop, `EndRound` the price impact and the test of `while
cascade_active`, `Overflow` the error return. Everything nondeterministic is in
`Init`: the snapshot, the size of the shock and its direction. `snapshot` stays as
it was read, because `compute_solvency` is given the snapshot's positions and not
the cascade's. `results[i]` has the fields of `PositionResult`. The early
`continue` for a liquidation of size zero is dead code (`LiquidateSizeBounded` in
the proofs) and has no action.

**`Solvency`** extends it with `compute_solvency`. Its three sums over the book are one
loop with three accumulators (`AddReport`, an action per report, after the cascade is
done); what is computed from them are operators on the state the loop ends in
(`Computed`), `InsuranceAfterFees` to `RiskScore`. The sums, the casts and the one
subtraction that can go below zero wrap around (`Wrapped`) as in the guest's build, which
has no overflow checks (the workspace of `sp1-program`); the command line's build panics
in the same places.

**`Pipeline`** extends `RiskEngine` with the operator's machine: a `disk` of five
files, the `script` that runs and what it does next, and `demo.sh` with the `queue`
of scripts it has still to start.

| Actions | Code |
|---|---|
| `StartDemo`, `StartScript`, `Exit` | `demo.sh` (`set -e`), or the operator's own order of calls |
| `InitCheck`, `InitProtocol`, `InitIncentives`, `InitFund`, `InitPositions` | `2-initialize.ts`, one transaction each |
| `SnapshotState`, `SnapshotRest` | `3-snapshot.ts`, between whose reads the price may move |
| `SimulateResults`, `SimulateSnapshot` | the two files `simulator/src/main.rs` writes |
| `ProveCheck`, `ProveValues`, `ProveHash` | `sp1-script/src/bin/main.rs`: the cache, the proof's files, the hash |
| `VerifyFiles`, `VerifyAccepted`, `VerifyRefused`, `ConfirmationLost` | `6-verify.ts` |
| `StepThrows`, `StepFails`, `Killed` | what every program does on an error (`CodeOfThrow`), and a signal |
| `PriceMoves`, `TimePasses`, `FrontRun` | the rest of the world |

A file holds the input it was computed from, so that "the files of two runs" can be
said; public values are those of that input. The chain's side of a submission is
`SubmissionAccepted` and `Landed`, made of `RiskEngine`'s own operators.

**`Keeper`** is `pollRiskState`: a poll is started (`StartPoll`), the node reads the
account (`ReadState`), the answer arrives and sets both gauges (`Arrive`), or never
does (`FailPoll`); a poll that found "high risk" waits for a mocked proof
(`FinishProof`). Several polls are under way at once, because `setInterval` does not
wait. The chain is reduced to the two fields polled and the threshold, which governance
moves (`UpdateParams`) under a score that is on record; `chain.bar` remembers the
threshold the score was compared with.

**`Protocol`** composes the program with the two parties that read its account. An
`EngineStep` is any instruction of `RiskEngine`, a `ClientStep` one of `TargetPerp`'s
two with the program's flag under it, a `ServiceStep` one of `Keeper`'s with the
account's two fields for its chain (and `bar`, a history variable, for the threshold
they were compared with). The client reads in its own transaction, the
service late. `Perp` and `Service` are the instances by which `TargetPerp` and `Keeper`
are abstract specifications of this composition, `PerpRefined` and `ServiceRefined` the
refinements.

**`Dashboard`** is the web app. `WarRoom`'s state variables keep their names.
`runSimulation` is one `run` in `runs` per call, advanced by its fetch and its nested
timers (`SimulationAnswered`, `NextLine`, `Finish`) whatever the visitor does
meanwhile. Its three opening lines have timers of their own, set before the fetch and
cancelled by nothing: `due` counts, by tab, those that have not fired, and a failed run
leaves them behind (`OpeningLine`). A verification is a request that lives on the server (`Serve`) and
whose answer (`AnswerArrives`) reaches its panel only if that panel is still there
(`live`). `HealthStatus`, `TimelineEvents`, `Banner`, `SummaryRisk` and
`HeaderStatus` are what five parts of the page make of the same result. The feed is the
set of its lines.

**`MCRiskEngine`**, **`MCSolvency`**, **`MCPipeline`**, **`MCProtocol`** and
**`MCDashboard`** fix small instances; `Keeper` and `TargetPerp` get theirs from the
configuration alone. **`RiskEngineProofs`**, **`LiquidationProofs`**,
**`SolvencyProofs`**, **`TargetPerpProofs`**, **`KeeperProofs`**, **`ProtocolProofs`**,
**`PipelineProofs`** and **`DashboardProofs`** hold the proofs.

### Abstractions

SHA-256 is injective. The proof system is sound and complete for the guest. In
`RiskEngine` the score is a constant operator `StressScore` of the snapshot, total;
how it comes about, and when the guest aborts instead, is `Liquidation` and
`Solvency`. The
position book has only two contents because the program only ever writes those
two. PDA bumps, hashes that are only stored, logging and the public values that
are only logged are left out. Rent and fees of the runtime are left out: they can
only make a transaction fail, that is, remove steps; no checked liveness property
of `RiskEngine` depends on them. `max_leverage` exists twice, as in the code.
Exponents and prices are small integers; the cast of the scaled price to u64 is
`% (U64_MAX + 1)` with a small `U64_MAX`.

In `Pipeline` the program is the build with the mocked verifier, since `6-verify.ts`
replaces any proof over 800 bytes by zeros; `SP1_VERIFIER_PROGRAM_ID` is set and
`PYTH_PRICE_ACCOUNT` is not; writing a file is one step; and the shock is the
configured one, which is what the scripts' default is. In `Dashboard` a scenario
stands for the results served for it, the feed keeps a run's first lines and those that
say something of a result, fixed text is left out (the description above the cards
included, `page.tsx:685`, which is the active tab's), and what the program makes of the transaction of `/api/verify` is left open:
its public values are constants in the route that a program in its default
configuration refuses, and `confirmTransaction` also resolves for a transaction that
failed. "Confirmed" is all the page knows, and all that is claimed of it.

Mutant definitions (their comments begin "Mutant:") stand next to what they
alter; each breaks one checked property and shows that the property depends on
that line.

## Runs

| Run | Checks | Outcome |
|---|---|---|
| `breaker` | `TargetPerp` with fairness: `WatchedDangerHalts`, `CalmRecovers`, `DangerDeleverages`, `CutsOnEvidence` | holds |
| `engine_breaker` | all interleavings around the breaker: `TripGuardExact`, `SlotsConsistent`, `HaltHeldForTimelock`, `AcceptedScoreIsLive`, `LapseIsPermanent`, `BreakerRefined` | holds |
| `engine_economy` | rewards and governance: `PayoutsSpaced`, `ParamChangesSpaced`, `FreezeIsPermanent`, `CompleteUntilLapse`, vault never negative (`TypeOK`) | holds |
| `engine_lapse` | `Completeness`, from the threat model | violated: proofs lapse for good |
| `engine_oracle` | `OraclePriceInMicrodollars`, from `global_state.rs` | violated: exponent inverted |
| `cascade` | every cascade from 217 books: `UntouchedUnlessLiquidated`, `Settled`, `DeficitsCharged`, `NothingGrows`, `StepsMakeProgress`, `CascadeEnds`, and of the sums after it `NoLiquidationNoRisk` | holds |
| `cascade_target` | `TargetReached`, from `types.rs` | violated: the collateral is cut with the size |
| `solvency_depletion` | `NoDepletionNoRisk`, from `solvency.rs` | violated: the subtraction wraps around |
| `pipeline` | the scripts against the program, with faults: `CompleteMeansAccepted`, `SetupRepairsBook`, `CacheIsClean`, `ProgramRefined`, `AcceptedScoreIsLive`, `FirstProofLands` | holds |
| `dashboard` | the page under every order of clicks, timers and answers: `OneRunAtATime`, `CardsAgree`, `FeedIsCurrent`, `VerifiedIsConfirmed`, `RunEnds`, `VerifyingEnds` | holds |
| `keeper` | overlapping polls, a threshold that moves: `AlarmOnlyUntripped`, `GaugesCatchUp`, `AlarmSounds` | holds |
| `protocol` | the program with its client and under the keeper service: `PerpRefined`, `ServiceRefined` | holds |

`WatchedDangerHalts` deserves a word: the threat model promises that lasting
danger halts the protocol. The code promises it on two conditions, and only to a keeper
who wins a slot infinitely often if one is infinitely often to be won. One is that proofs
never lapse (`[]~Lapsed`); without it `engine_lapse` is the counterexample. The other is
that from some time on the danger is one that can be proved (`<>[]provable`): at $141 the
program refuses every proof of the downward shock, and as the harmless upward proofs are
accepted, the chain of proofs stays alive and nothing ever halts. `DangerDeleverages`
carries the same conditions to the client. That these are all the conditions the program
adds is `TripGuardExact`: whenever `CircuitBreaker` lets the breaker be tripped, some
proof of the live state passes every check of `submit_proof.rs` and is over the
threshold, and never otherwise. It is what makes the fairness of `Accept(TRUE)` a
statement about keepers and not about the program.

`CompleteUntilLapse` is what is true of the other promise of the threat model, that a
dangerous state has a proof the program accepts: until proofs lapse, and once per slot,
the proof of the live state passes every check, provided its downward shock is a whole
number of units (`ShockExact`). It is an equivalence: with another price the proof is
refused. The guest rounds the shocked price down (`GuestShockedPrice`), the program the
amount of the shock (`ApplyShockPrice`), so that a dangerous state may be without a
proof before anything has lapsed: at $141 and 30% they find 98 and 99.

`PerpRefined` and `ServiceRefined` are what the composition is checked for: they say that
the two parties' own specifications, with all that is checked and proved of them, are
about this program. `CutsJustified` and `AlarmsUntripped`, the properties a user of the
protocol would ask for, follow from them, and are theorems.

`FirstProofLands` has a condition too. A prover killed between `public_values.bin`
and `input_hash.txt` leaves the hash of the older input beside the proof of the newer
one; the next run on the older input takes that proof from the cache
(`PoisonedHit`), the program refuses it, and repeating the demo on a chain that has
not moved repeats the refusal. The second condition is `DemoShockAgreed`, eventually for
good: at a price such as $141 guest and program do not agree on the shocked price and
every demo is refused, without any fault. `CacheIsClean` says that only a fault does this. That
the chain is safe all the same is `AcceptedScoreIsLive` of the same run: the scripts
check nothing about the age of their files, and the program refuses whatever is not
about its accounts.

`CompleteMeansAccepted` holds although a setup or snapshot that fails exits with 0 and
`demo.sh` goes on: the files of an earlier run, or the ones the repository ships in
`outputs/`, are then submitted, and `6-verify.ts` is the one script whose exit code
tells. `SetupRepairsBook` is about the positions only; the incentives and
the vault's funding are skipped together with the protocol, so a setup interrupted
after its first transaction leaves a protocol without rewards.

`AlarmOnlyUntripped` says what the keeper's alarm is worth: the chain trips the breaker
in the transaction that records a score over the threshold, so "high score and no
breaker" is never a score that was over the threshold when it was recorded. It may be
over the one in force now: lowering the threshold (`update_risk.rs:74`) trips nothing,
and that is the one danger the service sees and the chain has not acted on. The
comparison is with 7000 of 1,000,000, which is 0.7%; `AlarmSounds` is what remains.

`CardsAgree` is about what the page works out from the result on display, and holds for
the scenarios the app ships. At a score of exactly 70% it would not: the colours compare
with `>=`, the breaker with `>`. `ColoursAgree` says that no result served is there; TLC
evaluates it of the shipped ones (`ShippedColoursAgree`), and the theorem assumes it. It
is not about all the visitor reads. Above the cards stands the description of the active
tab, a fixed text: for the first tab "Circuit breaker fires." (`types.ts:98`), over a
result that fires nothing, and that of another scenario when a tab was clicked during the
run, whose result is put up under whichever tab is active then.

`FeedIsCurrent` lets a run that failed leave two kinds of line in the feed of the tab
clicked next: its error message, and the opening lines of `page.tsx:556-558`, whose
timers nothing cancels. They say nothing of a result; what does is always of the result
on display, of the run in progress or of the active tab.

The violated statements about the simulator have counterexamples on the book
and the configuration the program itself initializes. With no shock at all two of
its positions are bankrupt by less than their fees, and the guest reports the
maximum score. With the default shock of 30% it is insolvent and reports about half
of the maximum: the two formulas of `compute_solvency` do not meet where the fund runs
out. This is the app's first scenario, of which the page says that the insurance fund
absorbed the losses (`page.tsx:387`), with $14,466 missing, and the list of
scenarios (`types.ts:98`, `README.md:137`) that the breaker fires.
`cascade_target` explains why no long position survives a partial
liquidation: its margin does not improve, so that every later round liquidates again.

The type invariants are theorems; TLC evaluates those of the two modules whose data
is arithmetic, `RiskEngine` and `Liquidation`. So are two statements that the runs
would only repeat: `ActiveRoundLiquidates`, which `StepsMakeProgress` extends, and
`ScoreInRange`.

One more thing the program allows is in the model and not the subject of a run:
`update_risk_params` may set the leverage of a protocol whose breaker is active, long
before the reset timelock has run out.

### Bounds

| Constant | Code | Model | Why it is enough |
|---|---|---|---|
| `MaxSlot` | none | 6 (`engine_breaker`), 8 (`engine_lapse`, `engine_oracle`), 5 (`engine_economy`), 3 (`protocol`, `pipeline`) | room for trip, re-trip, timelock, reset and a lapse; for two payouts and two changes; for a lapse between two demos |
| `MAX_PROOF_AGE_SLOTS` | 150 | 3, 2 or 1 | a chain of several proofs and a lapse fit in the bound |
| `CB_RESET_TIMELOCK_SLOTS` | 1500 | 4 (6 in `breaker`, 1 in `protocol`) | longer than a proof's life, as in the code, so that keeping proofs alive through a timelock takes more than one; in the last a trip, a reset and what a reader does after it fit in the bound |
| `DEFAULT_GOVERNANCE_TIMELOCK_SLOTS` | 750 | 2 | two changes and a change of the timelock itself |
| users | any | 2, symmetric except in `pipeline` | authority and outsider, and two competing keepers; no property is about three |
| `SCALE` | 10^6 | 1 | amounts in dollars |
| `RISK_SCORE_MAX`, threshold | 10^6, 7*10^5 | 10, 7 (100, 70 in `cascade`) | scores over and under both thresholds occur |
| `ONE_X`, `InitialLeverages` | 10^6, any | 2; 0, 9, 20 (1; 0, 5 in `protocol`) | one that is raised by the floor, one that is halved oddly, one halved several times |
| positions | 8 | 5 (demo book), 3 of 6 kinds | positions meet only in the round's volume, which is a sum |
| amounts, prices of `cascade` | microdollars | $100, 10 cents | rounding is coarser, so that its corner cases are more frequent |
| `U64_MAX` of `cascade` | 2^64 - 1 | 19999999 | margin ratio and shocked price overflow for one position and one shock |
| prices of the engine | u64 | 140, 141, 150 (141, 150 in `engine_economy`) | danger that can be proved, danger whose downward shock has a fraction and cannot, and no danger |
| `U64_MAX` of the engine | 2^64 - 1 | 1999999999 | every guard against overflow can fire; a scaled feed wraps around |
| `MaxFaults`, `MaxRefreshes` | none | 1, 1 | a failed call or a kill at any step, and a price that moves at any other; the theorems hold for any number |
| polls under way | any | 2 (1 in `protocol`) | overtaking takes two; what a poll has seen does not depend on the others, and the theorems hold for any number |
| thresholds | 0..10^6 | 10^5, 7*10^5 (`keeper`); 7, then 3 or 4 (`protocol`, `engine_breaker`) | one under and one over a score that is recorded and does not trip |
| scores of the keeper | 0..10^6 | 0, 184118, 10^6 | under the alarm, between alarm and threshold, over both |
| scenarios | 5 | 2 | the first tab's and one that trips; stale answers take two tabs |
| `MaxDue` | none | 3 | the opening lines of one run for each tab: two failed runs in a row, of different tabs; the theorems hold for any number |
| `MaxRequests` | none | 2 | one for the panel on display and one for a panel that is gone |

`MCStressScore` is made to depend on every input the guest reads that can vary, so
that a missing binding in `BoundToState` would show in `AcceptedScoreIsLive`.
Three runs have a market that may move to $141, where the downward shock is refused, and
stay there: `engine_breaker`, `pipeline` and `protocol`; in `engine_economy` it is the
only other price. Its only payout interval is 2 slots:
with 0 the program switches the limit off and `PayoutsSpaced` asks nothing. Deadlock is checked in every run but
those of the cascade, which ends: somebody can always do something to the program, the
scripts, the page and the keeper. The books of `cascade` include a position that is bankrupt after a
shock, one at break-even, one whose fee exceeds its collateral, a short that is
large enough to move the price in its own favour and survive, one whose ratio
overflows, one without an entry price, and a closed one.

### Fairness

* `Liquidation!FairSpec` has weak fairness of `Next`: the cascade is one thread that
  nothing blocks.
* `CircuitBreaker!Fairness`: `WF(Tick)`: slots pass. `SF(Accept(TRUE))`:
  the threat model's "at least one rational keeper" keeps submitting; weak fairness
  would not do, since every accepted proof disables the next one for a slot.
  What it is fair to is a step the program offers (`TripGuardExact`): neither a lapse nor
  a price that cannot be proved is hidden in it.
  `WF(Reset)`: the authority resets a breaker that stays resettable; only
  `CalmRecovers` needs it. Nothing forces proofs to keep coming: that is the
  hypothesis `[]~Lapsed`, nor the price to move on: that is `<>[]provable`.
* `TargetPerp!PerpFairSpec` adds that the client is created, and `SF(ApplyCircuitBreaker)`:
  a keeper keeps sending the transaction, which is refused whenever the breaker has
  just been reset.
* `Pipeline!PipelineFairSpec`: a script that runs goes on (`WF(ScriptStep)`), and the
  operator starts the demo again and again, whatever else is started in between
  (`SF(StartDemo)`). Neither the clock nor the price nor a fault is fair: time and the
  market may stand still.
* `Keeper!FairSpec`: the interval fires, a poll does not hang (`WF`, an RPC call has a
  timeout), and of infinitely many requests infinitely many are read and answered
  (`SF`); any number may be lost.
* `Dashboard!FairSpec`: timers fire, those of the opening lines too, and fetches settle,
  which the browser guarantees;
  nothing is asked of the visitor, nor of requests whose panel is gone.

## Proofs

TLAPS checks, for every value of the constants that satisfies the named
assumptions of the modules:

**`RiskEngine`.** `TypeCorrect`, by one lemma per instruction (`...Typed`) and
`StepTyped`; `SlotsAlwaysConsistent` and `HaltIsHeld` from the inductive invariant
`IInv == TypeOK /\ SlotsConsistent /\ HaltHeldForTimelock`. `HaltHeldForTimelock`
alone is not inductive: it speaks of the true slot of the last trip
(`history.panicSlot`), the code's guard of `circuit_breaker_activation_slot`.
`SlotsConsistent` ties the two, and bounds every slot by the clock, which is what makes
the subtractions and intervals mean anything. Four action properties follow from it.
`PayoutsAreSpaced`: the payout guard looks at the last proof, the property at the last
payout; `history.paidSlot <= last_proof_slot` closes the gap. `ParamChangesAreSpaced` and
`LapsesAreForGood`. `FreezesAreForGood`: a timelock whose end is not a u64 disables every
change of parameters, and a call that changes none leaves the end where it was.

`CompletenessHolds` (`CompleteUntilLapse`) needs a second invariant, `Operable`: the
account has an authority that can sign, nobody sets `require_admin_approval`, and the
leverage stays at or under 100x, so that the product that halves it fits a u64
(`AmountsAssumption` says a u64 holds the largest, which has 12 digits of 19). Governance
keeps within 100x, a reset goes back to 10x, and halving only shrinks (`HalvingShrinks`).
What is left is arithmetic, in `RoundingsAgree`: guest and program agree on every upward
shock and on exactly those downward ones that divide. `TripGuardIsExact`
(`TripGuardExact`) follows from the same facts, with the mapping to the breaker's ages.

`AcceptedScoresAreLive` and `ProgramImplementsBreaker` assume `~ MOCK_VERIFY`: a snapshot
whose public values are bound to the state *is* the live snapshot
(`BoundSnapshotIsLive`), hence a trip implies danger; each step maps to a step of
`CircuitBreaker` (`StepRefines`).

**`TargetPerp`.** `BreakerTypeCorrect`, `PerpTypeCorrect`, `ClientOnlyReads` (the
composition implements `CircuitBreaker`) and `CutsAreGrounded`. Leverage moves only while
halted, so the invariant adds that a halted protocol, like a client that was cut, has
seen danger: `Accept(TRUE)` is the only way to be halted and needs it.

**`Keeper`**, for any number of polls and any thresholds: `TypeCorrect` and
`AlarmsAreUntripped`. The invariant says of the chain, and of whatever a poll has seen of
it, that a score over the threshold it was compared with was tripped.

**`Protocol`.** `ProtocolImplementsPerp`: an instruction of the program is a step of the
breaker under the client, by `StepRefines`, and `ClientStep` is the client's own.
`ProtocolImplementsKeeper`: a submission is `RecordScore` of a score in range
(`SubmissionServed`), a change of parameters or a reset is `UpdateParams`
(`GovernanceServed`), nothing else moves the polled fields or the threshold
(`OthersServed`), `initialize_protocol` included, because `SlotsConsistent` says that what
it overwrites is the default. It asks nothing of governance.
The theorems of `TargetPerpProofs` and `KeeperProofs`, instantiated, then hold of the
program: `CutsAreJustified` (with `~ MOCK_VERIFY`) and `ServiceAlarmsUntripped`, the
latter for any number of polls, any changes of the threshold and either verifier.

**`Liquidation`**, for every book, margin, fee, target, shock and width of the integers:
`TypeCorrect`, `RoundsMakeProgress`, `OthersAreUntouched`, `CascadeSettles`,
`DeficitsAreCharged`, `CascadeOnlyFalls` and `CascadeProgresses`. The invariant adds to
the checked properties `SettledSoFar`: in a round that has not liquidated anything, the
positions already visited are above the maintenance margin at the round's price. It is
what makes the last round, which changes no price (`PriceFalls`), a proof that everything
is settled. The arithmetic is in the lemmas `LiquidateSizeBounded`, `ProportionBelow` and
`RemainingPositionSmaller`. `CascadeOnlyFalls` and `CascadeProgresses` together are the
argument for `CascadeEnds`: sizes only fall, and between two falls there is at most one
round and a half.

**`Solvency`**, on top of that (`SolvencyRunsCascade`: the sums leave the cascade alone):
`SumsTypeCorrect`, `QuietShockScoresZero` and `ScoreStaysInRange`. The invariant
`NothingCharged` says of the accumulators, at every index, that they are 0 if nobody has
been liquidated; it rests on `UntouchedUnlessLiquidated`. `ScoreStaysInRange` holds
although every sum and difference wraps, and it is what `RiskEngine` assumes of
`StressScore` (`ScoresAssumption`).

**`Pipeline`.** `PipelineTypeCorrect`, `PipelineRefinesProgram` (every step of the
scripts, faults included, is a step of `RiskEngine` or leaves its accounts alone),
`SetupAlwaysRepairs`, `CacheAlwaysClean` and `CompleteIsAccepted`. `PipelineInv` adds to
the types where the control is (`Control`), that the configuration nobody in the pipeline
changes is the default one, so that every snapshot taken is one a prover may be given
(`LiveInv`), that the files a step needs are there (`DiskInv`), that a book that was
counted is the demo book (`BookInv`), and that without a fault hash and proof on disk are
of one input except between the writing of the two (`CacheInv`). `CompleteIsAccepted`
needs `DemoInv` besides: at each position of its list `demo.sh` knows what became of the
submission. `SubmittedScoresAreLive` and `PipelineImplementsBreaker` are the two theorems
of the program for the program as the scripts use it. They do not assume the real
verifier: the scripts submit what the guest computed, of whatever input, and a computed
score that is bound to the state is live (`ComputedIsAcceptedLive`).

**`Dashboard`**, for any scenarios and results: `TypeCorrect`, `RunsAreSingle`,
`FeedsAreCurrent` and `VerifiedAreConfirmed`. The invariant says of the panel which live
request it waits for, and of every live request that it is of the scenario on display; a
signature on display is then one the server gave for it. `VerdictsAgree` (`CardsAgree`)
assumes `ColoursAgree`, and adds that what the feed tells is told of the run in
progress or of its result (`StoryInv`); the opening lines tell nothing.

The assumptions: `FirstSlot > 0` (a program is not deployed in the genesis slot;
slot 0 means "never"), positive timelocks and proof age, arguments are naturals,
scores are at most `RISK_SCORE_MAX`, the product above fits a u64; snapshots hold
naturals, their funds u64s (`FundAssumption`), and `ImpactBlock` and the maximal score
are positive; `SnapshotsAssumption`: the prices that can become live are among those a
prover may be handed; `ReadersAssumption`: leverages and the alarm score are naturals.
TLC evaluates them in the runs.

Only model-checked: liveness (`WatchedDangerHalts`, `CalmRecovers`,
`DangerDeleverages`, `CascadeEnds`, `FirstProofLands`, `RunEnds`, `VerifyingEnds`,
`GaugesCatchUp`, `AlarmSounds`), since fairness is out of the prover's reach. Every
invariant and every action property that a run checks is a theorem. The four violated
statements have counterexamples, not proofs.

## Not modelled

* **Position accounts and registry** (`upsert_position`, `update_position_root`): three
  instructions that write accounts nothing else reads. Each is a type and an authority
  check by the framework; there is no second reader for a stale or torn view.
* **Web app**: layout, theme, animation, the cards that only format numbers, the
  two pages of fixed text (`architecture`, `integrate`), and `lib/rpc.ts`, which no page
  calls.
* **SDK**: address derivation and encodings.
* **Simulator's command line**: price fetching, scenario data, printing. Its output files
  are in `Pipeline`.
* **Aggregation** (`aggregate.rs`), the SP1 proof system and the verifier: external.
* **Scripts** 0, 8, `ci-verify`, scenario generation, deployment, CI: commands in a row.
* **History of fees**: `liquidation.rs:100` overwrites the fee of a position liquidated
  twice, as the model does; what was taken altogether is kept nowhere.

What a continuation would prove next: that the pipeline, too, is a client's program
(`PipelineSpec` under `TargetPerp`), and bounds of the bad debt by the losses the cascade
reports.
