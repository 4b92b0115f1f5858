--------------------------- MODULE PipelineProofs ---------------------------
(***************************************************************************)
(* Machine-checked theorems about Pipeline: any number of faults and price *)
(* changes, any score, any feeds, with the mock verifier or the real one.  *)
(***************************************************************************)
EXTENDS Pipeline, RiskEngineProofs

FirstSteps == {"init:check", "snapshot:state", "simulate:results", "prove:check",
               "verify:files", "status:read"}

Steps == FirstSteps \cup
    {"init:protocol", "init:incentives", "init:fund", "init:positions", "snapshot:rest",
     "simulate:snapshot", "prove:values", "prove:hash", "verify:submit"}

\* What running one script after the other keeps right, files aside.
Control ==
    /\ script \in Steps \cup {"idle"}
    /\ shock_up \in BOOLEAN
    /\ demo \in {"off", "running", "stopped", "complete"}
    /\ demo = "running" => script # "idle" /\ ~ shock_up
    /\ queue \in Seq(2..7)
    /\ demo # "running" => queue = <<>>

\* The accounts stay among the states a prover's snapshot may hold: no script
\* changes a parameter, and every stored price is that of some feed.
LiveInv ==
    /\ riskConfig = DefaultRiskConfig
    /\ globalState.insurance_fund = DEFAULT_INSURANCE_FUND
    /\ globalState.oracle_price \in SnapshotPrices

DiskInv ==
    /\ disk \in [demo_snapshot : Files, results : Files, snapshot : Files,
                 public_values : Files, input_hash : Files]
    /\ reading \in Files
    /\ reading # None <=> script = "snapshot:rest"
    /\ script = "simulate:snapshot" => disk.demo_snapshot # None
    /\ script \in {"prove:values", "prove:hash"} => disk.snapshot # None
    /\ script = "verify:submit" => disk.public_values # None

\* The book is on chain once it was asked for.
BookInv ==
    /\ globalState.total_positions # 0 => positionBook = DemoBook
    /\ script \in {"init:incentives", "init:fund", "init:positions"} =>
         Exists("global_state")
    /\ setUp => Exists("global_state") /\ positionBook = DemoBook

\* As long as nothing failed the hash on disk is that of the proof on disk, except
\* between the writing of the one and of the other.
CacheInv ==
    spent.faults = 0 =>
        IF script = "prove:hash" THEN disk.public_values = Input(disk.snapshot)
        ELSE disk.input_hash # None => disk.public_values = disk.input_hash

CountersTyped ==
    /\ outcome \in {"none", "accepted", "refused", "lost"}
    /\ setUp \in BOOLEAN
    /\ spent \in [faults : 0..MaxFaults, refreshes : 0..MaxRefreshes]

PipelineInv ==
    /\ TypeOK
    /\ Control
    /\ LiveInv
    /\ DiskInv
    /\ BookInv
    /\ CacheInv
    /\ CountersTyped

-----------------------------------------------------------------------------
(* Snapshots and scripts *)

\* The live accounts, with one price and one fund or another, can be put down.
LEMMA PresentIsSnapshot == TypeOK /\ LiveInv => Present \in Snapshots
  BY SnapshotsAssumption
  DEF TypeOK, LiveInv, Present, LiveSnapshot, Snapshots, DefaultRiskConfig

LEMMA InputIsSnapshot ==
    ASSUME shock_up \in BOOLEAN, NEW snapshot \in Snapshots
    PROVE  Input(snapshot) \in Snapshots
  BY DEF Input, Snapshots

LEMMA ShippedIsSnapshot == ShippedInput \in Snapshots
  BY SnapshotsAssumption DEF ShippedInput, Snapshots, Books

LEMMA FirstStepTyped == \A number \in 2..7 : FirstStep[number] \in FirstSteps
  <1> SUFFICES ASSUME NEW number \in 2..7 PROVE FirstStep[number] \in FirstSteps
    OBVIOUS
  <1>1. number \in {2, 3, 4, 5, 6, 7}
    OBVIOUS
  <1>2. QED
    BY <1>1 DEF FirstStep, FirstSteps

\* Where a script that ends leaves the next one.
LEMMA ExitCases ==
    ASSUME NEW code, Control, script # "idle", Exit(code)
    PROVE  /\ Control'
           /\ shock_up' = shock_up
           /\ \/ demo # "running" /\ script' = "idle" /\ demo' = demo
              \/ /\ demo = "running" /\ code # 0
                 /\ script' = "idle" /\ demo' = "stopped"
              \/ /\ demo = "running" /\ code = 0 /\ queue = <<>>
                 /\ script' = "idle" /\ demo' = "complete"
              \/ /\ demo = "running" /\ code = 0 /\ queue # <<>>
                 /\ script' = FirstStep[Head(queue)]
                 /\ script' \in FirstSteps
                 /\ queue' = Tail(queue) /\ demo' = "running"
  <1>1. CASE demo # "running"
    BY <1>1 DEF Exit, Control
  <1>2. CASE demo = "running" /\ code # 0
    <2>1. <<>> \in Seq(2..7)
      OBVIOUS
    <2>2. script' = "idle" /\ demo' = "stopped" /\ queue' = <<>> /\ shock_up' = shock_up
      BY <1>2 DEF Exit
    <2>3. QED
      BY <1>2, <2>1, <2>2 DEF Control
  <1>3. CASE demo = "running" /\ code = 0 /\ queue = <<>>
    BY <1>3 DEF Exit, Control
  <1>4. CASE demo = "running" /\ code = 0 /\ queue # <<>>
    <2>1. Head(queue) \in 2..7 /\ Tail(queue) \in Seq(2..7)
      BY <1>4 DEF Control
    <2>2. /\ script' = FirstStep[Head(queue)]
          /\ queue' = Tail(queue)
          /\ UNCHANGED <<demo, shock_up>>
      BY <1>4 DEF Exit
    <2>3. script' \in FirstSteps
      BY <2>1, <2>2, FirstStepTyped
    <2>4. "idle" \notin FirstSteps
      BY DEF FirstSteps
    <2>5. Control'
      BY <1>4, <2>1, <2>2, <2>3, <2>4 DEF Control, Steps
    <2>6. QED
      BY <1>4, <2>2, <2>3, <2>5
  <1>5. QED
    BY <1>1, <1>2, <1>3, <1>4

LEMMA GoToControl ==
    ASSUME NEW step \in Steps, Control, script # "idle", GoTo(step)
    PROVE  Control' /\ script' = step /\ shock_up' = shock_up /\ demo' = demo
  BY DEF Control, GoTo, Steps, FirstSteps

-----------------------------------------------------------------------------
(* Every step is a step of the program, or none *)

\* What the pipeline may ask of the program, whichever script asks.
EngineMove ==
    \/ UNCHANGED vars
    \/ AdvanceSlot
    \/ \E feed \in PythFeeds : RefreshOraclePrice(feed)
    \/ \E user \in Users : InitializeProtocol(user)
    \/ InitializePositions(Operator)
    \/ \E reward \in RewardChoices, interval \in IntervalChoices :
          InitializeIncentives(Operator, reward, interval, TRUE)
    \/ \E amount \in FundingChoices : FundRewardVault(Operator, amount)
    \/ script = "verify:submit" /\ Landed

LEMMA StepsMoveEngine == PipelineNext => EngineMove
  <1> SUFFICES ASSUME PipelineNext PROVE EngineMove
    OBVIOUS
  <1>1. CASE ScriptStep
    <2>1. CASE InitProtocol \/ InitIncentives \/ InitFund \/ InitPositions
      BY <2>1, PipelineAssumption, Zenon
      DEF EngineMove, InitProtocol, InitIncentives, InitFund, InitPositions, Sent
    <2>2. CASE InitCheck \/ SnapshotState \/ SnapshotRest \/ SimulateResults
               \/ SimulateSnapshot
      BY <2>2, Zenon DEF EngineMove, InitCheck, SnapshotState, SnapshotRest, SimulateResults,
         SimulateSnapshot
    <2>3. CASE ProveCheck \/ ProveValues \/ ProveHash \/ VerifyFiles \/ VerifyRefused
               \/ StatusRead \/ StepThrows
      BY <2>3, Zenon DEF EngineMove, ProveCheck, ProveValues, ProveHash, VerifyFiles,
         VerifyRefused, StatusRead, StepThrows
    <2>4. CASE VerifyAccepted
      BY <2>4, Zenon DEF EngineMove, VerifyAccepted
    <2>5. QED
      BY <1>1, <2>1, <2>2, <2>3, <2>4, Zenon DEF ScriptStep
  <1>2. CASE StartDemo \/ \E number \in 2..6, up \in BOOLEAN : StartScript(number, up)
    BY <1>2, Zenon DEF EngineMove, StartDemo, StartScript
  <1>3. CASE StepFails \/ ConfirmationLost \/ Killed
    BY <1>3, Zenon DEF EngineMove, StepFails, ConfirmationLost, Killed
  <1>4. CASE PriceMoves \/ TimePasses \/ FrontRun
    BY <1>4, Zenon DEF EngineMove, PriceMoves, TimePasses, FrontRun
  <1>5. QED
    BY <1>1, <1>2, <1>3, <1>4, Zenon DEF PipelineNext

LEMMA LandedIsSubmission ==
    ASSUME PipelineInv, script = "verify:submit", Landed
    PROVE  SubmitProof(Operator, WithIncentives)
  <1> DEFINE snap == disk.public_values
  <1>1. snap \in Snapshots
    BY DEF PipelineInv, DiskInv, Files
  <1>2. Submitted = PublicValues(snap, StressScore(snap))
    BY DEF Submitted
  <1>3. Verified(Submitted, snap)
    BY <1>2, Zenon DEF Verified
  <1>4. OracleAgrees(None, Submitted)
    BY DEF OracleAgrees
  <1>5. AdminApproves(Operator)
    BY DEF PipelineInv, LiveInv, DefaultRiskConfig, AdminApproves
  <1>6. WithIncentives => Exists("incentives_config")
    BY DEF WithIncentives
  <1>7. \E s \in Snapshots : \E score \in {StressScore(s), 0, RISK_SCORE_MAX} :
           LET pv == PublicValues(s, score)
           IN  /\ BoundToState(pv)
               /\ ShockRecomputed(pv)
               /\ \E feed \in PythFeeds \cup {None} : OracleAgrees(feed, pv)
               /\ \E admin \in Users : AdminApproves(admin)
               /\ Verified(pv, s)
               /\ Panics(pv) =>
                    globalState.max_leverage * CB_LEVERAGE_REDUCTION_BPS <= U64_MAX
               /\ RecordProof(pv)
               /\ history' = [history EXCEPT
                                !.panicSlot = IF Panics(pv) THEN slot ELSE @,
                                !.paidSlot = IF Pays(WithIncentives) THEN slot ELSE @]
    <2>1. StressScore(snap) \in {StressScore(snap), 0, RISK_SCORE_MAX}
      OBVIOUS
    <2>2. QED
      BY <1>1, <1>2, <1>3, <1>4, <1>5, <2>1, PipelineAssumption, Zenon
      DEF Landed, SubmissionAccepted
  <1>8. QED
    BY <1>6, <1>7, Zenon DEF SubmitProof, Landed, SubmissionAccepted

LEMMA MovesAreSteps == PipelineInv /\ EngineMove => [Next]_vars
  <1> SUFFICES ASSUME PipelineInv, EngineMove PROVE [Next]_vars
    OBVIOUS
  <1>1. CASE script = "verify:submit" /\ Landed
    <2>1. WithIncentives \in BOOLEAN
      BY DEF WithIncentives
    <2>2. QED
      BY <1>1, <2>1, LandedIsSubmission, PipelineAssumption, Zenon DEF Next
  <1>2. CASE ~ (script = "verify:submit" /\ Landed)
    <2>1. TRUE \in BOOLEAN
      OBVIOUS
    <2>2. QED
      BY <1>2, <2>1, PipelineAssumption, Zenon DEF EngineMove, Next
  <1>3. QED
    BY <1>1, <1>2

LEMMA MovesKeepLive == PipelineInv /\ EngineMove => TypeOK' /\ LiveInv'
  <1> SUFFICES ASSUME PipelineInv, EngineMove PROVE TypeOK' /\ LiveInv'
    OBVIOUS
  <1>1. TypeOK'
    BY MovesAreSteps, StepTyped DEF PipelineInv
  <1>2. LiveInv /\ globalState \in GlobalStates
    BY DEF PipelineInv, TypeOK
  <1>3. CASE \E feed \in PythFeeds : RefreshOraclePrice(feed)
    BY <1>1, <1>2, <1>3, SnapshotsAssumption DEF RefreshOraclePrice, LiveInv, GlobalStates
  <1>4. CASE \E user \in Users : InitializeProtocol(user)
    BY <1>1, <1>4, SnapshotsAssumption DEF InitializeProtocol, LiveInv, DefaultGlobalState
  <1>5. CASE Landed
    BY <1>1, <1>2, <1>5 DEF Landed, RecordProof, LiveInv, GlobalStates
  <1>6. CASE InitializePositions(Operator)
    BY <1>1, <1>2, <1>6 DEF InitializePositions, LiveInv, GlobalStates
  <1>7. CASE UNCHANGED <<globalState, riskConfig>>
    BY <1>1, <1>2, <1>7 DEF LiveInv
  <1>8. QED
    BY <1>1, <1>3, <1>4, <1>5, <1>6, <1>7
    DEF EngineMove, vars, AdvanceSlot, InitializeIncentives, FundRewardVault

\* Accounts stay, and so does a book that was asked for.
LEMMA MovesKeepBook ==
    PipelineInv /\ EngineMove =>
        /\ accounts \subseteq accounts'
        /\ globalState'.total_positions # 0 => positionBook' = DemoBook
        /\ Exists("global_state") /\ positionBook = DemoBook => positionBook' = DemoBook
  <1> SUFFICES ASSUME PipelineInv, EngineMove
               PROVE  /\ accounts \subseteq accounts'
                      /\ globalState'.total_positions # 0 => positionBook' = DemoBook
                      /\ Exists("global_state") /\ positionBook = DemoBook =>
                            positionBook' = DemoBook
    OBVIOUS
  <1>1. globalState \in GlobalStates /\ (globalState.total_positions # 0 => positionBook = DemoBook)
    BY DEF PipelineInv, TypeOK, BookInv
  <1>2. CASE \E feed \in PythFeeds : RefreshOraclePrice(feed)
    BY <1>1, <1>2 DEF RefreshOraclePrice, GlobalStates
  <1>3. CASE \E user \in Users : InitializeProtocol(user)
    BY <1>3 DEF InitializeProtocol, DefaultGlobalState
  <1>4. CASE Landed
    BY <1>1, <1>4 DEF Landed, RecordProof, GlobalStates
  <1>5. CASE InitializePositions(Operator)
    BY <1>5 DEF InitializePositions
  <1>6. CASE UNCHANGED <<globalState, positionBook>> /\ accounts \subseteq accounts'
    BY <1>1, <1>6
  <1>7. QED
    BY <1>2, <1>3, <1>4, <1>5, <1>6
    DEF EngineMove, vars, AdvanceSlot, InitializeIncentives, FundRewardVault

-----------------------------------------------------------------------------
(* The scripts and their files *)

InitWaits == {"init:incentives", "init:fund", "init:positions"}

\* A script that ends, with its files as they are.
LEMMA EndsInvariant ==
    ASSUME PipelineInv, NEW code, script # "idle", Exit(code), EngineMove,
           disk' = disk, reading' = None, CountersTyped',
           setUp' => setUp \/ (Exists("global_state")' /\ positionBook' = DemoBook),
           \/ spent' = spent /\ script # "prove:hash"
           \/ spent'.faults # 0
    PROVE  PipelineInv'
  <1>1. Control' /\ shock_up' = shock_up /\ script' \in FirstSteps \cup {"idle"}
    BY ExitCases DEF PipelineInv, FirstSteps
  <1>2. DiskInv'
    BY <1>1 DEF PipelineInv, DiskInv, FirstSteps, Files
  <1>3. CacheInv'
    <2>1. CASE spent' = spent /\ script # "prove:hash"
      BY <1>1, <2>1, Zenon DEF PipelineInv, CacheInv, Input, FirstSteps
    <2>2. CASE spent'.faults # 0
      BY <2>2 DEF CacheInv
    <2>3. QED
      BY <2>1, <2>2
  <1>4. script' \notin InitWaits
    BY <1>1 DEF InitWaits, FirstSteps
  <1>5. BookInv'
    BY <1>4, MovesKeepBook DEF PipelineInv, BookInv, InitWaits, Exists
  <1>6. QED
    BY <1>1, <1>2, <1>3, <1>5, MovesKeepLive DEF PipelineInv

\* A script that goes on to a step which needs no file.
LEMMA GoesOnInvariant ==
    ASSUME PipelineInv, NEW step \in Steps, script # "idle", GoTo(step), EngineMove,
           step \notin {"snapshot:rest", "simulate:snapshot", "prove:values", "prove:hash",
                        "verify:submit"},
           step \in InitWaits => Exists("global_state")',
           script # "prove:hash", script # "snapshot:rest",
           UNCHANGED <<disk, reading, outcome, setUp, spent>>
    PROVE  PipelineInv'
  <1>1. Control' /\ shock_up' = shock_up /\ script' = step
    BY GoToControl DEF PipelineInv
  <1>2. DiskInv'
    BY <1>1 DEF PipelineInv, DiskInv, Files
  <1>3. CacheInv'
    BY <1>1, Zenon DEF PipelineInv, CacheInv, Input
  <1>4. BookInv'
    BY <1>1, MovesKeepBook DEF PipelineInv, BookInv, InitWaits, Exists
  <1>5. CountersTyped'
    BY DEF PipelineInv, CountersTyped
  <1>6. QED
    BY <1>1, <1>2, <1>3, <1>4, <1>5, MovesKeepLive DEF PipelineInv

LEMMA ReadingNone ==
    ASSUME PipelineInv, script # "snapshot:rest"
    PROVE  reading = None
  BY DEF PipelineInv, DiskInv

LEMMA SetUpStepsInvariant ==
    ASSUME PipelineInv, EngineMove,
           InitCheck \/ InitProtocol \/ InitIncentives \/ InitFund \/ InitPositions
    PROVE  PipelineInv'
  <1>1. CASE InitCheck
    <2> DEFINE step == IF Exists("global_state") THEN "init:positions" ELSE "init:protocol"
    <2>1. step \in Steps /\ step \in {"init:positions", "init:protocol"}
      BY DEF Steps
    <2>2. step \in InitWaits => Exists("global_state")'
      BY <1>1 DEF InitWaits, InitCheck, vars, Exists
    <2>3. GoTo(step) /\ script = "init:check"
          /\ UNCHANGED <<disk, reading, outcome, setUp, spent>>
      BY <1>1 DEF InitCheck
    <2> HIDE DEF step
    <2>4. QED
      BY <2>1, <2>2, <2>3, GoesOnInvariant
  <1>2. CASE InitProtocol
    <2>1. /\ GoTo("init:incentives") /\ script = "init:protocol"
          /\ Exists("global_state")'
          /\ UNCHANGED <<disk, reading, outcome, setUp, spent>>
      BY <1>2 DEF InitProtocol, Sent, InitializeProtocol, Exists
    <2>2. "init:incentives" \in Steps
      BY DEF Steps
    <2>3. QED
      BY <2>1, <2>2, GoesOnInvariant
  <1>3. CASE InitIncentives
    <2>1. /\ GoTo("init:fund") /\ script = "init:incentives"
          /\ UNCHANGED <<disk, reading, outcome, setUp, spent>>
      BY <1>3 DEF InitIncentives, Sent
    <2>2. "init:fund" \in Steps
      BY DEF Steps
    <2>3. Exists("global_state")'
      BY <2>1, MovesKeepBook DEF PipelineInv, BookInv, Exists
    <2>4. QED
      BY <2>1, <2>2, <2>3, GoesOnInvariant
  <1>4. CASE InitFund
    <2>1. /\ GoTo("init:positions") /\ script = "init:fund"
          /\ UNCHANGED <<disk, reading, outcome, setUp, spent>>
      BY <1>4 DEF InitFund, Sent
    <2>2. "init:positions" \in Steps
      BY DEF Steps
    <2>3. Exists("global_state")'
      BY <2>1, MovesKeepBook DEF PipelineInv, BookInv, Exists
    <2>4. QED
      BY <2>1, <2>2, <2>3, GoesOnInvariant
  <1>5. CASE InitPositions
    <2>1. /\ script = "init:positions" /\ Exit(0) /\ setUp' = TRUE
          /\ UNCHANGED <<disk, reading, outcome, spent>>
      BY <1>5 DEF InitPositions
    <2>2. Exists("global_state")'
      BY <2>1, MovesKeepBook DEF PipelineInv, BookInv, Exists
    <2>3. positionBook' = DemoBook
      BY <1>5 DEF InitPositions, InitializePositions, PipelineInv, BookInv, vars
    <2>4. reading' = None /\ CountersTyped'
      BY <2>1, ReadingNone DEF PipelineInv, CountersTyped
    <2>5. QED
      BY <2>1, <2>2, <2>3, <2>4, EndsInvariant
  <1>6. QED
    BY <1>1, <1>2, <1>3, <1>4, <1>5

LEMMA SnapshotStepsInvariant ==
    ASSUME PipelineInv, EngineMove, SnapshotState \/ SnapshotRest
    PROVE  PipelineInv'
  <1>1. Present \in Snapshots /\ None \notin Snapshots
    BY PresentIsSnapshot, SnapshotsAssumption DEF PipelineInv
  <1>2. CASE SnapshotState
    <2>1. Control' /\ shock_up' = shock_up /\ script' = "snapshot:rest"
      BY <1>2, GoToControl DEF PipelineInv, SnapshotState, Steps
    <2>2. reading' = Present /\ UNCHANGED <<disk, outcome, setUp, spent>>
          /\ script = "snapshot:state"
      BY <1>2 DEF SnapshotState
    <2>3. DiskInv'
      BY <1>1, <2>1, <2>2, Zenon DEF PipelineInv, DiskInv, Files
    <2>4. CacheInv'
      BY <2>1, <2>2, Zenon DEF PipelineInv, CacheInv, Input
    <2>5. BookInv' /\ CountersTyped'
      BY <2>1, <2>2, MovesKeepBook DEF PipelineInv, BookInv, CountersTyped, Exists
    <2>6. QED
      BY <2>1, <2>3, <2>4, <2>5, MovesKeepLive DEF PipelineInv
  <1>3. CASE SnapshotRest
    <2> DEFINE file == [Present EXCEPT !.oracle_price = reading.oracle_price,
                                       !.insurance_fund = reading.insurance_fund]
    <2>1. reading \in Snapshots
      BY <1>3 DEF SnapshotRest, PipelineInv, DiskInv, Files
    <2>2. file \in Snapshots
      BY <1>1, <2>1 DEF Snapshots
    <2>3. /\ script = "snapshot:rest"
          /\ Exit(0)
          /\ disk' = [disk EXCEPT !.demo_snapshot = file]
          /\ reading' = None
          /\ UNCHANGED <<vars, outcome, setUp, spent>>
      BY <1>3 DEF SnapshotRest
    <2> HIDE DEF file
    <2>4. Control' /\ shock_up' = shock_up /\ script' \in FirstSteps \cup {"idle"}
      BY <2>3, ExitCases DEF PipelineInv, FirstSteps
    <2>5. DiskInv'
      BY <1>1, <2>2, <2>3, <2>4 DEF PipelineInv, DiskInv, FirstSteps, Files
    <2>6. CacheInv'
      <3>1. script' # "prove:hash" /\ script # "prove:hash"
        BY <2>3, <2>4 DEF FirstSteps
      <3>2. disk'.public_values = disk.public_values /\ disk'.input_hash = disk.input_hash
        BY <2>3 DEF PipelineInv, DiskInv
      <3>3. QED
        BY <3>1, <3>2, <2>3, Zenon DEF PipelineInv, CacheInv
    <2>7. BookInv' /\ CountersTyped'
      BY <2>3, <2>4, MovesKeepBook
      DEF PipelineInv, BookInv, CountersTyped, Exists, FirstSteps, vars
    <2>8. QED
      BY <2>4, <2>5, <2>6, <2>7, MovesKeepLive DEF PipelineInv
  <1>4. QED
    BY <1>2, <1>3

LEMMA SimulateStepsInvariant ==
    ASSUME PipelineInv, EngineMove, SimulateResults \/ SimulateSnapshot
    PROVE  PipelineInv'
  <1>1. None \notin Snapshots
    BY SnapshotsAssumption
  <1>2. CASE SimulateResults
    <2> DEFINE file == Input(disk.demo_snapshot)
    <2>1. Control' /\ shock_up' = shock_up /\ script' = "simulate:snapshot"
      BY <1>2, GoToControl DEF PipelineInv, SimulateResults, Steps
    <2>2. disk.demo_snapshot # None /\ file \in Snapshots
      BY <1>2, InputIsSnapshot
      DEF SimulateResults, PipelineInv, Control, DiskInv, Files
    <2>3. /\ script = "simulate:results"
          /\ disk' = [disk EXCEPT !.results = file]
          /\ UNCHANGED <<vars, reading, outcome, setUp, spent>>
      BY <1>2 DEF SimulateResults
    <2> HIDE DEF file
    <2>4. DiskInv'
      BY <2>1, <2>2, <2>3 DEF PipelineInv, DiskInv, Files
    <2>5. CacheInv'
      <3>1. disk'.public_values = disk.public_values /\ disk'.input_hash = disk.input_hash
        BY <2>3 DEF PipelineInv, DiskInv
      <3>2. QED
        BY <3>1, <2>1, <2>3, Zenon DEF PipelineInv, CacheInv
    <2>6. BookInv' /\ CountersTyped'
      BY <2>1, <2>3, MovesKeepBook DEF PipelineInv, BookInv, CountersTyped, Exists, vars
    <2>7. QED
      BY <2>1, <2>4, <2>5, <2>6, MovesKeepLive DEF PipelineInv
  <1>3. CASE SimulateSnapshot
    <2>1. /\ script = "simulate:snapshot"
          /\ Exit(0)
          /\ disk' = [disk EXCEPT !.snapshot = disk.demo_snapshot]
          /\ UNCHANGED <<vars, reading, outcome, setUp, spent>>
      BY <1>3 DEF SimulateSnapshot
    <2>2. Control' /\ shock_up' = shock_up /\ script' \in FirstSteps \cup {"idle"}
      BY <2>1, ExitCases DEF PipelineInv, FirstSteps
    <2>3. DiskInv'
      BY <2>1, <2>2 DEF PipelineInv, DiskInv, FirstSteps, Files
    <2>4. CacheInv'
      <3>1. script' # "prove:hash"
        BY <2>2 DEF FirstSteps
      <3>2. disk'.public_values = disk.public_values /\ disk'.input_hash = disk.input_hash
        BY <2>1 DEF PipelineInv, DiskInv
      <3>3. QED
        BY <3>1, <3>2, <2>1, Zenon DEF PipelineInv, CacheInv
    <2>5. BookInv' /\ CountersTyped'
      BY <2>1, <2>2, MovesKeepBook
      DEF PipelineInv, BookInv, CountersTyped, Exists, FirstSteps, vars
    <2>6. QED
      BY <2>2, <2>3, <2>4, <2>5, MovesKeepLive DEF PipelineInv
  <1>4. QED
    BY <1>2, <1>3

LEMMA ProveStepsInvariant ==
    ASSUME PipelineInv, EngineMove, ProveCheck \/ ProveValues \/ ProveHash
    PROVE  PipelineInv'
  <1>1. disk.snapshot # None => Input(disk.snapshot) \in Snapshots
    BY InputIsSnapshot DEF PipelineInv, Control, DiskInv, Files
  <1>2. CASE ProveCheck /\ CacheHit
    <2>1. /\ script = "prove:check" /\ Exit(0)
          /\ UNCHANGED <<disk, reading, outcome, setUp, spent>>
      BY <1>2 DEF ProveCheck
    <2>2. reading' = None /\ CountersTyped'
      BY <2>1, ReadingNone DEF PipelineInv, CountersTyped
    <2>3. QED
      BY <2>1, <2>2, EndsInvariant
  <1>3. CASE ProveCheck /\ ~ CacheHit
    <2>1. Control' /\ shock_up' = shock_up /\ script' = "prove:values"
      BY <1>3, GoToControl DEF PipelineInv, ProveCheck, Steps
    <2>2. /\ script = "prove:check" /\ disk.snapshot # None
          /\ UNCHANGED <<vars, disk, reading, outcome, setUp, spent>>
      BY <1>3 DEF ProveCheck
    <2>3. DiskInv' /\ CacheInv'
      BY <2>1, <2>2, Zenon DEF PipelineInv, DiskInv, CacheInv, Input, Files
    <2>4. BookInv' /\ CountersTyped'
      BY <2>1, <2>2, MovesKeepBook DEF PipelineInv, BookInv, CountersTyped, Exists, vars
    <2>5. QED
      BY <2>1, <2>3, <2>4, MovesKeepLive DEF PipelineInv
  <1>4. CASE ProveValues
    <2> DEFINE file == Input(disk.snapshot)
    <2>1. Control' /\ shock_up' = shock_up /\ script' = "prove:hash"
      BY <1>4, GoToControl DEF PipelineInv, ProveValues, Steps
    <2>2. /\ script = "prove:values" /\ disk.snapshot # None
          /\ disk' = [disk EXCEPT !.public_values = file]
          /\ UNCHANGED <<vars, reading, outcome, setUp, spent>>
      BY <1>4 DEF ProveValues, PipelineInv, DiskInv
    <2>3. file' = file /\ disk'.public_values = file
      BY <2>1, <2>2 DEF PipelineInv, DiskInv, Input
    <2>4. CacheInv'
      BY <2>1, <2>3 DEF CacheInv
    <2> HIDE DEF file
    <2>5. file \in Files
      BY <1>1, <2>2 DEF Files, file
    <2>6. DiskInv'
      BY <2>1, <2>2, <2>5 DEF PipelineInv, DiskInv
    <2>7. BookInv' /\ CountersTyped'
      BY <2>1, <2>2, MovesKeepBook DEF PipelineInv, BookInv, CountersTyped, Exists, vars
    <2>8. QED
      BY <2>1, <2>4, <2>6, <2>7, MovesKeepLive DEF PipelineInv
  <1>5. CASE ProveHash
    <2> DEFINE file == Input(disk.snapshot)
    <2>1. /\ script = "prove:hash" /\ disk.snapshot # None
          /\ Exit(0)
          /\ disk' = [disk EXCEPT !.input_hash = file]
          /\ UNCHANGED <<vars, reading, outcome, setUp, spent>>
      BY <1>5 DEF ProveHash, PipelineInv, DiskInv
    <2>2. Control' /\ shock_up' = shock_up /\ script' \in FirstSteps \cup {"idle"}
      BY <2>1, ExitCases DEF PipelineInv, FirstSteps
    <2> HIDE DEF file
    <2>3. file \in Files
      BY <1>1, <2>1 DEF Files, file
    <2>4. DiskInv'
      BY <2>1, <2>2, <2>3 DEF PipelineInv, DiskInv, FirstSteps
    <2>5. disk'.input_hash = file /\ disk'.public_values = disk.public_values
      BY <2>1 DEF PipelineInv, DiskInv
    <2>6. CacheInv'
      BY <2>1, <2>2, <2>5 DEF PipelineInv, CacheInv, FirstSteps, file
    <2>7. BookInv' /\ CountersTyped'
      BY <2>1, <2>2, MovesKeepBook
      DEF PipelineInv, BookInv, CountersTyped, Exists, FirstSteps, vars
    <2>8. QED
      BY <2>2, <2>4, <2>6, <2>7, MovesKeepLive DEF PipelineInv
  <1>6. QED
    BY <1>2, <1>3, <1>4, <1>5

LEMMA VerifyStepsInvariant ==
    ASSUME PipelineInv, EngineMove,
           VerifyFiles \/ VerifyAccepted \/ VerifyRefused \/ StatusRead
    PROVE  PipelineInv'
  <1>1. CASE VerifyFiles /\ disk.results # None /\ disk.public_values # None
    <2>1. Control' /\ shock_up' = shock_up /\ script' = "verify:submit"
      BY <1>1, GoToControl DEF PipelineInv, VerifyFiles, Steps
    <2>2. script = "verify:files" /\ UNCHANGED <<vars, disk, reading, outcome, setUp, spent>>
      BY <1>1 DEF VerifyFiles
    <2>3. DiskInv' /\ CacheInv'
      BY <1>1, <2>1, <2>2, Zenon DEF PipelineInv, DiskInv, CacheInv, Files
    <2>4. BookInv' /\ CountersTyped'
      BY <2>1, <2>2, MovesKeepBook DEF PipelineInv, BookInv, CountersTyped, Exists, vars
    <2>5. QED
      BY <2>1, <2>3, <2>4, MovesKeepLive DEF PipelineInv
  <1>2. CASE VerifyFiles /\ ~ (disk.results # None /\ disk.public_values # None)
    <2>1. script = "verify:files" /\ Exit(1) /\ UNCHANGED <<disk, reading, outcome, setUp, spent>>
      BY <1>2 DEF VerifyFiles
    <2>2. reading' = None /\ CountersTyped'
      BY <2>1, ReadingNone DEF PipelineInv, CountersTyped
    <2>3. QED
      BY <2>1, <2>2, EndsInvariant
  <1>3. CASE VerifyAccepted \/ VerifyRefused
    <2>1. PICK code \in {0, 1} : Exit(code)
      BY <1>3 DEF VerifyAccepted, VerifyRefused
    <2>2. script = "verify:submit" /\ UNCHANGED <<disk, reading, setUp, spent>>
          /\ outcome' \in {"accepted", "refused"}
      BY <1>3 DEF VerifyAccepted, VerifyRefused
    <2>3. reading' = None /\ CountersTyped'
      BY <2>2, ReadingNone DEF PipelineInv, CountersTyped
    <2>4. QED
      BY <2>1, <2>2, <2>3, EndsInvariant
  <1>4. CASE StatusRead
    <2>1. script = "status:read" /\ Exit(0) /\ UNCHANGED <<disk, reading, outcome, setUp, spent>>
      BY <1>4 DEF StatusRead
    <2>2. reading' = None /\ CountersTyped'
      BY <2>1, ReadingNone DEF PipelineInv, CountersTyped
    <2>3. QED
      BY <2>1, <2>2, EndsInvariant
  <1>5. QED
    BY <1>1, <1>2, <1>3, <1>4

LEMMA FaultTyped ==
    ASSUME PipelineInv, Fault
    PROVE  /\ spent'.faults \in 1..MaxFaults
           /\ spent' \in [faults : 0..MaxFaults, refreshes : 0..MaxRefreshes]
  BY PipelineAssumption DEF PipelineInv, CountersTyped, Fault

LEMMA FaultStepsInvariant ==
    ASSUME PipelineInv, EngineMove,
           StepThrows \/ StepFails \/ ConfirmationLost \/ Killed
    PROVE  PipelineInv'
  <1>1. CASE StepThrows
    <2>1. script \notin {"idle", "snapshot:rest", "prove:hash"}
      BY <1>1 DEF StepThrows, Impossible
    <2>2. Exit(CodeOfThrow) /\ UNCHANGED <<disk, reading, outcome, setUp, spent>>
      BY <1>1 DEF StepThrows
    <2>3. reading' = None /\ CountersTyped'
      BY <2>1, <2>2, ReadingNone DEF PipelineInv, CountersTyped
    <2>4. QED
      BY <2>1, <2>2, <2>3, EndsInvariant
  <1>2. CASE StepFails
    <2>1. PICK code : Exit(code)
      BY <1>2 DEF StepFails
    <2>2. /\ script # "idle" /\ Fault /\ reading' = None
          /\ UNCHANGED <<disk, outcome, setUp>>
      BY <1>2 DEF StepFails
    <2>3. CountersTyped' /\ spent'.faults # 0
      BY <2>2, FaultTyped DEF PipelineInv, CountersTyped
    <2>4. QED
      BY <2>1, <2>2, <2>3, EndsInvariant
  <1>3. CASE ConfirmationLost
    <2>1. /\ script = "verify:submit" /\ Fault /\ Exit(1) /\ outcome' = "lost"
          /\ UNCHANGED <<disk, reading, setUp>>
      BY <1>3 DEF ConfirmationLost
    <2>2. CountersTyped' /\ spent'.faults # 0
      BY <2>1, FaultTyped DEF PipelineInv, CountersTyped
    <2>3. reading' = None
      BY <2>1, ReadingNone
    <2>4. QED
      BY <2>1, <2>2, <2>3, EndsInvariant
  <1>4. CASE Killed
    <2>1. /\ Fault /\ script' = "idle" /\ demo' = "off" /\ queue' = <<>> /\ reading' = None
          /\ UNCHANGED <<vars, disk, shock_up, outcome, setUp>>
      BY <1>4 DEF Killed
    <2>2. CountersTyped' /\ spent'.faults # 0
      BY <2>1, FaultTyped DEF PipelineInv, CountersTyped
    <2>3. <<>> \in Seq(2..7)
      OBVIOUS
    <2>4. Control'
      BY <2>1, <2>3 DEF PipelineInv, Control
    <2>5. DiskInv' /\ CacheInv'
      BY <2>1, <2>2 DEF PipelineInv, DiskInv, CacheInv, Files
    <2>6. BookInv'
      BY <2>1, MovesKeepBook DEF PipelineInv, BookInv, Exists, vars
    <2>7. QED
      BY <2>2, <2>4, <2>5, <2>6, MovesKeepLive DEF PipelineInv
  <1>5. QED
    BY <1>1, <1>2, <1>3, <1>4

LEMMA StartsInvariant ==
    ASSUME PipelineInv, EngineMove,
           StartDemo \/ \E number \in 2..6, up \in BOOLEAN : StartScript(number, up)
    PROVE  PipelineInv'
  <1>1. Head(DemoScripts) = 2 /\ Tail(DemoScripts) \in Seq(2..7)
    BY DEF DemoScripts
  <1>2. /\ script = "idle" /\ script' \in FirstSteps
        /\ UNCHANGED <<vars, disk, reading, setUp, spent>>
        /\ outcome' \in {outcome, "none"}
    BY <1>1, FirstStepTyped DEF StartDemo, StartScript
  <1>3. Control'
    <2>1. CASE StartDemo
      BY <1>1, <1>2, <2>1 DEF PipelineInv, Control, StartDemo, Steps, FirstSteps
    <2>2. CASE \E number \in 2..6, up \in BOOLEAN : StartScript(number, up)
      BY <1>2, <2>2 DEF PipelineInv, Control, StartScript, Steps, FirstSteps
    <2>3. QED
      BY <2>1, <2>2
  <1>4. DiskInv'
    BY <1>2 DEF PipelineInv, DiskInv, FirstSteps, Files
  <1>5. CacheInv'
    BY <1>2, Zenon DEF PipelineInv, CacheInv, FirstSteps
  <1>6. BookInv' /\ CountersTyped'
    BY <1>2, MovesKeepBook
    DEF PipelineInv, BookInv, CountersTyped, Exists, FirstSteps, vars
  <1>7. QED
    BY <1>3, <1>4, <1>5, <1>6, MovesKeepLive DEF PipelineInv

LEMMA WorldInvariant ==
    ASSUME PipelineInv, EngineMove, PriceMoves \/ TimePasses \/ FrontRun
    PROVE  PipelineInv'
  <1>1. UNCHANGED operator
    BY DEF PriceMoves, TimePasses, FrontRun
  <1>2. /\ spent' \in [faults : 0..MaxFaults, refreshes : 0..MaxRefreshes]
        /\ spent'.faults = spent.faults
    BY PipelineAssumption
    DEF PipelineInv, CountersTyped, PriceMoves, TimePasses, FrontRun
  <1>3. Control' /\ DiskInv' /\ CountersTyped'
    BY <1>1, <1>2 DEF PipelineInv, Control, DiskInv, CountersTyped, Files, operator
  <1>4. CacheInv'
    BY <1>1, <1>2, Zenon DEF PipelineInv, CacheInv, Input, operator
  <1>5. BookInv'
    BY <1>1, MovesKeepBook DEF PipelineInv, BookInv, Exists, operator
  <1>6. QED
    BY <1>3, <1>4, <1>5, MovesKeepLive DEF PipelineInv

LEMMA PipelineStepInvariant ==
    PipelineInv /\ [PipelineNext]_pipelineVars => PipelineInv'
  <1> SUFFICES ASSUME PipelineInv, [PipelineNext]_pipelineVars PROVE PipelineInv'
    OBVIOUS
  <1>1. CASE PipelineNext
    BY <1>1, StepsMoveEngine, SetUpStepsInvariant, SnapshotStepsInvariant,
       SimulateStepsInvariant, ProveStepsInvariant, VerifyStepsInvariant,
       FaultStepsInvariant, StartsInvariant, WorldInvariant, Zenon
    DEF PipelineNext, ScriptStep
  <1>2. CASE UNCHANGED pipelineVars
    <2>1. TypeOK'
      BY <1>2, StepTyped DEF PipelineInv, pipelineVars
    <2>2. UNCHANGED <<vars, operator, spent>>
      BY <1>2 DEF pipelineVars
    <2>3. Control' /\ LiveInv' /\ DiskInv' /\ BookInv' /\ CountersTyped'
      BY <2>2 DEF PipelineInv, Control, LiveInv, DiskInv, BookInv, CountersTyped, Files,
         Exists, operator, vars
    <2>4. CacheInv'
      BY <2>2, Zenon DEF PipelineInv, CacheInv, Input, operator
    <2>5. QED
      BY <2>1, <2>3, <2>4 DEF PipelineInv
  <1>3. QED
    BY <1>1, <1>2

LEMMA PipelineInitInvariant == PipelineInit => PipelineInv
  <1> SUFFICES ASSUME PipelineInit PROVE PipelineInv
    OBVIOUS
  <1>1. Init
    BY DEF PipelineInit
  <1>2. TypeOK
    BY <1>1, InitTyped
  <1>3. LiveInv
    BY <1>1, SnapshotsAssumption DEF Init, LiveInv, DefaultGlobalState
  <1>4. Control
    <2>1. <<>> \in Seq(2..7)
      OBVIOUS
    <2>2. /\ script = "idle" /\ shock_up = FALSE /\ demo = "off" /\ queue = <<>>
      BY DEF PipelineInit
    <2>3. QED
      BY <2>1, <2>2 DEF Control
  <1>5. DiskInv
    BY ShippedIsSnapshot DEF PipelineInit, DiskInv, Files
  <1>6. BookInv
    BY <1>1 DEF PipelineInit, BookInv, Init, DefaultGlobalState
  <1>7. CacheInv
    <2>1. script = "idle" /\ disk.input_hash = None
      BY DEF PipelineInit
    <2>2. script # "prove:hash"
      BY <2>1
    <2>3. QED
      BY <2>1, <2>2, Zenon DEF CacheInv
  <1>8. CountersTyped
    <2>1. spent \in [faults : 0..MaxFaults, refreshes : 0..MaxRefreshes]
      BY PipelineAssumption DEF PipelineInit
    <2>2. outcome = "none" /\ setUp = FALSE
      BY DEF PipelineInit
    <2>3. QED
      BY <2>1, <2>2 DEF CountersTyped
  <1>9. QED
    BY <1>2, <1>3, <1>4, <1>5, <1>6, <1>7, <1>8 DEF PipelineInv

LEMMA PipelineInvariance == PipelineSpec => []PipelineInv
  BY PipelineInitInvariant, PipelineStepInvariant, PTL DEF PipelineSpec

-----------------------------------------------------------------------------
(* demo.sh *)

\* What is left to start, by the script that runs.
QueueFits ==
    /\ script \in {"init:check", "init:protocol"} \cup InitWaits => queue = <<3, 4, 5, 6, 7>>
    /\ script \in {"snapshot:state", "snapshot:rest"} => queue = <<4, 5, 6, 7>>
    /\ script \in {"simulate:results", "simulate:snapshot"} => queue = <<5, 6, 7>>
    /\ script \in {"prove:check", "prove:values", "prove:hash"} => queue = <<6, 7>>
    /\ script \in {"verify:files", "verify:submit"} => queue = <<7>>
    /\ script = "status:read" => queue = <<>>

\* As long as nothing failed, demo.sh is where its list says, the protocol exists
\* after the first script and the proof is accepted after the last but one.
DemoInv ==
    /\ demo \in {"stopped", "complete"} => script = "idle"
    /\ demo \in {"running", "complete"} => outcome # "refused"
    /\ spent.faults = 0 /\ demo = "complete" => outcome = "accepted"
    /\ spent.faults = 0 /\ demo = "running" =>
          /\ QueueFits
          /\ script \notin {"init:check", "init:protocol"} => Exists("global_state")
          /\ script = "status:read" => outcome = "accepted"

LEMMA NextScript ==
    /\ FirstStep[Head(<<3, 4, 5, 6, 7>>)] = "snapshot:state"
    /\ FirstStep[Head(<<4, 5, 6, 7>>)] = "simulate:results"
    /\ FirstStep[Head(<<5, 6, 7>>)] = "prove:check"
    /\ FirstStep[Head(<<6, 7>>)] = "verify:files"
    /\ FirstStep[Head(<<7>>)] = "status:read"
    /\ Tail(<<3, 4, 5, 6, 7>>) = <<4, 5, 6, 7>>
    /\ Tail(<<4, 5, 6, 7>>) = <<5, 6, 7>>
    /\ Tail(<<5, 6, 7>>) = <<6, 7>>
    /\ Tail(<<6, 7>>) = <<7>>
    /\ Tail(<<7>>) = <<>>
  BY DEF FirstStep

\* A script that ends, the outcome of its submission included.
LEMMA DemoEnds ==
    ASSUME Control, DemoInv, NEW code, script # "idle", Exit(code),
           spent'.faults = 0 => spent.faults = 0,
           demo = "running" /\ code = 0 => outcome' # "refused",
           demo = "running" /\ code = 0 /\ spent'.faults = 0 =>
              /\ Exists("global_state")'
              /\ IF script \in {"verify:files", "verify:submit"} THEN outcome' = "accepted"
                 ELSE outcome' = outcome
    PROVE  DemoInv'
  <1>1. CASE demo # "running"
    <2>1. demo = "off" /\ demo' = "off"
      BY <1>1, ExitCases DEF DemoInv, Control
    <2>2. QED
      BY <2>1 DEF DemoInv
  <1>2. CASE demo = "running" /\ code # 0
    <2>1. demo' = "stopped" /\ script' = "idle"
      BY <1>2, ExitCases
    <2>2. QED
      BY <2>1 DEF DemoInv
  <1>3. CASE demo = "running" /\ code = 0 /\ queue = <<>>
    <2>1. demo' = "complete" /\ script' = "idle"
      BY <1>3, ExitCases
    <2>2. ASSUME spent'.faults = 0 PROVE outcome' = "accepted"
      <3>1. QueueFits /\ (script = "status:read" => outcome = "accepted")
        BY <1>3, <2>2 DEF DemoInv
      <3>2. /\ <<3, 4, 5, 6, 7>> # <<>> /\ <<4, 5, 6, 7>> # <<>> /\ <<5, 6, 7>> # <<>>
            /\ <<6, 7>> # <<>> /\ <<7>> # <<>>
        OBVIOUS
      <3>3. script = "status:read"
        BY <1>3, <3>1, <3>2 DEF QueueFits, InitWaits, Control, Steps, FirstSteps
      <3>4. QED
        BY <1>3, <2>2, <3>1, <3>3
    <2>3. QED
      BY <1>3, <2>1, <2>2 DEF DemoInv
  <1>4. CASE demo = "running" /\ code = 0 /\ queue # <<>>
    <2>1. /\ script' = FirstStep[Head(queue)] /\ script' \in FirstSteps
          /\ queue' = Tail(queue) /\ demo' = "running"
      BY <1>4, ExitCases
    <2>2. ASSUME spent'.faults = 0
          PROVE  QueueFits' /\ (script' = "status:read" => outcome' = "accepted")
      <3>1. QueueFits /\ script \in Steps
        BY <1>4, <2>2 DEF DemoInv, Control
      <3>2. CASE script \in {"init:check", "init:protocol"} \cup InitWaits
        <4>1. script' = "snapshot:state" /\ queue' = <<4, 5, 6, 7>>
          BY <2>1, <3>1, <3>2, NextScript, Zenon DEF QueueFits
        <4>2. QED
          BY <4>1 DEF QueueFits, InitWaits
      <3>3. CASE script \in {"snapshot:state", "snapshot:rest"}
        <4>1. script' = "simulate:results" /\ queue' = <<5, 6, 7>>
          BY <2>1, <3>1, <3>3, NextScript, Zenon DEF QueueFits
        <4>2. QED
          BY <4>1 DEF QueueFits, InitWaits
      <3>4. CASE script \in {"simulate:results", "simulate:snapshot"}
        <4>1. script' = "prove:check" /\ queue' = <<6, 7>>
          BY <2>1, <3>1, <3>4, NextScript, Zenon DEF QueueFits
        <4>2. QED
          BY <4>1 DEF QueueFits, InitWaits
      <3>5. CASE script \in {"prove:check", "prove:values", "prove:hash"}
        <4>1. script' = "verify:files" /\ queue' = <<7>>
          BY <2>1, <3>1, <3>5, NextScript, Zenon DEF QueueFits
        <4>2. QED
          BY <4>1 DEF QueueFits, InitWaits
      <3>6. CASE script \in {"verify:files", "verify:submit"}
        <4>1. script' = "status:read" /\ queue' = <<>>
          BY <2>1, <3>1, <3>6, NextScript, Zenon DEF QueueFits
        <4>2. outcome' = "accepted"
          BY <1>4, <2>2, <3>6
        <4>3. QED
          BY <4>1, <4>2 DEF QueueFits, InitWaits
      <3>7. script # "status:read"
        BY <1>4, <3>1 DEF QueueFits
      <3>8. QED
        BY <3>1, <3>2, <3>3, <3>4, <3>5, <3>6, <3>7 DEF Steps, FirstSteps, InitWaits
    <2>3. outcome' # "refused" /\ (spent'.faults = 0 => Exists("global_state")')
      BY <1>4
    <2>4. QED
      BY <2>1, <2>2, <2>3 DEF DemoInv
  <1>5. QED
    BY <1>1, <1>2, <1>3, <1>4

\* A script that goes on to another of its own steps.
LEMMA DemoGoesOn ==
    ASSUME Control, DemoInv, NEW step \in Steps, script # "idle", GoTo(step),
           UNCHANGED <<outcome, spent>>,
           QueueFits /\ script \in Steps =>
              /\ step \in {"init:check", "init:protocol"} \cup InitWaits =>
                    queue = <<3, 4, 5, 6, 7>>
              /\ step = "snapshot:rest" => queue = <<4, 5, 6, 7>>
              /\ step = "simulate:snapshot" => queue = <<5, 6, 7>>
              /\ step \in {"prove:values", "prove:hash"} => queue = <<6, 7>>
              /\ step = "verify:submit" => queue = << 7 >>,
           step \notin FirstSteps,
           step # "init:protocol" =>
              Exists("global_state")' \/ (script # "init:protocol" /\ script # "init:check"),
           accounts \subseteq accounts'
    PROVE  DemoInv'
  <1>1. /\ script' = step /\ demo' = demo /\ queue' = queue
        /\ outcome' = outcome /\ spent' = spent
    BY DEF GoTo
  <1>2. step # "idle" /\ script \in Steps
    BY DEF Control, Steps, FirstSteps
  <1>3. demo # "stopped" /\ demo # "complete"
    BY DEF DemoInv
  <1>4. ASSUME spent.faults = 0, demo = "running"
        PROVE  QueueFits' /\ (step # "init:protocol" => Exists("global_state")')
    <2>1. QueueFits
      BY <1>4 DEF DemoInv
    <2>2. QueueFits'
      BY <1>1, <1>2, <2>1 DEF QueueFits, FirstSteps
    <2>3. step # "init:protocol" => Exists("global_state")'
      BY <1>4 DEF DemoInv, Exists
    <2>4. QED
      BY <2>2, <2>3
  <1>5. QED
    BY <1>1, <1>3, <1>4 DEF DemoInv, FirstSteps

\* Nothing of the demo changes, and accounts stay.
LEMMA DemoStays ==
    ASSUME DemoInv, UNCHANGED <<script, demo, queue, outcome>>, accounts \subseteq accounts',
           spent'.faults = spent.faults
    PROVE  DemoInv'
  <1>1. QueueFits => QueueFits'
    BY DEF QueueFits
  <1>2. QED
    BY <1>1 DEF DemoInv, Exists

LEMMA DemoStepInvariant ==
    ASSUME PipelineInv, DemoInv, [PipelineNext]_pipelineVars PROVE DemoInv'
  <1> USE DEF PipelineInv
  <1>1. ASSUME PipelineNext PROVE accounts \subseteq accounts'
    BY <1>1, StepsMoveEngine, MovesKeepBook
  <1>2. /\ spent \in [faults : 0..MaxFaults, refreshes : 0..MaxRefreshes]
        /\ MaxFaults \in Nat
        /\ Control
        /\ script \in InitWaits => Exists("global_state")
    BY PipelineAssumption DEF CountersTyped, BookInv, InitWaits
  <1>3. ASSUME Fault PROVE spent'.faults # 0
    BY <1>2, <1>3 DEF Fault
  <1>4. CASE ScriptStep
    <2> USE <1>1, <1>2, <1>4
    <2>0. accounts \subseteq accounts'
      BY DEF PipelineNext
    <2>1. CASE InitCheck \/ InitProtocol \/ InitIncentives \/ InitFund
      BY <2>0, <2>1, DemoGoesOn
      DEF InitCheck, InitProtocol, InitIncentives, InitFund, Sent, QueueFits, InitWaits,
          Steps, FirstSteps, InitializeProtocol, Exists
    <2>2. CASE InitPositions
      BY <2>0, <2>2, DemoEnds DEF InitPositions, InitWaits, DemoInv, Exists
    <2>3. CASE SnapshotState \/ SimulateResults
      BY <2>0, <2>3, DemoGoesOn
      DEF SnapshotState, SimulateResults, QueueFits, InitWaits, Steps, FirstSteps, Exists
    <2>4. CASE SnapshotRest \/ SimulateSnapshot \/ ProveHash \/ StatusRead
      BY <2>0, <2>4, DemoEnds
      DEF SnapshotRest, SimulateSnapshot, ProveHash, StatusRead, DemoInv, Exists
    <2>5. CASE ProveCheck
      <3>1. CASE CacheHit
        BY <2>0, <2>5, <3>1, DemoEnds DEF ProveCheck, DemoInv, Exists
      <3>2. CASE ~ CacheHit
        BY <2>0, <2>5, <3>2, DemoGoesOn
        DEF ProveCheck, QueueFits, InitWaits, Steps, FirstSteps, Exists
      <3>3. QED
        BY <3>1, <3>2
    <2>6. CASE ProveValues
      BY <2>0, <2>6, DemoGoesOn
      DEF ProveValues, QueueFits, InitWaits, Steps, FirstSteps, Exists
    <2>7. CASE VerifyFiles
      <3>1. CASE disk.results # None /\ disk.public_values # None
        BY <2>0, <2>7, <3>1, DemoGoesOn
        DEF VerifyFiles, QueueFits, InitWaits, Steps, FirstSteps, Exists
      <3>2. CASE ~ (disk.results # None /\ disk.public_values # None)
        BY <2>0, <2>7, <3>2, DemoEnds DEF VerifyFiles
      <3>3. QED
        BY <3>1, <3>2
    <2>8. CASE VerifyAccepted
      BY <2>0, <2>8, DemoEnds DEF VerifyAccepted, Landed, SubmissionAccepted, Exists
    <2>9. CASE VerifyRefused
      BY <2>0, <2>9, DemoEnds DEF VerifyRefused
    <2>10. CASE StepThrows
      BY <2>0, <2>10, DemoEnds DEF StepThrows, Impossible, CodeOfThrow, DemoInv, Exists, vars
    <2>11. QED
      BY <2>1, <2>2, <2>3, <2>4, <2>5, <2>6, <2>7, <2>8, <2>9, <2>10 DEF ScriptStep
  <1>5. CASE StartDemo
    <2>1. DemoScripts = <<2, 3, 4, 5, 6, 7>> /\ Head(DemoScripts) = 2
          /\ Tail(DemoScripts) = <<3, 4, 5, 6, 7>>
      BY DEF DemoScripts
    <2>2. /\ script' = "init:check" /\ queue' = <<3, 4, 5, 6, 7>>
          /\ demo' = "running" /\ outcome' = "none"
      BY <1>5, <2>1 DEF StartDemo, FirstStep
    <2>3. QED
      BY <2>2 DEF DemoInv, QueueFits, InitWaits
  <1>6. CASE \E number \in 2..6, up \in BOOLEAN : StartScript(number, up)
    <2>1. demo' = "off"
      BY <1>6 DEF StartScript
    <2>2. QED
      BY <2>1 DEF DemoInv
  <1>7. CASE StepFails
    BY <1>2, <1>3, <1>7, DemoEnds DEF StepFails, DemoInv
  <1>8. CASE ConfirmationLost
    BY <1>2, <1>3, <1>8, DemoEnds DEF ConfirmationLost
  <1>9. CASE Killed
    BY <1>9 DEF Killed, DemoInv
  <1>10. CASE PriceMoves \/ TimePasses \/ FrontRun
    <2>1. spent'.faults = spent.faults /\ UNCHANGED operator
      BY <1>2, <1>10 DEF PriceMoves, TimePasses, FrontRun
    <2>2. accounts \subseteq accounts'
      BY <1>1, <1>10 DEF PipelineNext
    <2>3. QED
      BY <2>1, <2>2, DemoStays DEF operator
  <1>11. CASE UNCHANGED pipelineVars
    BY <1>11, DemoStays DEF pipelineVars, operator, vars
  <1>12. QED
    BY <1>4, <1>5, <1>6, <1>7, <1>8, <1>9, <1>10, <1>11 DEF PipelineNext

-----------------------------------------------------------------------------
(* Theorems *)

\* The files hold inputs of runs and a demo that runs has a script that runs,
\* after any crash or failed call of any script.
THEOREM PipelineTypeCorrect == PipelineSpec => []PipelineTypeOK
  <1>1. PipelineInv => PipelineTypeOK
    BY DEF PipelineInv, PipelineTypeOK, Control, DiskInv, CountersTyped, Steps, FirstSteps
  <1>2. QED
    BY PipelineInvariance, <1>1, PTL

\* Whatever the scripts do, and wherever they stop, the program only sees
\* instructions it offers: what is proved of RiskEngine holds of the pipeline.
THEOREM PipelineRefinesProgram == PipelineSpec => ProgramRefined
  <1>1. PipelineInit => Init
    BY DEF PipelineInit
  <1>2. PipelineInv /\ [PipelineNext]_pipelineVars => [Next]_vars
    <2>1. ASSUME PipelineInv, PipelineNext PROVE [Next]_vars
      BY <2>1, StepsMoveEngine, MovesAreSteps
    <2>2. ASSUME UNCHANGED pipelineVars PROVE [Next]_vars
      BY <2>2 DEF pipelineVars
    <2>3. QED
      BY <2>1, <2>2
  <1>3. QED
    BY PipelineInvariance, <1>1, <1>2, PTL DEF PipelineSpec, ProgramRefined, Spec

\* A step that submits nothing leaves the program's last proof as it is.
LEMMA OnlyLandedIsAccepted ==
    ASSUME IInv, PipelineInv, [PipelineNext]_pipelineVars,
           ~ (script = "verify:submit" /\ Landed)
    PROVE  /\ [Next]_vars
           /\ globalState'.last_proof_slot = globalState.last_proof_slot
  <1>1. EngineMove
    BY StepsMoveEngine DEF EngineMove, pipelineVars
  <1>2. globalState \in GlobalStates
    BY DEF IInv, TypeOK
  <1>3. ~ Exists("global_state") => globalState.last_proof_slot = 0
    BY DEF IInv, SlotsConsistent, DefaultGlobalState
  <1>4. globalState'.last_proof_slot = globalState.last_proof_slot
    <2>1. CASE \E user \in Users : InitializeProtocol(user)
      BY <1>3, <2>1 DEF InitializeProtocol, DefaultGlobalState
    <2>2. CASE \E feed \in PythFeeds : RefreshOraclePrice(feed)
      BY <1>2, <2>2 DEF RefreshOraclePrice, GlobalStates
    <2>3. CASE InitializePositions(Operator)
      BY <1>2, <2>3 DEF InitializePositions, GlobalStates
    <2>4. CASE globalState' = globalState
      BY <2>4
    <2>5. QED
      BY <1>1, <2>1, <2>2, <2>3, <2>4
      DEF EngineMove, vars, AdvanceSlot, InitializeIncentives, FundRewardVault
  <1>5. QED
    BY <1>1, <1>4, MovesAreSteps

\* What lands is what the guest computed from an input of the prover's, bound to
\* the accounts as they are.
LEMMA LandedEffect ==
    ASSUME PipelineInv, script = "verify:submit", Landed
    PROVE  \E snap \in Snapshots :
              /\ BoundToState(PublicValues(snap, StressScore(snap)))
              /\ ShockRecomputed(PublicValues(snap, StressScore(snap)))
              /\ RecordProof(PublicValues(snap, StressScore(snap)))
              /\ Exists("global_state")
              /\ ProofAgeAccepted
              /\ UNCHANGED <<slot, accounts, riskConfig, positionBook>>
  <1>1. disk.public_values \in Snapshots
    BY DEF PipelineInv, DiskInv, Files
  <1>2. QED
    BY <1>1 DEF Landed, SubmissionAccepted, Submitted

\* With any verifier, the mock one included, the scripts only bring scores of the
\* accounts as they are on chain: what they submit is what the guest computed.
THEOREM SubmittedScoresAreLive == PipelineSpec => AcceptedScoreIsLive
  <1>1. IInv /\ PipelineInv /\ [PipelineNext]_pipelineVars => [AcceptsLiveScore]_vars
    <2> SUFFICES ASSUME IInv, PipelineInv, [PipelineNext]_pipelineVars
                 PROVE  AcceptsLiveScore
      OBVIOUS
    <2>1. CASE script = "verify:submit" /\ Landed
      BY <2>1, LandedEffect, ComputedIsAcceptedLive
    <2>2. CASE ~ (script = "verify:submit" /\ Landed)
      BY <2>2, OnlyLandedIsAccepted DEF AcceptsLiveScore
    <2>3. QED
      BY <2>1, <2>2
  <1>2. QED
    BY PipelineRefinesProgram, Invariance, PipelineInvariance, <1>1, PTL
    DEF PipelineSpec, ProgramRefined, AcceptedScoreIsLive

\* Driven by the scripts the program keeps the breaker's promises even in the
\* build that asks no verifier.
THEOREM PipelineImplementsBreaker == PipelineSpec => BreakerRefined
  <1>1. IInv /\ PipelineInv /\ [PipelineNext]_pipelineVars => [Breaker!Next]_Breaker!vars
    <2> SUFFICES ASSUME IInv, PipelineInv, [PipelineNext]_pipelineVars
                 PROVE  Breaker!Next
      OBVIOUS
    <2>1. CASE script = "verify:submit" /\ Landed
      BY <2>1, LandedEffect, ComputedRefines DEF Breaker!Next
    <2>2. CASE ~ (script = "verify:submit" /\ Landed)
      <3>1. /\ [Next]_vars
            /\ globalState'.last_proof_slot = globalState.last_proof_slot
        BY <2>2, OnlyLandedIsAccepted
      <3>2. ~ \E user \in Users, withIncentives \in BOOLEAN :
                SubmitProof(user, withIncentives)
        BY <3>1, SubmissionMovesSlot
      <3>3. QED
        BY <3>1, <3>2, OthersRefine
    <2>3. QED
      BY <2>1, <2>2
  <1>2. PipelineInit => Breaker!Init
    BY BreakerInit DEF PipelineInit
  <1>3. QED
    BY PipelineRefinesProgram, Invariance, PipelineInvariance, <1>1, <1>2, PTL
    DEF PipelineSpec, ProgramRefined, BreakerRefined, Breaker!Spec

\* 2-initialize.ts leaves the demo book on chain whenever it says it is done,
\* whatever stopped earlier runs of it and whoever created the protocol.
THEOREM SetupAlwaysRepairs == PipelineSpec => []SetupRepairsBook
  <1>1. PipelineInv => SetupRepairsBook
    BY DEF PipelineInv, BookInv, SetupRepairsBook
  <1>2. QED
    BY PipelineInvariance, <1>1, PTL

\* As long as nothing failed, the prover's cache never answers with the proof of
\* another input, whatever order the scripts are run in.
THEOREM CacheAlwaysClean == PipelineSpec => []CacheIsClean
  <1>1. PipelineInv => CacheIsClean
    BY Zenon DEF PipelineInv, CacheInv, CacheIsClean, PoisonedHit, CacheHit
  <1>2. QED
    BY PipelineInvariance, <1>1, PTL

\* demo.sh never says "Demo Complete" of a submission the program refused, and
\* without a failed call only of an accepted one, although every script but the
\* refusing one hides its errors behind exit code 0.
THEOREM CompleteIsAccepted == PipelineSpec => []CompleteMeansAccepted
  <1>1. PipelineInit => DemoInv
    BY DEF PipelineInit, DemoInv
  <1>2. PipelineInv /\ DemoInv /\ [PipelineNext]_pipelineVars => DemoInv'
    BY DemoStepInvariant
  <1>3. DemoInv => CompleteMeansAccepted
    BY DEF DemoInv, CompleteMeansAccepted
  <1>4. QED
    BY PipelineInvariance, <1>1, <1>2, <1>3, PTL DEF PipelineSpec
=============================================================================
