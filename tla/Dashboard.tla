----------------------------- MODULE Dashboard -----------------------------
(***************************************************************************)
(* The web app: the terminal page with its simulation run and its          *)
(* verification panel, the two API routes behind them, and the proof       *)
(* explorer.  The actors are the visitor, the timers and fetches the page  *)
(* has started (which go on whatever the visitor does meanwhile), and the  *)
(* server, which goes on serving a page that is gone.                      *)
(*                                                                         *)
(* Abstractions.  A scenario stands for the results.json served for it.    *)
(* The feed keeps a run's first line, the three opening ones its timers    *)
(* write whatever becomes of it, and the lines that say something of its   *)
(* result, as a set: nothing depends on their order; a run, the nested     *)
(* timers that write the latter.  Layout and animation are left out, and   *)
(* what shows fixed text: other pages, and the description above the       *)
(* cards, which is the tab's and not the result's.                         *)
(***************************************************************************)
EXTENDS Integers, Sequences, FiniteSets

CONSTANTS
    Scenarios, DefaultScenario,     \* the tabs, and the one active at first
    Result,                 \* the simulator's output for every scenario
    CB_THRESHOLD, RISK_SCORE_MAX,
    None,                   \* null
    MaxRequests,            \* bound on the verifications the server has at once
    MaxDue                  \* bound on a tab's opening lines not written yet

ASSUME ScenariosAssumption ==
    /\ DefaultScenario \in Scenarios
    /\ None \notin Scenarios \union {"unsent", "signature", "error", "simulated-tx-base64"}
    /\ CB_THRESHOLD \in Nat
    /\ RISK_SCORE_MAX \in Nat
    /\ Result \in [Scenarios -> [risk_score : Nat, total_losses : Nat,
                                 total_bad_debt : Nat]]
    /\ MaxRequests \in Nat
    /\ MaxDue \in Nat

VARIABLES
    path,               \* the page the visitor is on
    activeScenario, scenarioData, isSimulated, isSimulating,    \* WarRoom's state
    logs,               \* the lines of the feed, each of one scenario
    runs,               \* the asynchronous runs of runSimulation not finished yet
    due,                \* by tab, the opening lines whose timers have not fired
    panel,              \* ProofPanel's state
    requests,           \* calls of /api/verify the panel has not been told about
    confirmed,          \* the scenarios whose transaction the chain confirmed
    judgeKey,           \* JUDGE_MODE_PRIVATE_KEY is set
    artifacts,          \* the scenarios whose files the server has
    proofs              \* the explorer's list

warRoom == <<activeScenario, scenarioData, isSimulated, isSimulating, logs, runs, due>>
deployment == <<judgeKey, artifacts>>
server == <<requests, confirmed, deployment>>
vars == <<path, warRoom, panel, server, proofs>>

-----------------------------------------------------------------------------
(* What is on screen *)

\* The cards of a result are rendered.
ResultShown == path = "/" /\ isSimulated /\ scenarioData # None

Shown == Result[scenarioData]

\* cbActive, a property of the page and not of the cards.
CbActive == scenarioData # None /\ Shown.risk_score > CB_THRESHOLD

HeaderStatus == IF CbActive THEN "EMERGENCY" ELSE "MONITORING"

\* formatRiskScore(score) >= percent, without the division.
AtLeastPercent(score, percent) == score * 100 >= percent * RISK_SCORE_MAX

HealthStatus ==
    IF CbActive THEN "CIRCUIT BREAKER"
    ELSE IF AtLeastPercent(Shown.risk_score, 70) THEN "CRITICAL RISK"
    ELSE IF AtLeastPercent(Shown.risk_score, 40) THEN "ELEVATED RISK"
    ELSE "PROTOCOL SAFE"

\* Mutant: the timeline announces the breaker for a bad debt.
TimelineOfBadDebt ==
    (IF Shown.total_losses = 0 THEN {}
     ELSE IF Shown.total_bad_debt > 0 THEN {"Insurance depleted"}
     ELSE {"Insurance absorbs losses"})
    \union (IF Shown.total_bad_debt > 0
            THEN {"Circuit breaker activated"} ELSE {"Protocol parameters safe"})

\* The last events of the timeline, after those of the positions.
TimelineEvents ==
    (IF Shown.total_losses = 0 THEN {}
     ELSE IF Shown.total_bad_debt > 0 THEN {"Insurance depleted"}
     ELSE {"Insurance absorbs losses"})
    \union (IF Shown.risk_score > CB_THRESHOLD
            THEN {"Circuit breaker activated"} ELSE {"Protocol parameters safe"})

\* The banner's two texts, by one test of the score.
Banner ==
    IF Shown.risk_score > CB_THRESHOLD THEN "Circuit Breaker Activated"
    ELSE "Protocol Defended"

\* The colour of the score among the summary's numbers.
SummaryRisk ==
    IF AtLeastPercent(Shown.risk_score, 70) THEN "text-danger"
    ELSE IF AtLeastPercent(Shown.risk_score, 40) THEN "text-warning"
    ELSE "text-safe"

\* The summary's colour and the breaker say the same of every result: no score
\* lies between the page's 70 % and the program's threshold.
ColoursAgree ==
    \A s \in Scenarios :
        AtLeastPercent(Result[s].risk_score, 70) <=> Result[s].risk_score > CB_THRESHOLD

PanelButton ==
    IF panel.verifying THEN "Verifying on Devnet"
    ELSE IF panel.txSignature # None THEN "Verified On-Chain"
    ELSE "Verify On-Chain"

-----------------------------------------------------------------------------
(* The page *)

\* The lines a run writes after its answer, in the order of their timers.
FeedLines == <<"shock", "complete", "verdict", "ready">>

\* The timers at 300, 600 and 900 ms, which nothing cancels.
OpeningLines == 3

NothingDue == [s \in Scenarios |-> 0]

Line(text, scenario) == [text |-> text, scenario |-> scenario]

FreshPanel == [verifying |-> FALSE, txSignature |-> None, error |-> FALSE]

\* The answers to a panel that is gone are dropped, the calls are not.
Orphaned == {[r EXCEPT !.live = FALSE] : r \in requests}

Init ==
    /\ path = "/"
    /\ activeScenario = DefaultScenario
    /\ scenarioData = None
    /\ isSimulated = FALSE
    /\ isSimulating = FALSE
    /\ logs = {}
    /\ runs = {}
    /\ due = NothingDue
    /\ panel = FreshPanel
    /\ requests = {}
    /\ confirmed = {}
    /\ judgeKey \in BOOLEAN
    /\ artifacts \in SUBSET Scenarios
    /\ proofs = [s \in Scenarios |-> "Loading"]

\* Mutant: the button is made available again, the run is not called off.
SwitchScenarioStopsSpinner(id) ==
    /\ path = "/"
    /\ id # activeScenario
    /\ activeScenario' = id
    /\ isSimulated' = FALSE
    /\ isSimulating' = FALSE
    /\ scenarioData' = None
    /\ logs' = {}
    /\ panel' = FreshPanel
    /\ requests' = Orphaned
    /\ UNCHANGED <<path, runs, due, confirmed, deployment, proofs>>

\* Mutant: the feed is left as it is.
SwitchScenarioKeepsFeed(id) ==
    /\ path = "/"
    /\ id # activeScenario
    /\ activeScenario' = id
    /\ isSimulated' = FALSE
    /\ scenarioData' = None
    /\ panel' = FreshPanel
    /\ requests' = Orphaned
    /\ UNCHANGED <<path, isSimulating, logs, runs, due, confirmed, deployment, proofs>>

\* A tab is clicked.  The cards go, and with them the panel; a run in progress
\* stays, with its spinner, and so do the timers of the opening lines.
SwitchScenario(id) ==
    /\ path = "/"
    /\ id # activeScenario
    /\ activeScenario' = id
    /\ isSimulated' = FALSE
    /\ scenarioData' = None
    /\ logs' = {}
    /\ panel' = FreshPanel
    /\ requests' = Orphaned
    /\ UNCHANGED <<path, isSimulating, runs, due, confirmed, deployment, proofs>>

\* The run button, which the page shows while no result is on display.  The
\* timers of the opening lines are set before the fetch.
RunSimulation ==
    /\ path = "/"
    /\ ~ isSimulated
    /\ ~ isSimulating
    /\ due[activeScenario] + OpeningLines <= MaxDue
    /\ isSimulating' = TRUE
    /\ logs' = {Line("start", activeScenario)}
    /\ runs' = runs \union {[scenario |-> activeScenario, stage |-> 0]}
    /\ due' = [due EXCEPT ![activeScenario] = @ + OpeningLines]
    /\ UNCHANGED <<path, activeScenario, scenarioData, isSimulated, panel,
                   server, proofs>>

\* One of them fires: the run may have failed, and another tab be active.
OpeningLine(scenario) ==
    /\ due[scenario] > 0
    /\ due' = [due EXCEPT ![scenario] = @ - 1]
    /\ logs' = logs \union {Line("opening", scenario)}
    /\ UNCHANGED <<path, activeScenario, scenarioData, isSimulated, isSimulating,
                   runs, panel, server, proofs>>

\* /api/simulate finds both files.
ArtifactsFound(scenario) == scenario \in artifacts

\* The answer of /api/simulate: the first line follows at once, the others by
\* timers.
SimulationAnswered(run) ==
    /\ run.stage = 0
    /\ ArtifactsFound(run.scenario)
    /\ logs' = logs \union {Line(FeedLines[1], run.scenario)}
    /\ runs' = (runs \ {run}) \union {[run EXCEPT !.stage = 1]}
    /\ UNCHANGED <<path, activeScenario, scenarioData, isSimulated,
                   isSimulating, due, panel, server, proofs>>

\* Mutant: the error is shown and the spinner is left on.
SimulationFailedSpinning(run) ==
    /\ run.stage = 0
    /\ logs' = logs \union {Line("error", run.scenario)}
    /\ runs' = runs \ {run}
    /\ UNCHANGED <<path, activeScenario, scenarioData, isSimulated, isSimulating,
                   due, panel, server, proofs>>

\* /api/simulate found no artifacts, or could not be reached.
SimulationFailed(run) ==
    /\ run.stage = 0
    /\ logs' = logs \union {Line("error", run.scenario)}
    /\ isSimulating' = FALSE
    /\ runs' = runs \ {run}
    /\ UNCHANGED <<path, activeScenario, scenarioData, isSimulated, due, panel,
                   server, proofs>>

\* A timer of the run fires and writes the next line; the breaker's is a second
\* one after the verdict.  The first fires 1300 ms after the answer, when the
\* opening lines of this run and of those before it have been written.
NextLine(run) ==
    /\ run.stage \in 1..(Len(FeedLines) - 2)
    /\ due = NothingDue
    /\ LET text == FeedLines[run.stage + 1]
           trips == Result[run.scenario].risk_score > CB_THRESHOLD
           written == {text} \union (IF text = "verdict" /\ trips
                                     THEN {"tripped"} ELSE {})
       IN  logs' = logs \union {Line(t, run.scenario) : t \in written}
    /\ runs' = (runs \ {run}) \union {[run EXCEPT !.stage = @ + 1]}
    /\ UNCHANGED <<path, activeScenario, scenarioData, isSimulated,
                   isSimulating, due, panel, server, proofs>>

\* The last timer: the result of the scenario the run was started for is shown,
\* whichever tab is active by now.
Finish(run) ==
    /\ run.stage = Len(FeedLines) - 1
    /\ logs' = logs \union {Line("ready", run.scenario)}
    /\ scenarioData' = run.scenario
    /\ isSimulated' = TRUE
    /\ isSimulating' = FALSE
    /\ runs' = runs \ {run}
    /\ UNCHANGED <<path, activeScenario, due, panel, server, proofs>>

-----------------------------------------------------------------------------
(* Verification *)

\* The panel's button: disabled while it waits and once it has a signature.
VerifyOnChain ==
    /\ ResultShown
    /\ ~ panel.verifying
    /\ panel.txSignature = None
    /\ Cardinality(requests) < MaxRequests
    /\ panel' = [FreshPanel EXCEPT !.verifying = TRUE]
    /\ requests' = requests \union
                   {[scenario |-> scenarioData, live |-> TRUE, answer |-> None]}
    /\ UNCHANGED <<path, warRoom, confirmed, deployment, proofs>>

Answered(request, answer) ==
    requests' = (requests \ {request}) \union {[request EXCEPT !.answer = answer]}

\* POST /api/verify.  Without a key nothing is sent and the answer is a success
\* with an empty signature.  With one the transaction is sent and waited for;
\* the wait may fail after the chain has taken it.  What the chain makes of the
\* transaction is left open: its public values are constants of the route.
Serve(request) ==
    /\ request.answer = None
    /\ \/ /\ ~ judgeKey
          /\ Answered(request, "unsent")
          /\ UNCHANGED confirmed
       \/ /\ judgeKey
          /\ Answered(request, "signature")
          /\ confirmed' = confirmed \union {request.scenario}
       \/ /\ Answered(request, "error")
          /\ \/ UNCHANGED confirmed
             \/ judgeKey /\ confirmed' = confirmed \union {request.scenario}
    /\ UNCHANGED <<path, warRoom, panel, deployment, proofs>>

\* data.txSignature || "simulated-tx-base64", unless the answer is an error.
Signature(answer) ==
    CASE answer = "unsent" -> "simulated-tx-base64"
      [] answer = "signature" -> "signature"
      [] answer = "error" -> None

PanelAfter(answer) ==
    [verifying |-> FALSE,
     txSignature |-> Signature(answer),
     error |-> answer = "error"]

\* Mutant: the state belongs to whatever panel is there when the answer comes.
AnswerToCurrentPanel(request) ==
    /\ request.answer # None
    /\ requests' = requests \ {request}
    /\ panel' = IF ResultShown THEN PanelAfter(request.answer) ELSE panel
    /\ UNCHANGED <<path, warRoom, confirmed, deployment, proofs>>

\* Mutant: no `finally`: an error leaves the panel waiting.
AnswerWithoutFinally(request) ==
    /\ request.answer # None
    /\ requests' = requests \ {request}
    /\ panel' = IF request.live /\ request.answer # "error"
                THEN PanelAfter(request.answer) ELSE panel
    /\ UNCHANGED <<path, warRoom, confirmed, deployment, proofs>>

\* The answer has come and the delay is over.
AnswerArrives(request) ==
    /\ request.answer # None
    /\ requests' = requests \ {request}
    /\ panel' = IF request.live THEN PanelAfter(request.answer) ELSE panel
    /\ UNCHANGED <<path, warRoom, confirmed, deployment, proofs>>

-----------------------------------------------------------------------------
(* Navigation and the explorer *)

\* The page is left: its state is gone, its timers and fetches write to nothing.
OpenExplorer ==
    /\ path = "/"
    /\ path' = "/proof-explorer"
    /\ activeScenario' = DefaultScenario
    /\ scenarioData' = None
    /\ isSimulated' = FALSE
    /\ isSimulating' = FALSE
    /\ logs' = {}
    /\ runs' = {}
    /\ due' = NothingDue
    /\ panel' = FreshPanel
    /\ requests' = Orphaned
    /\ proofs' = [s \in Scenarios |-> "Loading"]
    /\ UNCHANGED <<confirmed, deployment>>

OpenWarRoom ==
    /\ path = "/proof-explorer"
    /\ path' = "/"
    /\ UNCHANGED <<warRoom, panel, server, proofs>>

\* All fetches have settled: a scenario whose file was read is "Verified".
LoadProofs(found) ==
    /\ path = "/proof-explorer"
    /\ \E s \in Scenarios : proofs[s] = "Loading"
    /\ proofs' = [s \in Scenarios |-> IF s \in found THEN "Verified" ELSE "Missing"]
    /\ UNCHANGED <<path, warRoom, panel, server>>

-----------------------------------------------------------------------------

Visitor ==
    \/ \E id \in Scenarios : SwitchScenario(id)
    \/ RunSimulation
    \/ VerifyOnChain
    \/ OpenExplorer
    \/ OpenWarRoom

RunStep(run) ==
    \/ SimulationAnswered(run)
    \/ SimulationFailed(run)
    \/ NextLine(run)
    \/ Finish(run)

RunProgress == \E run \in runs : RunStep(run)

Opening == \E scenario \in Scenarios : OpeningLine(scenario)

Server == \E request \in requests : Serve(request)

Arrival == \E request \in requests : AnswerArrives(request)

Loading == \E found \in SUBSET artifacts : LoadProofs(found)

Next == Visitor \/ RunProgress \/ Opening \/ Server \/ Arrival \/ Loading

Spec == Init /\ [][Next]_vars

\* Every timer fires and every fetch settles; the visitor need do nothing.  A
\* request whose panel is gone may be served or not.
FairSpec ==
    /\ Spec
    /\ WF_vars(RunProgress)
    /\ WF_vars(Opening)
    /\ WF_vars(\E r \in requests : r.live /\ (Serve(r) \/ AnswerArrives(r)))

-----------------------------------------------------------------------------
(* Properties *)

Lines == [text : {FeedLines[i] : i \in 1..Len(FeedLines)}
                  \union {"start", "opening", "tripped", "error"},
          scenario : Scenarios]

Runs == [scenario : Scenarios, stage : 0..(Len(FeedLines) - 1)]

Panels == [verifying : BOOLEAN,
           txSignature : {None, "simulated-tx-base64", "signature"},
           error : BOOLEAN]

Requests == [scenario : Scenarios, live : BOOLEAN,
             answer : {None, "unsent", "signature", "error"}]

\* Every variable holds what the page can hold: a run at one of its stages, a
\* panel that waits or has an answer, never both.
TypeOK ==
    /\ path \in {"/", "/proof-explorer"}
    /\ activeScenario \in Scenarios
    /\ scenarioData \in Scenarios \union {None}
    /\ isSimulated \in BOOLEAN
    /\ isSimulating \in BOOLEAN
    /\ logs \subseteq Lines
    /\ runs \subseteq Runs
    /\ due \in [Scenarios -> 0..MaxDue]
    /\ panel \in Panels
    /\ panel.verifying => panel.txSignature = None /\ ~ panel.error
    /\ requests \subseteq Requests
    /\ confirmed \subseteq Scenarios
    /\ judgeKey \in BOOLEAN
    /\ artifacts \subseteq Scenarios
    /\ proofs \in [Scenarios -> {"Loading", "Verified", "Missing"}]

\* The spinner is on exactly while one run is in progress, whatever tabs were
\* clicked meanwhile, and no run can finish under a result that is on display:
\* the cards and the panel of one result are never those of another.
OneRunAtATime ==
    /\ Cardinality(runs) <= 1
    /\ isSimulating <=> runs # {}
    /\ isSimulated => runs = {}

\* Whatever the page works out from the result on display says the same of the
\* breaker: the header, the health meter, the timeline, the banner, the colour of
\* the summary and the feed, whose lines (but for the opening ones, which say
\* nothing of a result) are that result's.  The description above the cards is not
\* among them: it is the active tab's fixed text and may say otherwise, as the
\* first tab's "Circuit breaker fires." does of its own result.
CardsAgree ==
    ResultShown =>
        LET trips == Shown.risk_score > CB_THRESHOLD IN
        /\ trips <=> HeaderStatus = "EMERGENCY"
        /\ trips <=> HealthStatus = "CIRCUIT BREAKER"
        /\ trips <=> "Circuit breaker activated" \in TimelineEvents
        /\ trips <=> Banner = "Circuit Breaker Activated"
        /\ trips <=> SummaryRisk = "text-danger"
        /\ \A line \in logs :
              /\ line.text # "opening" => line.scenario = scenarioData
              /\ line.text = "tripped" => trips

\* What the feed says of a scenario's result is of the result on display, of the
\* run in progress or of the active tab: a tab never shows the results an earlier
\* one left.  A run that failed can leave two kinds of line in the feed of the tab
\* clicked next, its message and the opening lines still due, and says no result.
FeedIsCurrent ==
    \A line \in logs :
        \/ line.text \in {"error", "opening"}
        \/ line.scenario \in {scenarioData, activeScenario}
        \/ \E run \in runs : run.scenario = line.scenario

\* With a key, a panel that says "Verified On-Chain" says it of a transaction the
\* chain confirmed, and of the scenario on display: the late answer to a panel
\* that is gone, of another tab or from before a visit to the explorer, does not
\* reach it.
VerifiedIsConfirmed ==
    PanelButton = "Verified On-Chain" =>
        ResultShown /\ (judgeKey => scenarioData \in confirmed)

\* A run that was started ends with a result or an error, without the visitor.
RunEnds == isSimulating ~> ~ isSimulating

\* A panel that waits for its verification gets an answer or an error.
VerifyingEnds == panel.verifying ~> ~ panel.verifying
=============================================================================
