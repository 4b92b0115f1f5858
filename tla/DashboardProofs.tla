--------------------------- MODULE DashboardProofs ---------------------------
(***************************************************************************)
(* Machine-checked theorems about Dashboard: any set of scenarios with any *)
(* results, any threshold, any number of verifications at once.            *)
(***************************************************************************)
EXTENDS Dashboard, FiniteSetTheorems, TLAPS

\* One run at most, and none beside a result or without the page.
RunInv ==
    /\ runs = {} \/ \E run \in runs : runs = {run}
    /\ isSimulating <=> runs # {}
    /\ isSimulated => runs = {}
    /\ ~ isSimulated => scenarioData = None
    /\ path # "/" => runs = {} /\ ~ isSimulated

\* One call at most has a panel to answer to, the panel of its own result; and
\* what a call knows of the chain is so.
RequestInv ==
    /\ \A r \in requests :
          /\ r.live => ResultShown /\ panel.verifying /\ r.scenario = scenarioData
          /\ r.answer = "signature" => r.scenario \in confirmed
          /\ r.answer = "unsent" => ~ judgeKey
    /\ \A r, s \in requests : r.live /\ s.live => r = s

\* A signature belongs to the result on display.
PanelInv ==
    panel.txSignature # None => ResultShown /\ (judgeKey => scenarioData \in confirmed)

\* A line that says something of a result is of the one on display, of the active
\* tab, or of a run that has been answered.
Current(line) ==
    \/ line.text \in {"error", "opening"}
    \/ line.scenario \in {scenarioData, activeScenario}
    \/ \E run \in runs : run.stage # 0 /\ run.scenario = line.scenario

FeedInv == \A line \in logs : Current(line)

IInv == TypeOK /\ RunInv /\ RequestInv /\ PanelInv /\ FeedInv

-----------------------------------------------------------------------------
(* Lines and timers *)

LEMMA FeedLinesTyped ==
    /\ Len(FeedLines) = 4
    /\ \A i \in 1..4 : FeedLines[i] \in {FeedLines[j] : j \in 1..Len(FeedLines)}
  BY DEF FeedLines

LEMMA NothingDueTyped == NothingDue \in [Scenarios -> 0..MaxDue]
  BY ScenariosAssumption DEF NothingDue

-----------------------------------------------------------------------------
(* The invariant, action by action *)

LEMMA InitInvariant == Init => IInv
  <1> SUFFICES ASSUME Init PROVE IInv
    OBVIOUS
  <1>1. FreshPanel \in Panels /\ ~ FreshPanel.verifying /\ FreshPanel.txSignature = None
    BY DEF FreshPanel, Panels
  <1>2. TypeOK
    BY <1>1, NothingDueTyped, ScenariosAssumption, ZenonT(30) DEF Init, TypeOK
  <1>3. RunInv /\ RequestInv /\ PanelInv /\ FeedInv
    BY <1>1 DEF Init, RunInv, RequestInv, PanelInv, FeedInv
  <1>4. QED
    BY <1>2, <1>3 DEF IInv

\* What is left when a panel is gone.
LEMMA FreshPanelTyped ==
    FreshPanel \in Panels /\ ~ FreshPanel.verifying /\ FreshPanel.txSignature = None
      /\ ~ FreshPanel.error
  BY DEF FreshPanel, Panels

LEMMA OrphanedRequests ==
    ASSUME TypeOK, RequestInv
    PROVE  /\ Orphaned \subseteq Requests
           /\ \A r \in Orphaned :
                 /\ ~ r.live
                 /\ r.answer = "signature" => r.scenario \in confirmed
                 /\ r.answer = "unsent" => ~ judgeKey
  <1> SUFFICES ASSUME NEW q \in requests
               PROVE  LET r == [q EXCEPT !.live = FALSE]
                      IN  /\ r \in Requests
                          /\ ~ r.live
                          /\ r.answer = "signature" => r.scenario \in confirmed
                          /\ r.answer = "unsent" => ~ judgeKey
    BY Zenon DEF Orphaned
  <1>1. q \in Requests
    BY DEF TypeOK
  <1>2. QED
    BY <1>1 DEF RequestInv, Requests

LEMMA SwitchScenarioInvariant ==
    ASSUME IInv, NEW id \in Scenarios, SwitchScenario(id)
    PROVE  IInv'
  <1>1. TypeOK'
    BY OrphanedRequests, FreshPanelTyped, ScenariosAssumption, ZenonT(30)
    DEF IInv, TypeOK, SwitchScenario, deployment
  <1>2. RunInv'
    BY DEF IInv, RunInv, SwitchScenario
  <1>3. RequestInv' /\ PanelInv'
    BY OrphanedRequests, FreshPanelTyped
    DEF IInv, RequestInv, PanelInv, SwitchScenario, deployment
  <1>4. FeedInv'
    BY DEF FeedInv, SwitchScenario
  <1>5. QED
    BY <1>1, <1>2, <1>3, <1>4 DEF IInv

LEMMA OpenExplorerInvariant == IInv /\ OpenExplorer => IInv'
  <1> SUFFICES ASSUME IInv, OpenExplorer PROVE IInv'
    OBVIOUS
  <1>1. TypeOK'
    BY OrphanedRequests, FreshPanelTyped, NothingDueTyped, ScenariosAssumption,
       ZenonT(30)
    DEF IInv, TypeOK, OpenExplorer, deployment
  <1>2. RunInv'
    BY DEF IInv, RunInv, OpenExplorer
  <1>3. RequestInv' /\ PanelInv'
    BY OrphanedRequests, FreshPanelTyped
    DEF IInv, RequestInv, PanelInv, OpenExplorer, deployment
  <1>4. FeedInv'
    BY DEF FeedInv, OpenExplorer
  <1>5. QED
    BY <1>1, <1>2, <1>3, <1>4 DEF IInv

LEMMA RunSimulationInvariant == IInv /\ RunSimulation => IInv'
  <1> SUFFICES ASSUME IInv, RunSimulation PROVE IInv'
    OBVIOUS
  <1> DEFINE line == Line("start", activeScenario)
             run == [scenario |-> activeScenario, stage |-> 0]
  <1>1. line \in Lines /\ line.scenario = activeScenario
    BY DEF IInv, TypeOK, Lines, Line
  <1>2. run \in Runs
    BY FeedLinesTyped DEF IInv, TypeOK, Runs
  <1>3. runs = {} /\ runs' = {run} /\ logs' = {line}
    BY DEF IInv, RunInv, RunSimulation
  <1>4. due' \in [Scenarios -> 0..MaxDue]
    BY ScenariosAssumption DEF IInv, TypeOK, RunSimulation, OpeningLines
  <1> HIDE DEF line, run
  <1>5. TypeOK'
    BY <1>1, <1>2, <1>3, <1>4, ZenonT(30)
    DEF IInv, TypeOK, RunSimulation, server, deployment
  <1>6. RunInv'
    BY <1>3, ZenonT(30) DEF IInv, RunInv, RunSimulation
  <1>7. RequestInv' /\ PanelInv'
    BY DEF IInv, RequestInv, PanelInv, RunSimulation, ResultShown, server, deployment
  <1>8. FeedInv'
    BY <1>1, <1>3 DEF FeedInv, Current, RunSimulation
  <1>9. QED
    BY <1>5, <1>6, <1>7, <1>8 DEF IInv

LEMMA OpeningLineInvariant ==
    ASSUME IInv, NEW scenario \in Scenarios, OpeningLine(scenario)
    PROVE  IInv'
  <1> DEFINE line == Line("opening", scenario)
  <1>1. line \in Lines /\ line.text = "opening"
    BY DEF Lines, Line
  <1>2. logs' = logs \union {line}
    BY DEF OpeningLine
  <1>3. due' \in [Scenarios -> 0..MaxDue]
    BY ScenariosAssumption DEF IInv, TypeOK, OpeningLine
  <1> HIDE DEF line
  <1>4. TypeOK'
    BY <1>1, <1>2, <1>3, ZenonT(30) DEF IInv, TypeOK, OpeningLine, server, deployment
  <1>5. RunInv'
    BY DEF IInv, RunInv, OpeningLine
  <1>6. RequestInv' /\ PanelInv'
    BY DEF IInv, RequestInv, PanelInv, OpeningLine, ResultShown, server, deployment
  <1>7. FeedInv'
    BY <1>1, <1>2 DEF IInv, FeedInv, Current, OpeningLine
  <1>8. QED
    BY <1>4, <1>5, <1>6, <1>7 DEF IInv

LEMMA SimulationAnsweredInvariant ==
    ASSUME IInv, NEW run \in runs, SimulationAnswered(run)
    PROVE  IInv'
  <1> DEFINE line == Line(FeedLines[1], run.scenario)
             next == [run EXCEPT !.stage = 1]
  <1>1. run \in Runs /\ runs = {run} /\ run.stage = 0
    BY DEF IInv, TypeOK, RunInv, SimulationAnswered
  <1>2. line \in Lines /\ line.scenario = run.scenario
    BY <1>1, FeedLinesTyped DEF Lines, Line, Runs
  <1>3. next \in Runs /\ next.stage # 0 /\ next.scenario = run.scenario
    BY <1>1, FeedLinesTyped DEF Runs
  <1>4. runs' = {next} /\ logs' = logs \union {line}
    BY <1>1 DEF SimulationAnswered
  <1> HIDE DEF line, next
  <1>5. TypeOK'
    BY <1>2, <1>3, <1>4, ZenonT(30)
    DEF IInv, TypeOK, SimulationAnswered, server, deployment
  <1>6. RunInv'
    BY <1>1, <1>4, ZenonT(30) DEF IInv, RunInv, SimulationAnswered
  <1>7. RequestInv' /\ PanelInv'
    BY DEF IInv, RequestInv, PanelInv, SimulationAnswered, ResultShown, server, deployment
  <1>8. FeedInv'
    <2>1. Current(line)'
      BY <1>2, <1>3, <1>4 DEF Current
    <2>2. ASSUME NEW old \in logs PROVE Current(old)'
      BY <1>1 DEF IInv, FeedInv, Current, SimulationAnswered
    <2>3. QED
      BY <1>4, <2>1, <2>2 DEF FeedInv
  <1>9. QED
    BY <1>5, <1>6, <1>7, <1>8 DEF IInv

LEMMA SimulationFailedInvariant ==
    ASSUME IInv, NEW run \in runs, SimulationFailed(run)
    PROVE  IInv'
  <1> DEFINE line == Line("error", run.scenario)
  <1>1. run \in Runs /\ runs = {run} /\ run.stage = 0
    BY DEF IInv, TypeOK, RunInv, SimulationFailed
  <1>2. line \in Lines /\ line.text = "error"
    BY <1>1 DEF Lines, Line, Runs
  <1>3. runs' = {} /\ logs' = logs \union {line}
    BY <1>1 DEF SimulationFailed
  <1> HIDE DEF line
  <1>4. TypeOK'
    BY <1>2, <1>3, ZenonT(30)
    DEF IInv, TypeOK, SimulationFailed, server, deployment
  <1>5. RunInv'
    BY <1>1, <1>3, ZenonT(30) DEF IInv, RunInv, SimulationFailed
  <1>6. RequestInv' /\ PanelInv'
    BY DEF IInv, RequestInv, PanelInv, SimulationFailed, ResultShown, server, deployment
  <1>7. FeedInv'
    <2>1. Current(line)'
      BY <1>2 DEF Current
    <2>2. ASSUME NEW old \in logs PROVE Current(old)'
      BY <1>1 DEF IInv, FeedInv, Current, SimulationFailed
    <2>3. QED
      BY <1>3, <2>1, <2>2 DEF FeedInv
  <1>8. QED
    BY <1>4, <1>5, <1>6, <1>7 DEF IInv

\* What a timer writes: the next line and perhaps the breaker's, of the run's
\* scenario.
LEMMA NextLineWrites ==
    ASSUME IInv, NEW run \in runs, NextLine(run)
    PROVE  \E new \in SUBSET Lines :
              /\ logs' = logs \union new
              /\ \A line \in new :
                    /\ line.scenario = run.scenario
                    /\ line.text = "tripped" => Result[run.scenario].risk_score > CB_THRESHOLD
  <1> DEFINE text == FeedLines[run.stage + 1]
             written == {text} \union
                        (IF text = "verdict" /\ Result[run.scenario].risk_score > CB_THRESHOLD
                         THEN {"tripped"} ELSE {})
             new == {Line(t, run.scenario) : t \in written}
  <1>1. run.stage + 1 \in 1..4 /\ run.scenario \in Scenarios
    BY FeedLinesTyped DEF IInv, TypeOK, NextLine, Runs
  <1>2. /\ text \in {FeedLines[i] : i \in 1..Len(FeedLines)}
        /\ text # "tripped"
    BY <1>1, FeedLinesTyped DEF FeedLines
  <1>3. logs' = logs \union new
    BY DEF NextLine
  <1>4. ASSUME NEW t \in written
        PROVE  /\ Line(t, run.scenario) \in Lines
               /\ Line(t, run.scenario).scenario = run.scenario
               /\ Line(t, run.scenario).text = "tripped"
                     => Result[run.scenario].risk_score > CB_THRESHOLD
    <2>1. t = text \/ (t = "tripped" /\ Result[run.scenario].risk_score > CB_THRESHOLD)
      BY <1>4
    <2> HIDE DEF text
    <2>2. QED
      BY <1>1, <1>2, <2>1 DEF Line, Lines
  <1>5. /\ new \in SUBSET Lines
        /\ \A line \in new :
              /\ line.scenario = run.scenario
              /\ line.text = "tripped" => Result[run.scenario].risk_score > CB_THRESHOLD
    <2> HIDE DEF written
    <2>1. QED
      BY <1>4
  <1> HIDE DEF new
  <1>6. QED
    BY <1>3, <1>5

LEMMA NextLineInvariant ==
    ASSUME IInv, NEW run \in runs, NextLine(run)
    PROVE  IInv'
  <1> DEFINE next == [run EXCEPT !.stage = @ + 1]
  <1>1. run \in Runs /\ runs = {run} /\ run.stage \in 1..2
    BY FeedLinesTyped DEF IInv, TypeOK, RunInv, NextLine, Runs
  <1>2. next \in Runs /\ next.stage # 0 /\ next.scenario = run.scenario
    BY <1>1, FeedLinesTyped DEF Runs
  <1>3. runs' = {next}
    BY <1>1 DEF NextLine
  <1>4. PICK new \in SUBSET Lines :
           /\ logs' = logs \union new
           /\ \A line \in new : line.scenario = run.scenario
    BY NextLineWrites, Zenon
  <1> HIDE DEF next
  <1>5. TypeOK'
    BY <1>2, <1>3, <1>4, ZenonT(30) DEF IInv, TypeOK, NextLine, server, deployment
  <1>6. RunInv'
    BY <1>1, <1>3, ZenonT(30) DEF IInv, RunInv, NextLine
  <1>7. RequestInv' /\ PanelInv'
    BY DEF IInv, RequestInv, PanelInv, NextLine, ResultShown, server, deployment
  <1>8. FeedInv'
    <2>1. ASSUME NEW line \in new PROVE Current(line)'
      BY <1>2, <1>3, <1>4 DEF Current
    <2>2. ASSUME NEW old \in logs PROVE Current(old)'
      BY <1>1, <1>2, <1>3 DEF IInv, FeedInv, Current, NextLine
    <2>3. QED
      BY <1>4, <2>1, <2>2 DEF FeedInv
  <1>9. QED
    BY <1>5, <1>6, <1>7, <1>8 DEF IInv

LEMMA FinishInvariant ==
    ASSUME IInv, NEW run \in runs, Finish(run)
    PROVE  IInv'
  <1> DEFINE line == Line("ready", run.scenario)
  <1>1. run \in Runs /\ runs = {run} /\ run.scenario \in Scenarios /\ ~ isSimulated
    BY DEF IInv, TypeOK, RunInv, Runs
  <1>2. "ready" \in {FeedLines[j] : j \in 1..Len(FeedLines)}
    <2>1. FeedLines[4] = "ready"
      BY DEF FeedLines
    <2>2. QED
      BY <2>1, FeedLinesTyped
  <1>3. line \in Lines /\ line.scenario = run.scenario
    BY <1>1, <1>2 DEF Lines, Line
  <1>4. runs' = {} /\ logs' = logs \union {line}
    BY <1>1 DEF Finish
  <1> HIDE DEF line
  <1>5. TypeOK'
    BY <1>1, <1>3, <1>4, ZenonT(30)
    DEF IInv, TypeOK, Finish, server, deployment
  <1>6. RunInv'
    BY <1>1, <1>4, ZenonT(30) DEF IInv, RunInv, Finish
  <1>7. RequestInv' /\ PanelInv'
    <2>1. ~ ResultShown
      BY <1>1 DEF ResultShown
    <2>2. (\A r \in requests : ~ r.live) /\ panel.txSignature = None
      BY <2>1, Zenon DEF IInv, RequestInv, PanelInv
    <2>3. QED
      BY <2>2, ZenonT(30) DEF IInv, RequestInv, PanelInv, Finish, server, deployment
  <1>8. FeedInv'
    <2>1. Current(line)'
      BY <1>3 DEF Current, Finish
    <2>2. ASSUME NEW old \in logs PROVE Current(old)'
      <3>1. Current(old) /\ old \in Lines
        BY DEF IInv, FeedInv, TypeOK
      <3>2. scenarioData = None /\ old.scenario # None
        BY <3>1, <1>1, ScenariosAssumption DEF IInv, RunInv, Lines
      <3>3. QED
        BY <3>1, <3>2, <1>1 DEF Current, Finish
    <2>3. QED
      BY <1>4, <2>1, <2>2 DEF FeedInv
  <1>9. QED
    BY <1>5, <1>6, <1>7, <1>8 DEF IInv

LEMMA VerifyOnChainInvariant == IInv /\ VerifyOnChain => IInv'
  <1> SUFFICES ASSUME IInv, VerifyOnChain PROVE IInv'
    OBVIOUS
  <1> DEFINE request == [scenario |-> scenarioData, live |-> TRUE, answer |-> None]
             waiting == [FreshPanel EXCEPT !.verifying = TRUE]
  <1>1. ResultShown /\ scenarioData \in Scenarios /\ ~ panel.verifying
    BY DEF VerifyOnChain, ResultShown, IInv, TypeOK
  <1>2. /\ request \in Requests
        /\ request.live
        /\ request.scenario = scenarioData
        /\ request.answer \notin {"unsent", "signature"}
    BY <1>1, ScenariosAssumption DEF Requests
  <1>3. /\ waiting \in Panels
        /\ waiting.verifying
        /\ waiting.txSignature = None
        /\ ~ waiting.error
    BY DEF FreshPanel, Panels
  <1>4. /\ requests' = requests \union {request}
        /\ panel' = waiting
        /\ UNCHANGED <<path, warRoom, confirmed, deployment, proofs>>
    BY DEF VerifyOnChain
  <1> HIDE DEF request, waiting
  <1>5. \A r \in requests : ~ r.live
    BY <1>1, Zenon DEF IInv, RequestInv
  <1>6. TypeOK'
    BY <1>2, <1>3, <1>4, ZenonT(30) DEF IInv, TypeOK, warRoom, deployment
  <1>7. RunInv' /\ FeedInv'
    BY <1>4 DEF IInv, RunInv, FeedInv, Current, warRoom
  <1>8. ResultShown'
    BY <1>1, <1>4 DEF ResultShown, warRoom
  <1>9. RequestInv'
    BY <1>2, <1>3, <1>4, <1>5, <1>8, ZenonT(30)
    DEF IInv, RequestInv, warRoom, deployment
  <1>10. PanelInv'
    BY <1>3, <1>4 DEF PanelInv
  <1>11. QED
    BY <1>6, <1>7, <1>9, <1>10 DEF IInv

\* The server answers one request; the page hears nothing of it yet.
LEMMA ServeInvariant ==
    ASSUME IInv, NEW request \in requests, Serve(request)
    PROVE  IInv'
  <1>1. request \in Requests
    BY DEF IInv, TypeOK
  <1>2. PICK answer \in {"unsent", "signature", "error"} :
           /\ Answered(request, answer)
           /\ confirmed' \in {confirmed, confirmed \union {request.scenario}}
           /\ answer = "signature" => request.scenario \in confirmed'
           /\ answer = "unsent" => ~ judgeKey
    BY DEF Serve
  <1> DEFINE next == [request EXCEPT !.answer = answer]
  <1>3. /\ next \in Requests
        /\ next.scenario = request.scenario
        /\ next.live = request.live
        /\ next.answer = answer
    BY <1>1 DEF Requests
  <1>4. /\ requests' = (requests \ {request}) \union {next}
        /\ confirmed \subseteq confirmed'
        /\ confirmed' \subseteq Scenarios
        /\ UNCHANGED <<path, warRoom, panel, deployment, proofs>>
    BY <1>1, <1>2 DEF Answered, Serve, IInv, TypeOK, Requests
  <1> HIDE DEF next
  <1>5. TypeOK'
    BY <1>3, <1>4, ZenonT(30) DEF IInv, TypeOK, warRoom, deployment
  <1>6. RunInv' /\ FeedInv'
    BY <1>4 DEF IInv, RunInv, FeedInv, Current, warRoom
  <1>7. ResultShown' = ResultShown /\ scenarioData' = scenarioData
    BY <1>4 DEF ResultShown, warRoom
  <1>8. RequestInv'
    <2>1. ASSUME NEW r \in requests'
          PROVE  /\ r.live => ResultShown' /\ panel'.verifying /\ r.scenario = scenarioData'
                 /\ r.answer = "signature" => r.scenario \in confirmed'
                 /\ r.answer = "unsent" => ~ judgeKey'
      <3>1. CASE r = next
        BY <3>1, <1>2, <1>3, <1>4, <1>7, ZenonT(30) DEF IInv, RequestInv, deployment
      <3>2. CASE r \in requests
        BY <3>2, <1>4, <1>7, ZenonT(30) DEF IInv, RequestInv, deployment
      <3>3. QED
        BY <3>1, <3>2, <1>4
    <2>2. ASSUME NEW r \in requests', NEW s \in requests', r.live, s.live
          PROVE  r = s
      BY <2>2, <1>3, <1>4, ZenonT(30) DEF IInv, RequestInv
    <2>3. QED
      BY <2>1, <2>2 DEF RequestInv
  <1>9. PanelInv'
    BY <1>4, <1>7 DEF IInv, PanelInv, deployment
  <1>10. QED
    BY <1>5, <1>6, <1>8, <1>9 DEF IInv

LEMMA PanelAfterTyped ==
    ASSUME NEW answer \in {"unsent", "signature", "error"}
    PROVE  /\ PanelAfter(answer) \in Panels
           /\ ~ PanelAfter(answer).verifying
           /\ PanelAfter(answer).txSignature # None => answer # "error"
  BY DEF PanelAfter, Panels, Signature

LEMMA AnswerArrivesInvariant ==
    ASSUME IInv, NEW request \in requests, AnswerArrives(request)
    PROVE  IInv'
  <1>1. request \in Requests /\ request.answer \in {"unsent", "signature", "error"}
    BY DEF IInv, TypeOK, AnswerArrives, Requests
  <1>2. /\ requests' = requests \ {request}
        /\ panel' = IF request.live THEN PanelAfter(request.answer) ELSE panel
        /\ UNCHANGED <<path, warRoom, confirmed, deployment, proofs>>
    BY DEF AnswerArrives
  <1>3. TypeOK'
    BY <1>1, <1>2, PanelAfterTyped, ZenonT(30) DEF IInv, TypeOK, warRoom, deployment
  <1>4. RunInv' /\ FeedInv'
    BY <1>2 DEF IInv, RunInv, FeedInv, Current, warRoom
  <1>5. ResultShown' = ResultShown /\ scenarioData' = scenarioData
    BY <1>2 DEF ResultShown, warRoom
  <1>6. RequestInv'
    <2>1. CASE request.live
      <3>1. \A r \in requests' : r \in requests /\ ~ r.live
        BY <2>1, <1>2, Zenon DEF IInv, RequestInv
      <3>2. QED
        BY <3>1, <1>2, ZenonT(30) DEF IInv, RequestInv, deployment
    <2>2. CASE ~ request.live
      BY <2>2, <1>2, <1>5, ZenonT(30) DEF IInv, RequestInv, deployment
    <2>3. QED
      BY <2>1, <2>2
  <1>7. PanelInv'
    <2>1. CASE request.live
      <3>1. /\ ResultShown
            /\ request.scenario = scenarioData
            /\ request.answer = "signature" => request.scenario \in confirmed
            /\ request.answer = "unsent" => ~ judgeKey
        BY <2>1, Zenon DEF IInv, RequestInv
      <3>2. QED
        BY <2>1, <3>1, <1>1, <1>2, <1>5, PanelAfterTyped, ZenonT(30)
        DEF PanelInv, deployment
    <2>2. CASE ~ request.live
      BY <2>2, <1>2, <1>5, ZenonT(30) DEF IInv, PanelInv, deployment
    <2>3. QED
      BY <2>1, <2>2
  <1>8. QED
    BY <1>3, <1>4, <1>6, <1>7 DEF IInv

LEMMA NavigationInvariant ==
    ASSUME IInv, OpenWarRoom \/ Loading
    PROVE  IInv'
  <1>1. CASE OpenWarRoom
    <2>1. TypeOK'
      BY <1>1, ZenonT(30) DEF IInv, TypeOK, OpenWarRoom, warRoom, server, deployment
    <2>2. RunInv' /\ FeedInv'
      BY <1>1 DEF IInv, RunInv, FeedInv, Current, OpenWarRoom, warRoom
    <2>3. ~ ResultShown /\ ~ ResultShown'
      BY <1>1 DEF IInv, RunInv, ResultShown, OpenWarRoom, warRoom
    <2>4. RequestInv' /\ PanelInv'
      BY <1>1, <2>3, ZenonT(30)
      DEF IInv, RequestInv, PanelInv, OpenWarRoom, warRoom, server, deployment
    <2>5. QED
      BY <2>1, <2>2, <2>4 DEF IInv
  <1>2. CASE Loading
    <2>1. PICK found \in SUBSET artifacts : LoadProofs(found)
      BY <1>2 DEF Loading
    <2>2. proofs' \in [Scenarios -> {"Loading", "Verified", "Missing"}]
      BY <2>1 DEF LoadProofs
    <2>3. UNCHANGED <<path, warRoom, panel, server>>
      BY <2>1 DEF LoadProofs
    <2>4. TypeOK'
      BY <2>2, <2>3, ZenonT(30) DEF IInv, TypeOK, warRoom, server, deployment
    <2>5. RunInv' /\ FeedInv' /\ RequestInv' /\ PanelInv'
      BY <2>3
      DEF IInv, RunInv, FeedInv, Current, RequestInv, PanelInv, ResultShown, warRoom,
          server, deployment
    <2>6. QED
      BY <2>4, <2>5 DEF IInv
  <1>3. QED
    BY <1>1, <1>2

LEMMA StutterInvariant == IInv /\ UNCHANGED vars => IInv'
  <1> SUFFICES ASSUME IInv, UNCHANGED vars PROVE IInv'
    OBVIOUS
  <1>1. TypeOK'
    BY ZenonT(30) DEF IInv, TypeOK, vars, warRoom, server, deployment
  <1>2. RunInv' /\ FeedInv' /\ RequestInv' /\ PanelInv'
    BY DEF IInv, RunInv, FeedInv, Current, RequestInv, PanelInv, ResultShown, vars,
       warRoom, server, deployment
  <1>3. QED
    BY <1>1, <1>2 DEF IInv

LEMMA StepInvariant == IInv /\ [Next]_vars => IInv'
  <1> SUFFICES ASSUME IInv, [Next]_vars PROVE IInv'
    OBVIOUS
  <1>1. CASE Visitor
    BY <1>1, SwitchScenarioInvariant, RunSimulationInvariant, VerifyOnChainInvariant,
       OpenExplorerInvariant, NavigationInvariant DEF Visitor
  <1>2. CASE RunProgress
    BY <1>2, SimulationAnsweredInvariant, SimulationFailedInvariant, NextLineInvariant,
       FinishInvariant DEF RunProgress, RunStep
  <1>3. CASE Opening \/ Server \/ Arrival
    BY <1>3, OpeningLineInvariant, ServeInvariant, AnswerArrivesInvariant
    DEF Opening, Server, Arrival
  <1>4. CASE Loading
    BY <1>4, NavigationInvariant
  <1>5. CASE UNCHANGED vars
    BY <1>5, StutterInvariant
  <1>6. QED
    BY <1>1, <1>2, <1>3, <1>4, <1>5 DEF Next

LEMMA SpecInvariant == Spec => []IInv
  BY InitInvariant, StepInvariant, PTL DEF Spec

-----------------------------------------------------------------------------
(* The feed tells of one scenario *)

\* Every line but the opening ones is about s, and the breaker's is there only if
\* s trips it.
Tells(feed, s) ==
    \A line \in feed :
        /\ line.text # "opening" => line.scenario = s
        /\ line.text = "tripped" => Result[s].risk_score > CB_THRESHOLD

\* While a run is in progress the feed is its own, whatever tab is active, and
\* later it is that of the result.
StoryInv ==
    /\ \A run \in runs : Tells(logs, run.scenario)
    /\ isSimulated => Tells(logs, scenarioData)

LEMMA TellsNothing == \A s : Tells({}, s)
  BY DEF Tells

LEMMA TellsLine ==
    ASSUME NEW s, NEW text, NEW feed, Tells(feed, s), text # "tripped"
    PROVE  Tells({Line(text, s)}, s) /\ Tells(feed \union {Line(text, s)}, s)
  BY DEF Tells, Line

\* What a step of a run writes is of the scenario it was started for.
LEMMA RunTells ==
    ASSUME IInv, StoryInv, NEW run \in runs, RunStep(run)
    PROVE  Tells(logs, run.scenario)'
  <1> DEFINE s == run.scenario
  <1>1. Tells(logs, s)
    BY DEF StoryInv
  <1>2. CASE SimulationAnswered(run)
    <2>1. FeedLines[1] # "tripped"
      BY DEF FeedLines
    <2>2. QED
      BY <1>1, <1>2, <2>1, TellsLine DEF SimulationAnswered, Tells
  <1>3. CASE SimulationFailed(run)
    BY <1>1, <1>3, TellsLine DEF SimulationFailed, Tells
  <1>4. CASE NextLine(run)
    <2>1. PICK new \in SUBSET Lines :
             /\ logs' = logs \union new
             /\ \A line \in new :
                   /\ line.scenario = s
                   /\ line.text = "tripped" => Result[s].risk_score > CB_THRESHOLD
      BY <1>4, NextLineWrites, Zenon
    <2>2. QED
      BY <1>1, <2>1 DEF Tells
  <1>5. CASE Finish(run)
    BY <1>1, <1>5, TellsLine DEF Finish, Tells
  <1>6. QED
    BY <1>2, <1>3, <1>4, <1>5 DEF RunStep

LEMMA StoryStepInvariant == IInv /\ StoryInv /\ [Next]_vars => StoryInv'
  <1> SUFFICES ASSUME IInv, StoryInv, [Next]_vars PROVE StoryInv'
    OBVIOUS
  <1>1. CASE RunSimulation
    <2>1. runs' = {[scenario |-> activeScenario, stage |-> 0]} /\ ~ isSimulated'
      BY <1>1 DEF RunSimulation, IInv, RunInv
    <2>2. Tells(logs', activeScenario)
      BY <1>1, TellsNothing, TellsLine DEF RunSimulation
    <2>3. QED
      BY <2>1, <2>2 DEF StoryInv, Tells
  <1>2. CASE OpenExplorer \/ \E id \in Scenarios : SwitchScenario(id)
    <2>1. logs' = {}
      BY <1>2 DEF OpenExplorer, SwitchScenario
    <2>2. QED
      BY <2>1 DEF StoryInv, Tells
  <1>3. CASE RunProgress
    <2>1. PICK run \in runs : RunStep(run)
      BY <1>3 DEF RunProgress
    <2>2. runs = {run} /\ ~ isSimulated
      BY DEF IInv, RunInv
    <2>3. Tells(logs, run.scenario)'
      BY <2>1, RunTells
    <2>4. \A next \in runs' : next.scenario = run.scenario
      <3>1. run \in Runs
        BY DEF IInv, TypeOK
      <3>2. QED
        BY <2>1, <2>2, <3>1
        DEF RunStep, SimulationAnswered, SimulationFailed, NextLine, Finish, Runs
    <2>5. isSimulated' => scenarioData' = run.scenario
      BY <2>1, <2>2 DEF RunStep, SimulationAnswered, SimulationFailed, NextLine, Finish
    <2>6. QED
      BY <2>3, <2>4, <2>5 DEF StoryInv, Tells
  <1>4. CASE Opening
    <2>1. PICK scenario \in Scenarios : OpeningLine(scenario)
      BY <1>4 DEF Opening
    <2>2. /\ logs' = logs \union {Line("opening", scenario)}
          /\ UNCHANGED <<runs, isSimulated, scenarioData>>
      BY <2>1 DEF OpeningLine
    <2>3. \A s : Tells(logs, s) => Tells(logs', s)
      BY <2>2 DEF Tells, Line
    <2>4. QED
      BY <2>2, <2>3 DEF StoryInv, Tells
  <1>5. CASE UNCHANGED warRoom
    BY <1>5 DEF warRoom, StoryInv, Tells
  <1>6. QED
    BY <1>1, <1>2, <1>3, <1>4, <1>5
    DEF Next, Visitor, VerifyOnChain, OpenWarRoom, Server, Serve, Arrival, AnswerArrives,
        Loading, LoadProofs, vars

-----------------------------------------------------------------------------

\* The page's variables hold what it can hold.
THEOREM TypeCorrect == Spec => []TypeOK
  <1>1. IInv => TypeOK
    BY DEF IInv
  <1>2. QED
    BY <1>1, SpecInvariant, PTL

\* One run at most is in progress, and none under a result on display.
THEOREM RunsAreSingle == Spec => []OneRunAtATime
  <1>1. IInv => OneRunAtATime
    <2> SUFFICES ASSUME IInv PROVE Cardinality(runs) <= 1
      BY DEF IInv, RunInv, OneRunAtATime
    <2>1. CASE runs = {}
      BY <2>1, FS_EmptySet
    <2>2. ASSUME NEW run \in runs, runs = {run} PROVE Cardinality(runs) <= 1
      BY <2>2, FS_Singleton
    <2>3. QED
      BY <2>1, <2>2 DEF IInv, RunInv
  <1>2. QED
    BY <1>1, SpecInvariant, PTL

\* Whatever fails, is late or is clicked, what the feed says of a result is of the
\* one on display, the run in progress or the active tab; a failed run's message
\* and opening lines are all that can be left in another tab's feed.
THEOREM FeedsAreCurrent == Spec => []FeedIsCurrent
  <1>1. IInv => FeedIsCurrent
    BY Zenon DEF IInv, FeedInv, Current, FeedIsCurrent
  <1>2. QED
    BY <1>1, SpecInvariant, PTL

\* "Verified On-Chain" is said of the result on display, and with a key only of a
\* transaction the chain confirmed, however late and in whatever order answers come.
THEOREM VerifiedAreConfirmed == Spec => []VerifiedIsConfirmed
  <1>1. IInv => VerifiedIsConfirmed
    BY DEF IInv, PanelInv, VerifiedIsConfirmed, PanelButton
  <1>2. QED
    BY <1>1, SpecInvariant, PTL

\* Whatever tabs are clicked while a run is in progress, the parts the page works
\* out from the result on display (the header, the cards, the feed; not the tab's
\* fixed description) agree about the breaker - for results like the shipped ones,
\* none of which lies between the two thresholds.
THEOREM VerdictsAgree ==
    ASSUME ColoursAgree
    PROVE  Spec => []CardsAgree
  <1>1. Init => StoryInv
    BY TellsNothing DEF Init, StoryInv
  <1>2. IInv /\ StoryInv => CardsAgree
    <2> SUFFICES ASSUME IInv, StoryInv, ResultShown PROVE CardsAgree
      BY DEF CardsAgree
    <2> DEFINE trips == Shown.risk_score > CB_THRESHOLD
    <2>1. scenarioData \in Scenarios /\ scenarioData # None
      BY DEF IInv, TypeOK, ResultShown
    <2>2. CbActive <=> trips
      BY <2>1 DEF CbActive
    <2>3. /\ trips <=> HeaderStatus = "EMERGENCY"
          /\ trips <=> HealthStatus = "CIRCUIT BREAKER"
      BY <2>2 DEF HeaderStatus, HealthStatus
    <2>4. /\ trips <=> "Circuit breaker activated" \in TimelineEvents
          /\ trips <=> Banner = "Circuit Breaker Activated"
      BY DEF TimelineEvents, Banner
    <2>5. trips <=> SummaryRisk = "text-danger"
      BY <2>1, ColoursAgree DEF ColoursAgree, SummaryRisk, Shown
    <2>6. \A line \in logs :
             /\ line.text # "opening" => line.scenario = scenarioData
             /\ line.text = "tripped" => trips
      BY DEF StoryInv, ResultShown, Tells, Shown
    <2>7. QED
      BY <2>3, <2>4, <2>5, <2>6 DEF CardsAgree
  <1>3. QED
    BY SpecInvariant, StoryStepInvariant, <1>1, <1>2, PTL DEF Spec
=============================================================================
