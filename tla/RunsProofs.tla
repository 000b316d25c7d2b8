----------------------------- MODULE RunsProofs ------------------------------
(***************************************************************************)
(* More theorems about the controllers of MCControllers, for every value   *)
(* of the bounds: an attempt of SWE-bench and the Goal Plus search in it,  *)
(* OpenEvolve's plain lanes, its batch and a comparison run.  A section    *)
(* per part gives its inductive invariant (its conjuncts are in the part's *)
(* own module) and shows that its steps keep it; the last section carries  *)
(* them over to Spec.                                                      *)
(***************************************************************************)
EXTENDS MCControllers, Sequences, WellFoundedInduction, TLAPS

-----------------------------------------------------------------------------
(* SWE-bench: one attempt, its container and its official evaluation       *)
(* (SweAttempt). Here v1 is gp, v2 is retain, v3 is blocked, v4 is disk,   *)
(* v5 is mem, v6 is network, v7 is bridge, v8 is box, v9 is open, v10 is   *)
(* agent, v11 is known, v12 is patch, v13 is torn, v14 is closed, v15 is   *)
(* exported, v16 is raised, v17 is pc, v18 is asked, v19 is runs.          *)

SweInv ==
  /\ Swe!TypeOK /\ Swe!FreshInv /\ Swe!RunningInv /\ Swe!AgentInv /\ Swe!PatchInv
       /\ Swe!IsolationInv
  /\ Swe!ReportInv

\* execute_campaign and _run_agent up to the Agent process.
SweSettingStep ==
  \/ Swe!Execute \/ Swe!AgentNetwork \/ Swe!RouteRuntime \/ Swe!CreateContainer
  \/ Swe!RecordContainer \/ Swe!ConnectSetup \/ Swe!InitializeContainer \/ Swe!DisconnectSetup
  \/ Swe!VerifyAndStart
\* The Agent, its end, closeout and patch.
SweWorkingStep ==
  \/ Swe!AgentEnds \/ Swe!AgentReturns \/ Swe!TimeOut \/ Swe!Closeout
  \/ Swe!ExportState \/ Swe!TakePatch
\* _run_agent's finally block.
SweEndingStep ==
  \/ Swe!Dispose \/ Swe!Release \/ Swe!SaveAttempt
\* The result and the official evaluation.
SweJudgingStep ==
  \/ Swe!AgentResult \/ Swe!CheckIsolation \/ Swe!ClaimEvaluation \/ Swe!Evaluate
  \/ Swe!Verdict \/ Swe!Finish
\* Interrupts and kills.
SweBreakingStep ==
  \/ Swe!Interrupt \/ Swe!Kill

LEMMA SweGroups ==
  ASSUME Swe!Next
  PROVE  SweSettingStep \/ SweWorkingStep \/ SweEndingStep \/ SweJudgingStep \/ SweBreakingStep
  BY DEF Swe!Next, SweSettingStep, SweWorkingStep, SweEndingStep, SweJudgingStep, SweBreakingStep

LEMMA SweInitInv == Swe!Init => SweInv
<1> SUFFICES ASSUME Swe!Init PROVE SweInv
  OBVIOUS
<1> USE DEF Swe!Init, Swe!Prepared
<1>1. Swe!TypeOK
  <2>1. /\ v1 \in BOOLEAN /\ v2 \in BOOLEAN /\ v3 \in BOOLEAN
        /\ v6 \in BOOLEAN /\ v7 \in BOOLEAN /\ v9 \in BOOLEAN
    OBVIOUS
  <2>2. /\ v10 \in BOOLEAN /\ v11 \in BOOLEAN /\ v13 \in BOOLEAN
        /\ v14 \in BOOLEAN /\ v15 \in BOOLEAN
    OBVIOUS
  <2>3. v4 \in Swe!Manifest /\ v5 \in Swe!Manifest /\ (v10 => v8 = "running")
    BY DEF Swe!Manifest
  <2> QED BY <2>1, <2>2, <2>3 DEF Swe!TypeOK
<1>2. Swe!FreshInv /\ Swe!RunningInv /\ Swe!PatchInv
  BY DEF Swe!FreshInv, Swe!RunningInv, Swe!PatchInv
<1>3. Swe!AgentInv
  BY DEF Swe!AgentInv, Swe!Setup, Swe!Working
<1>4. Swe!IsolationInv /\ Swe!ReportInv
  BY DEF Swe!IsolationInv, Swe!ReportInv, Swe!Setup, Swe!Working, Swe!Ending
<1> QED BY <1>1, <1>2, <1>3, <1>4 DEF SweInv

\* The manifest after the official call was claimed.
LEMMA SweClaimed ==
  ASSUME NEW m \in Swe!Manifest
  PROVE  LET n == [m EXCEPT !.calls = 1, !.evaluation = "running"]
         IN /\ n \in Swe!Manifest /\ n.state = m.state /\ (n.isolated <=> m.isolated)
            /\ n.calls = 1 /\ n.evaluation = "running"
<1> DEFINE c == [m EXCEPT !.calls = 1]
<1>1. c \in Swe!Manifest /\ c.state = m.state /\ (c.isolated <=> m.isolated) /\ c.calls = 1
  BY DEF Swe!Manifest
<1> HIDE DEF c
<1> DEFINE n == [c EXCEPT !.evaluation = "running"]
<1>2. /\ n \in Swe!Manifest /\ n.state = c.state /\ (n.isolated <=> c.isolated)
      /\ n.calls = c.calls /\ n.evaluation = "running"
  BY <1>1 DEF Swe!Manifest
<1> QED BY <1>1, <1>2 DEF c

LEMMA SweSettingKeeps == ASSUME SweInv, SweSettingStep PROVE SweInv'
<1> USE DEF SweInv, Swe!FreshInv, Swe!RunningInv, Swe!AgentInv, Swe!PatchInv, Swe!IsolationInv,
       Swe!ReportInv, Swe!Setup, Swe!Working, Swe!Ending, Swe!Closing, Swe!Goto, Swe!Raise,
       Swe!config, Swe!docker, Swe!result
<1>1. CASE Swe!Execute
  <2>1. Swe!TypeOK'
    <3>1. v11' \in BOOLEAN
      BY <1>1 DEF Swe!TypeOK, Swe!Execute, Swe!Manifest
    <3>2. v5' \in Swe!Manifest
      BY <1>1 DEF Swe!TypeOK, Swe!Execute, Swe!Manifest
    <3> QED BY <1>1, <3>1, <3>2 DEF Swe!TypeOK, Swe!Execute, Swe!Manifest
  <2>2. Swe!FreshInv' /\ Swe!RunningInv'
    BY <1>1, <2>1 DEF Swe!TypeOK, Swe!Execute, Swe!Manifest
  <2>3. Swe!AgentInv' /\ Swe!PatchInv'
    BY <1>1, <2>1 DEF Swe!TypeOK, Swe!Execute, Swe!Manifest
  <2>4. Swe!IsolationInv' /\ Swe!ReportInv'
    BY <1>1, <2>1 DEF Swe!TypeOK, Swe!Execute, Swe!Manifest
  <2> QED BY <2>1, <2>2, <2>3, <2>4
<1>2. CASE Swe!AgentNetwork
  <2>1. Swe!TypeOK'
    <3>1. v6' \in BOOLEAN
      BY <1>2 DEF Swe!TypeOK, Swe!AgentNetwork
    <3> QED BY <1>2, <3>1 DEF Swe!TypeOK, Swe!AgentNetwork
  <2>2. Swe!FreshInv' /\ Swe!RunningInv'
    BY <1>2, <2>1 DEF Swe!TypeOK, Swe!AgentNetwork
  <2>3. Swe!AgentInv' /\ Swe!PatchInv'
    BY <1>2, <2>1 DEF Swe!TypeOK, Swe!AgentNetwork
  <2>4. Swe!IsolationInv' /\ Swe!ReportInv'
    BY <1>2, <2>1 DEF Swe!TypeOK, Swe!AgentNetwork
  <2> QED BY <2>1, <2>2, <2>3, <2>4
<1>3. CASE Swe!RouteRuntime
  <2>1. Swe!TypeOK'
    <3>1. v7' \in BOOLEAN
      BY <1>3 DEF Swe!TypeOK, Swe!RouteRuntime
    <3> QED BY <1>3, <3>1 DEF Swe!TypeOK, Swe!RouteRuntime
  <2>2. Swe!FreshInv' /\ Swe!RunningInv'
    BY <1>3, <2>1 DEF Swe!TypeOK, Swe!RouteRuntime
  <2>3. Swe!AgentInv' /\ Swe!PatchInv'
    BY <1>3, <2>1 DEF Swe!TypeOK, Swe!RouteRuntime
  <2>4. Swe!IsolationInv' /\ Swe!ReportInv'
    BY <1>3, <2>1 DEF Swe!TypeOK, Swe!RouteRuntime
  <2> QED BY <2>1, <2>2, <2>3, <2>4
<1>4. CASE Swe!CreateContainer
  <2>1. Swe!TypeOK'
    <3>1. v9' \in BOOLEAN
      BY <1>4 DEF Swe!TypeOK, Swe!CreateContainer
    <3>2. v11' \in BOOLEAN
      BY <1>4 DEF Swe!TypeOK, Swe!CreateContainer
    <3>3. (v10 => v8 = "running")'
      BY <1>4 DEF Swe!TypeOK, Swe!CreateContainer
    <3> QED BY <1>4, <3>1, <3>2, <3>3 DEF Swe!TypeOK, Swe!CreateContainer
  <2>2. Swe!FreshInv' /\ Swe!RunningInv'
    BY <1>4, <2>1 DEF Swe!TypeOK, Swe!CreateContainer
  <2>3. Swe!AgentInv' /\ Swe!PatchInv'
    BY <1>4, <2>1 DEF Swe!TypeOK, Swe!CreateContainer
  <2>4. Swe!IsolationInv' /\ Swe!ReportInv'
    BY <1>4, <2>1 DEF Swe!TypeOK, Swe!CreateContainer
  <2> QED BY <2>1, <2>2, <2>3, <2>4
<1>5. CASE Swe!RecordContainer
  <2>1. Swe!TypeOK'
    BY <1>5 DEF Swe!TypeOK, Swe!RecordContainer, Swe!Goto, Swe!Manifest
  <2>2. Swe!FreshInv' /\ Swe!RunningInv'
    BY <1>5, <2>1 DEF Swe!TypeOK, Swe!RecordContainer, Swe!Goto, Swe!Manifest
  <2>3. Swe!AgentInv' /\ Swe!PatchInv'
    BY <1>5, <2>1 DEF Swe!TypeOK, Swe!RecordContainer, Swe!Goto, Swe!Manifest
  <2>4. Swe!IsolationInv' /\ Swe!ReportInv'
    BY <1>5, <2>1 DEF Swe!TypeOK, Swe!RecordContainer, Swe!Goto, Swe!Manifest
  <2> QED BY <2>1, <2>2, <2>3, <2>4
<1>6. CASE Swe!ConnectSetup
  <2>1. Swe!TypeOK'
    <3>1. v9' \in BOOLEAN
      BY <1>6 DEF Swe!TypeOK, Swe!ConnectSetup
    <3> QED BY <1>6, <3>1 DEF Swe!TypeOK, Swe!ConnectSetup
  <2>2. Swe!FreshInv' /\ Swe!RunningInv'
    BY <1>6, <2>1 DEF Swe!TypeOK, Swe!ConnectSetup
  <2>3. Swe!AgentInv' /\ Swe!PatchInv'
    BY <1>6, <2>1 DEF Swe!TypeOK, Swe!ConnectSetup
  <2>4. Swe!IsolationInv' /\ Swe!ReportInv'
    BY <1>6, <2>1 DEF Swe!TypeOK, Swe!ConnectSetup
  <2> QED BY <2>1, <2>2, <2>3, <2>4
<1>7. CASE Swe!InitializeContainer
  <2>1. Swe!TypeOK'
    BY <1>7 DEF Swe!TypeOK, Swe!InitializeContainer
  <2>2. Swe!FreshInv' /\ Swe!RunningInv'
    BY <1>7, <2>1 DEF Swe!TypeOK, Swe!InitializeContainer
  <2>3. Swe!AgentInv' /\ Swe!PatchInv'
    BY <1>7, <2>1 DEF Swe!TypeOK, Swe!InitializeContainer
  <2>4. Swe!IsolationInv' /\ Swe!ReportInv'
    BY <1>7, <2>1 DEF Swe!TypeOK, Swe!InitializeContainer
  <2> QED BY <2>1, <2>2, <2>3, <2>4
<1>8. CASE Swe!DisconnectSetup
  <2>1. Swe!TypeOK'
    <3>1. v9' \in BOOLEAN
      BY <1>8 DEF Swe!TypeOK, Swe!DisconnectSetup
    <3> QED BY <1>8, <3>1 DEF Swe!TypeOK, Swe!DisconnectSetup
  <2>2. Swe!FreshInv' /\ Swe!RunningInv'
    BY <1>8, <2>1 DEF Swe!TypeOK, Swe!DisconnectSetup
  <2>3. Swe!AgentInv' /\ Swe!PatchInv'
    BY <1>8, <2>1 DEF Swe!TypeOK, Swe!DisconnectSetup
  <2>4. Swe!IsolationInv' /\ Swe!ReportInv'
    BY <1>8, <2>1 DEF Swe!TypeOK, Swe!DisconnectSetup
  <2> QED BY <2>1, <2>2, <2>3, <2>4
<1>9. CASE Swe!VerifyAndStart
  <2>1. Swe!TypeOK'
    <3>1. v10' \in BOOLEAN
      BY <1>9 DEF Swe!TypeOK, Swe!VerifyAndStart
    <3>2. (v10 => v8 = "running")'
      BY <1>9 DEF Swe!TypeOK, Swe!VerifyAndStart
    <3> QED BY <1>9, <3>1, <3>2 DEF Swe!TypeOK, Swe!VerifyAndStart
  <2>2. Swe!FreshInv' /\ Swe!RunningInv'
    BY <1>9, <2>1 DEF Swe!TypeOK, Swe!VerifyAndStart
  <2>3. Swe!AgentInv' /\ Swe!PatchInv'
    BY <1>9, <2>1 DEF Swe!TypeOK, Swe!VerifyAndStart
  <2>4. Swe!IsolationInv' /\ Swe!ReportInv'
    BY <1>9, <2>1 DEF Swe!TypeOK, Swe!VerifyAndStart
  <2> QED BY <2>1, <2>2, <2>3, <2>4
<1> QED BY <1>1, <1>2, <1>3, <1>4, <1>5, <1>6, <1>7, <1>8, <1>9 DEF SweSettingStep

LEMMA SweWorkingKeeps == ASSUME SweInv, SweWorkingStep PROVE SweInv'
<1> USE DEF SweInv, Swe!FreshInv, Swe!RunningInv, Swe!AgentInv, Swe!PatchInv, Swe!IsolationInv,
       Swe!ReportInv, Swe!Setup, Swe!Working, Swe!Ending, Swe!Closing, Swe!Goto, Swe!Raise,
       Swe!config, Swe!docker, Swe!result
<1>1. CASE Swe!AgentEnds
  <2>1. Swe!TypeOK'
    <3>1. v10' \in BOOLEAN
      BY <1>1 DEF Swe!TypeOK, Swe!AgentEnds
    <3>2. (v10 => v8 = "running")'
      BY <1>1 DEF Swe!TypeOK, Swe!AgentEnds
    <3> QED BY <1>1, <3>1, <3>2 DEF Swe!TypeOK, Swe!AgentEnds
  <2>2. Swe!FreshInv' /\ Swe!RunningInv'
    BY <1>1, <2>1 DEF Swe!TypeOK, Swe!AgentEnds
  <2>3. Swe!AgentInv' /\ Swe!PatchInv'
    BY <1>1, <2>1 DEF Swe!TypeOK, Swe!AgentEnds
  <2>4. Swe!IsolationInv' /\ Swe!ReportInv'
    BY <1>1, <2>1 DEF Swe!TypeOK, Swe!AgentEnds
  <2> QED BY <2>1, <2>2, <2>3, <2>4
<1>2. CASE Swe!AgentReturns
  <2>1. Swe!TypeOK'
    BY <1>2 DEF Swe!TypeOK, Swe!AgentReturns, Swe!AfterAgent
  <2>2. Swe!FreshInv' /\ Swe!RunningInv'
    BY <1>2, <2>1 DEF Swe!TypeOK, Swe!AgentReturns, Swe!AfterAgent
  <2>3. Swe!AgentInv' /\ Swe!PatchInv'
    BY <1>2, <2>1 DEF Swe!TypeOK, Swe!AgentReturns, Swe!AfterAgent
  <2>4. Swe!IsolationInv' /\ Swe!ReportInv'
    BY <1>2, <2>1 DEF Swe!TypeOK, Swe!AgentReturns, Swe!AfterAgent
  <2> QED BY <2>1, <2>2, <2>3, <2>4
<1>3. CASE Swe!TimeOut
  <2>1. Swe!TypeOK'
    <3>1. v10' \in BOOLEAN
      BY <1>3 DEF Swe!TypeOK, Swe!TimeOut, Swe!AfterAgent
    <3>2. (v10 => v8 = "running")'
      BY <1>3 DEF Swe!TypeOK, Swe!TimeOut, Swe!AfterAgent
    <3> QED BY <1>3, <3>1, <3>2 DEF Swe!TypeOK, Swe!TimeOut, Swe!AfterAgent
  <2>2. Swe!FreshInv' /\ Swe!RunningInv'
    BY <1>3, <2>1 DEF Swe!TypeOK, Swe!TimeOut, Swe!AfterAgent
  <2>3. Swe!AgentInv' /\ Swe!PatchInv'
    BY <1>3, <2>1 DEF Swe!TypeOK, Swe!TimeOut, Swe!AfterAgent
  <2>4. Swe!IsolationInv' /\ Swe!ReportInv'
    BY <1>3, <2>1 DEF Swe!TypeOK, Swe!TimeOut, Swe!AfterAgent
  <2> QED BY <2>1, <2>2, <2>3, <2>4
<1>4. CASE Swe!Closeout
  <2>1. Swe!TypeOK'
    <3>1. v14' \in BOOLEAN
      BY <1>4 DEF Swe!TypeOK, Swe!Closeout
    <3> QED BY <1>4, <3>1 DEF Swe!TypeOK, Swe!Closeout
  <2>2. Swe!FreshInv' /\ Swe!RunningInv'
    BY <1>4, <2>1 DEF Swe!TypeOK, Swe!Closeout
  <2>3. Swe!AgentInv' /\ Swe!PatchInv'
    BY <1>4, <2>1 DEF Swe!TypeOK, Swe!Closeout
  <2>4. Swe!IsolationInv' /\ Swe!ReportInv'
    BY <1>4, <2>1 DEF Swe!TypeOK, Swe!Closeout
  <2> QED BY <2>1, <2>2, <2>3, <2>4
<1>5. CASE Swe!ExportState
  <2>1. Swe!TypeOK'
    <3>1. v15' \in BOOLEAN
      BY <1>5 DEF Swe!TypeOK, Swe!ExportState
    <3> QED BY <1>5, <3>1 DEF Swe!TypeOK, Swe!ExportState
  <2>2. Swe!FreshInv' /\ Swe!RunningInv'
    BY <1>5, <2>1 DEF Swe!TypeOK, Swe!ExportState
  <2>3. Swe!AgentInv' /\ Swe!PatchInv'
    BY <1>5, <2>1 DEF Swe!TypeOK, Swe!ExportState
  <2>4. Swe!IsolationInv' /\ Swe!ReportInv'
    BY <1>5, <2>1 DEF Swe!TypeOK, Swe!ExportState
  <2> QED BY <2>1, <2>2, <2>3, <2>4
<1>6. CASE Swe!TakePatch
  <2>1. Swe!TypeOK'
    <3>1. v13' \in BOOLEAN
      BY <1>6 DEF Swe!TypeOK, Swe!TakePatch
    <3> QED BY <1>6, <3>1 DEF Swe!TypeOK, Swe!TakePatch
  <2>2. Swe!FreshInv' /\ Swe!RunningInv'
    BY <1>6, <2>1 DEF Swe!TypeOK, Swe!TakePatch
  <2>3. Swe!AgentInv' /\ Swe!PatchInv'
    BY <1>6, <2>1 DEF Swe!TypeOK, Swe!TakePatch
  <2>4. Swe!IsolationInv' /\ Swe!ReportInv'
    BY <1>6, <2>1 DEF Swe!TypeOK, Swe!TakePatch
  <2> QED BY <2>1, <2>2, <2>3, <2>4
<1> QED BY <1>1, <1>2, <1>3, <1>4, <1>5, <1>6 DEF SweWorkingStep

LEMMA SweEndingKeeps == ASSUME SweInv, SweEndingStep PROVE SweInv'
<1> USE DEF SweInv, Swe!FreshInv, Swe!RunningInv, Swe!AgentInv, Swe!PatchInv, Swe!IsolationInv,
       Swe!ReportInv, Swe!Setup, Swe!Working, Swe!Ending, Swe!Closing, Swe!Goto, Swe!Raise,
       Swe!config, Swe!docker, Swe!result
<1>1. CASE Swe!Dispose
  <2>1. /\ UNCHANGED <<v1, v2, v3, v4, v6, v9, v7, v11>>
        /\ UNCHANGED <<v12, v13, v14, v15, v16, v18, v19>>
        /\ v17 = "dispose" /\ v17' = "release"
    BY <1>1 DEF Swe!Dispose
  <2>2. CASE ~v11
    <3>1. v5' = v5 /\ v8' = v8 /\ (v10' = v10)
      BY <1>1, <2>2 DEF Swe!Dispose
    <3>2. Swe!TypeOK'
      <4>1. (v10 => v8 = "running")'
        BY <3>1 DEF Swe!TypeOK
      <4>2. v10 \in BOOLEAN /\ v8 \in {"none", "created", "running", "stopped"}
        BY DEF Swe!TypeOK
      <4>3. v10' \in BOOLEAN
        BY <3>1, <4>2, Zenon
      <4>4. (v8 \in {"none", "created", "running", "stopped"})'
        BY <3>1, <4>2
      <4> QED BY <2>1, <3>1, <4>1, <4>3, <4>4 DEF Swe!TypeOK
    <3> QED BY <1>1, <3>1, <3>2 DEF Swe!TypeOK, Swe!Dispose
  <2>3. CASE v11
    <3>1. PICK done \in BOOLEAN, seen \in BOOLEAN :
            /\ seen => done \/ (v2 /\ v8 = "stopped")
            /\ v8' = IF ~done THEN v8 ELSE IF v2 THEN "stopped" ELSE "none"
            /\ v10' = (v10 /\ ~done)
            /\ v5' = [v5 EXCEPT !.agent = IF v16 = "error" THEN "failed" ELSE "finalizing",
                                  !.isolated = seen]
      BY <1>1, <2>3 DEF Swe!Dispose, Swe!Isolated
    <3>2. /\ v5' \in Swe!Manifest /\ v5'.state = v5.state /\ (v5'.isolated <=> seen)
          /\ v5'.calls = v5.calls /\ v5'.evaluation = v5.evaluation
      <4> DEFINE a == IF v16 = "error" THEN "failed" ELSE "finalizing"
      <4>1. v5 \in Swe!Manifest /\ a \in {"failed", "finalizing"} /\ seen \in BOOLEAN
        BY DEF Swe!TypeOK
      <4>2. v5' = [v5 EXCEPT !.agent = a, !.isolated = seen]
        BY <3>1
      <4> HIDE DEF a, SweInv
      <4> QED BY ONLY <4>1, <4>2 DEF Swe!Manifest
    <3>3. (v10' => v10) /\ (v10' => v8' = v8 /\ ~seen)
      BY <3>1 DEF Swe!TypeOK
    <3>4. seen => v8' \in {"none", "stopped"} /\ ~v10'
      BY <3>1 DEF Swe!TypeOK
    <3>5. Swe!TypeOK'
      <4>1. (v10 => v8 = "running")' /\ (v8 \in {"none", "created", "running", "stopped"})'
        BY <3>1, <3>3 DEF Swe!TypeOK
      <4>2. v10' \in BOOLEAN
        <5>1. v10' = (v10 /\ ~done)
          BY <3>1
        <5>2. (v10 /\ ~done) \in BOOLEAN
          OBVIOUS
        <5> QED BY <5>1, <5>2
      <4> QED BY <2>1, <3>2, <4>1, <4>2 DEF Swe!TypeOK
    <3>6. Swe!FreshInv' /\ Swe!RunningInv'
      BY <1>1, <3>2 DEF Swe!Dispose
    <3>7. Swe!AgentInv' /\ Swe!PatchInv'
      BY <1>1, <2>3, <3>2, <3>3 DEF Swe!Dispose
    <3>8. Swe!IsolationInv'
      BY <1>1, <3>2, <3>4 DEF Swe!Dispose
    <3>9. Swe!ReportInv'
      BY <1>1, <3>2 DEF Swe!Dispose
    <3> QED BY <3>5, <3>6, <3>7, <3>8, <3>9
  <2> QED BY <2>2, <2>3, <1>1 DEF Swe!TypeOK
<1>2. CASE Swe!Release
  <2>1. Swe!TypeOK'
    <3>1. v6' \in BOOLEAN
      BY <1>2 DEF Swe!TypeOK, Swe!Release, Swe!Manifest
    <3>2. v7' \in BOOLEAN
      BY <1>2 DEF Swe!TypeOK, Swe!Release, Swe!Manifest
    <3>3. v5' \in Swe!Manifest
      BY <1>2 DEF Swe!TypeOK, Swe!Release, Swe!Manifest
    <3> QED BY <1>2, <3>1, <3>2, <3>3 DEF Swe!TypeOK, Swe!Release, Swe!Manifest
  <2>2. Swe!FreshInv' /\ Swe!RunningInv'
    BY <1>2, <2>1 DEF Swe!TypeOK, Swe!Release, Swe!Manifest
  <2>3. Swe!AgentInv' /\ Swe!PatchInv'
    BY <1>2, <2>1 DEF Swe!TypeOK, Swe!Release, Swe!Manifest
  <2>4. Swe!IsolationInv' /\ Swe!ReportInv'
    BY <1>2, <2>1 DEF Swe!TypeOK, Swe!Release, Swe!Manifest
  <2> QED BY <2>1, <2>2, <2>3, <2>4
<1>3. CASE Swe!SaveAttempt
  <2>1. Swe!TypeOK'
    BY <1>3 DEF Swe!TypeOK, Swe!SaveAttempt, Swe!Manifest
  <2>2. Swe!FreshInv' /\ Swe!RunningInv'
    BY <1>3, <2>1 DEF Swe!TypeOK, Swe!SaveAttempt, Swe!Manifest
  <2>3. Swe!AgentInv' /\ Swe!PatchInv'
    BY <1>3, <2>1 DEF Swe!TypeOK, Swe!SaveAttempt, Swe!Manifest
  <2>4. Swe!IsolationInv' /\ Swe!ReportInv'
    BY <1>3, <2>1 DEF Swe!TypeOK, Swe!SaveAttempt, Swe!Manifest
  <2> QED BY <2>1, <2>2, <2>3, <2>4
<1> QED BY <1>1, <1>2, <1>3 DEF SweEndingStep

LEMMA SweJudgingKeeps == ASSUME SweInv, SweJudgingStep PROVE SweInv'
<1> USE DEF SweInv, Swe!FreshInv, Swe!RunningInv, Swe!AgentInv, Swe!PatchInv, Swe!IsolationInv,
       Swe!ReportInv, Swe!Setup, Swe!Working, Swe!Ending, Swe!Closing, Swe!Goto, Swe!Raise,
       Swe!config, Swe!docker, Swe!result
<1>1. CASE Swe!AgentResult
  <2>1. Swe!TypeOK'
    BY <1>1 DEF Swe!TypeOK, Swe!AgentResult, Swe!Evidence, Swe!Manifest
  <2>2. Swe!FreshInv' /\ Swe!RunningInv'
    BY <1>1, <2>1 DEF Swe!TypeOK, Swe!AgentResult, Swe!Evidence, Swe!Manifest
  <2>3. Swe!AgentInv' /\ Swe!PatchInv'
    BY <1>1, <2>1 DEF Swe!TypeOK, Swe!AgentResult, Swe!Evidence, Swe!Manifest
  <2>4. Swe!IsolationInv' /\ Swe!ReportInv'
    BY <1>1, <2>1 DEF Swe!TypeOK, Swe!AgentResult, Swe!Evidence, Swe!Manifest
  <2> QED BY <2>1, <2>2, <2>3, <2>4
<1>2. CASE Swe!CheckIsolation
  <2>1. Swe!TypeOK'
    BY <1>2 DEF Swe!TypeOK, Swe!CheckIsolation, Swe!Fail, Swe!Manifest
  <2>2. Swe!FreshInv' /\ Swe!RunningInv'
    BY <1>2, <2>1 DEF Swe!TypeOK, Swe!CheckIsolation, Swe!Fail, Swe!Manifest
  <2>3. Swe!AgentInv' /\ Swe!PatchInv'
    BY <1>2, <2>1 DEF Swe!TypeOK, Swe!CheckIsolation, Swe!Fail, Swe!Manifest
  <2>4. Swe!IsolationInv' /\ Swe!ReportInv'
    BY <1>2, <2>1 DEF Swe!TypeOK, Swe!CheckIsolation, Swe!Fail, Swe!Manifest
  <2> QED BY <2>1, <2>2, <2>3, <2>4
<1>3. CASE Swe!ClaimEvaluation
  <2>1. v5.calls = 0
    BY <1>3 DEF Swe!ClaimEvaluation
  <2>2. v5' = [v5 EXCEPT !.calls = 1, !.evaluation = "running"] /\ v4' = v5'
    BY <1>3, <2>1 DEF Swe!ClaimEvaluation
  <2>3. /\ v5' \in Swe!Manifest /\ v5'.state = v5.state /\ (v5'.isolated <=> v5.isolated)
        /\ v5'.calls = 1 /\ v5'.evaluation = "running"
    BY <2>2, SweClaimed DEF Swe!TypeOK
  <2>4. v17' = "evaluate"
    BY <1>3, <2>1 DEF Swe!ClaimEvaluation
  <2>5. Swe!TypeOK'
    BY <1>3, <2>2, <2>3, <2>4 DEF Swe!TypeOK, Swe!ClaimEvaluation, Swe!Fail
  <2>6. Swe!FreshInv' /\ Swe!RunningInv'
    BY <1>3, <2>2, <2>3, <2>4 DEF Swe!ClaimEvaluation
  <2>7. Swe!AgentInv' /\ Swe!PatchInv'
    BY <1>3, <2>4 DEF Swe!ClaimEvaluation
  <2>8. Swe!IsolationInv' /\ Swe!ReportInv'
    BY <1>3, <2>2, <2>3, <2>4 DEF Swe!ClaimEvaluation
  <2> QED BY <2>5, <2>6, <2>7, <2>8
<1>4. CASE Swe!Evaluate
  <2>1. Swe!TypeOK'
    BY <1>4 DEF Swe!TypeOK, Swe!Evaluate, Swe!Fail, Swe!Manifest
  <2>2. Swe!FreshInv' /\ Swe!RunningInv'
    BY <1>4, <2>1 DEF Swe!TypeOK, Swe!Evaluate, Swe!Fail, Swe!Manifest
  <2>3. Swe!AgentInv' /\ Swe!PatchInv'
    BY <1>4, <2>1 DEF Swe!TypeOK, Swe!Evaluate, Swe!Fail, Swe!Manifest
  <2>4. Swe!IsolationInv' /\ Swe!ReportInv'
    BY <1>4, <2>1 DEF Swe!TypeOK, Swe!Evaluate, Swe!Fail, Swe!Manifest
  <2> QED BY <2>1, <2>2, <2>3, <2>4
<1>5. CASE Swe!Verdict
  <2>1. Swe!TypeOK'
    BY <1>5 DEF Swe!TypeOK, Swe!Verdict, Swe!Evidence, Swe!Manifest
  <2>2. Swe!FreshInv' /\ Swe!RunningInv'
    BY <1>5, <2>1 DEF Swe!TypeOK, Swe!Verdict, Swe!Evidence, Swe!Manifest
  <2>3. Swe!AgentInv' /\ Swe!PatchInv'
    BY <1>5, <2>1 DEF Swe!TypeOK, Swe!Verdict, Swe!Evidence, Swe!Manifest
  <2>4. Swe!IsolationInv' /\ Swe!ReportInv'
    BY <1>5, <2>1 DEF Swe!TypeOK, Swe!Verdict, Swe!Evidence, Swe!Manifest
  <2> QED BY <2>1, <2>2, <2>3, <2>4
<1>6. CASE Swe!Finish
  <2>1. Swe!TypeOK'
    <3>1. v4' \in Swe!Manifest
      BY <1>6 DEF Swe!TypeOK, Swe!Finish, Swe!Evidence, Swe!Manifest
    <3> QED BY <1>6, <3>1 DEF Swe!TypeOK, Swe!Finish, Swe!Evidence, Swe!Manifest
  <2>2. Swe!FreshInv' /\ Swe!RunningInv'
    BY <1>6, <2>1 DEF Swe!TypeOK, Swe!Finish, Swe!Evidence, Swe!Manifest
  <2>3. Swe!AgentInv' /\ Swe!PatchInv'
    BY <1>6, <2>1 DEF Swe!TypeOK, Swe!Finish, Swe!Evidence, Swe!Manifest
  <2>4. Swe!IsolationInv' /\ Swe!ReportInv'
    BY <1>6, <2>1 DEF Swe!TypeOK, Swe!Finish, Swe!Evidence, Swe!Manifest
  <2> QED BY <2>1, <2>2, <2>3, <2>4
<1> QED BY <1>1, <1>2, <1>3, <1>4, <1>5, <1>6 DEF SweJudgingStep

LEMMA SweBreakingKeeps == ASSUME SweInv, SweBreakingStep PROVE SweInv'
<1> USE DEF SweInv, Swe!FreshInv, Swe!RunningInv, Swe!AgentInv, Swe!PatchInv, Swe!IsolationInv,
       Swe!ReportInv, Swe!Setup, Swe!Working, Swe!Ending, Swe!Closing, Swe!Goto, Swe!Raise,
       Swe!config, Swe!docker, Swe!result
<1>1. CASE Swe!Interrupt
  <2>1. Swe!TypeOK'
    BY <1>1 DEF Swe!TypeOK, Swe!Interrupt
  <2>2. Swe!FreshInv' /\ Swe!RunningInv'
    BY <1>1, <2>1 DEF Swe!TypeOK, Swe!Interrupt
  <2>3. Swe!AgentInv' /\ Swe!PatchInv'
    BY <1>1, <2>1 DEF Swe!TypeOK, Swe!Interrupt
  <2>4. Swe!IsolationInv' /\ Swe!ReportInv'
    BY <1>1, <2>1 DEF Swe!TypeOK, Swe!Interrupt
  <2> QED BY <2>1, <2>2, <2>3, <2>4
<1>2. CASE Swe!Kill
  <2>1. Swe!TypeOK'
    BY <1>2 DEF Swe!TypeOK, Swe!Kill
  <2>2. Swe!FreshInv' /\ Swe!RunningInv'
    BY <1>2, <2>1 DEF Swe!TypeOK, Swe!Kill
  <2>3. Swe!AgentInv' /\ Swe!PatchInv'
    BY <1>2, <2>1 DEF Swe!TypeOK, Swe!Kill
  <2>4. Swe!IsolationInv' /\ Swe!ReportInv'
    BY <1>2, <2>1 DEF Swe!TypeOK, Swe!Kill
  <2> QED BY <2>1, <2>2, <2>3, <2>4
<1> QED BY <1>1, <1>2 DEF SweBreakingStep

LEMMA SweUnchanged == ASSUME SweInv, UNCHANGED Swe!vars PROVE SweInv'
  BY DEF SweInv, Swe!TypeOK, Swe!FreshInv, Swe!RunningInv, Swe!AgentInv, Swe!PatchInv,
     Swe!IsolationInv, Swe!ReportInv, Swe!vars, Swe!config, Swe!docker, Swe!result

LEMMA SweNextInv == ASSUME SweInv, Swe!Next \/ UNCHANGED Swe!vars PROVE SweInv'
  BY SweGroups, SweSettingKeeps, SweWorkingKeeps, SweEndingKeeps, SweJudgingKeeps,
     SweBreakingKeeps, SweUnchanged

LEMMA SweSound == SweInv => Swe!TypeOK /\ Swe!AttemptIsSound
<1> SUFFICES ASSUME SweInv PROVE Swe!TypeOK /\ Swe!AttemptIsSound
  OBVIOUS
<1> USE DEF SweInv, Swe!TypeOK, Swe!Manifest
<1>1. Swe!EvaluatedAlone
  BY DEF Swe!IsolationInv, Swe!EvaluatedAlone
<1>2. Swe!AgentConfined
  BY DEF Swe!AgentInv, Swe!AgentConfined
<1>3. Swe!PatchSettled
  BY DEF Swe!PatchInv, Swe!PatchSettled
<1>4. Swe!EvaluatedOnce
  BY DEF Swe!ReportInv, Swe!EvaluatedOnce
<1>5. Swe!CompletedIsReal
  BY DEF Swe!ReportInv, Swe!IsolationInv, Swe!CompletedIsReal
<1> QED BY <1>1, <1>2, <1>3, <1>4, <1>5 DEF Swe!AttemptIsSound

-----------------------------------------------------------------------------
(* SWE-bench: the Goal Plus search of an attempt and its verdict           *)
(* (SweSearch). Here v1 is asked, v2 is sess, v3 is iters, v4 is scope, v5 *)
(* is run, v6 is chosen, v7 is gate, v8 is applied, v9 is goal, v10 is     *)
(* step, v11 is passed, v12 is overlap, v13 is together, v14 is learnt,    *)
(* v15 is found.                                                           *)

SearchInv ==
  /\ Search!TypeOK /\ Search!RecordInv /\ Search!CloseoutInv /\ Search!ChosenInv
       /\ Search!OverlapInv /\ Search!ExchangeInv
  /\ Search!VerdictInv /\ Search!PassedIsCarriedOut /\ Search!PassedIsParallel

\* The steps that change the sessions, the verifications, and neither.
SearchSessionStep ==
  \/ Search!Tick \/ Search!CloseSessions
  \/ \E c \in Search!Cands, n \in Search!Slots : Search!Bind(c, n) \/ Search!WorkerEnds(c, n)
       \/ Search!ReadEvidence(c, n)
SearchRecordStep ==
  \/ Search!VerifyRest
  \/ \E c \in Search!Cands, n \in Search!Slots : Search!Verify(c, n)
  \/ \E c \in Search!Cands, i \in 1..SearchIterations : Search!Annotate(c, i)
SearchPublishStep ==
  \/ Search!AgentActs \/ Search!Closeout \/ Search!Raise \/ Search!Drain \/ Search!SelectOnce
       \/ Search!PromoteOnce \/ Search!ApplyOnce
  \/ Search!CompleteGoal \/ Search!Report

LEMMA SearchGroups ==
  ASSUME Search!Next
  PROVE  SearchSessionStep \/ SearchRecordStep \/ SearchPublishStep \/ Search!Export
  BY DEF Search!Next, SearchSessionStep, SearchRecordStep, SearchPublishStep

LEMMA SearchInitInv == Search!Init => SearchInv
<1> SUFFICES ASSUME Search!Init PROVE SearchInv
  OBVIOUS
<1> USE DEF Search!Init
<1>1. Search!NoSession \in Search!Session
  BY DEF Search!NoSession, Search!Session
<1>2. Search!RecordInv
  <2>1. v2 \in [Search!Cands -> [Search!Slots -> Search!Session]]
    BY <1>1
  <2>2. <<>> \in Seq(Search!Verification)
    OBVIOUS
  <2>3. v3 \in [Search!Cands -> Seq(Search!Verification)]
    BY <2>2
  <2>4. v12 \in BOOLEAN /\ v13 \in BOOLEAN /\ v14 \in BOOLEAN
    OBVIOUS
  <2> QED BY <2>1, <2>3, <2>4 DEF Search!RecordInv
<1>3. \A c \in Search!Cands : v3[c] = <<>> /\ Search!Verified(c) = {}
  BY DEF Search!Verified
<1>4. \A c \in Search!Cands, n \in Search!Slots : v2[c][n].state = "none"
        /\ v2[c][n].read = "none"
  BY DEF Search!NoSession
<1>5. Search!TypeOK
  <2>1. v7 \in BOOLEAN /\ v8 \in BOOLEAN /\ v11 \in BOOLEAN
    OBVIOUS
  <2>2. /\ v4 \in {"open", "closed"} /\ v5 \in {"running", "ready", "promoted"}
        /\ v6 \in 0..SearchK /\ v9 \in {"open", "complete"} /\ v10 \in Search!Steps
    BY SearchBounds DEF Search!Steps
  <2> QED BY <1>3, <1>4, <2>1, <2>2 DEF Search!TypeOK
<1>6. Search!CloseoutInv /\ Search!ChosenInv /\ Search!OverlapInv /\ Search!VerdictInv
  BY DEF Search!CloseoutInv, Search!ChosenInv, Search!OverlapInv, Search!VerdictInv
<1>7. Search!ExchangeInv
  BY <1>3 DEF Search!ExchangeInv
<1>8. Search!PassedIsCarriedOut /\ Search!PassedIsParallel
  BY DEF Search!PassedIsCarriedOut, Search!PassedIsParallel
<1> QED BY <1>2, <1>5, <1>6, <1>7, <1>8 DEF SearchInv

-----------------------------------------------------------------------------
\* One field of one session is set.
SearchStateIs(c, n, s) ==
  /\ v2' \in [Search!Cands -> [Search!Slots -> Search!Session]] /\ v2'[c][n].state = s
  /\ \A d \in Search!Cands, m \in Search!Slots :
       /\ v2'[d][m].read = v2[d][m].read /\ v2'[d][m].seen = v2[d][m].seen
       /\ (d # c \/ m # n) => v2'[d][m].state = v2[d][m].state

LEMMA SearchStateSet ==
  ASSUME v2 \in [Search!Cands -> [Search!Slots -> Search!Session]], NEW c \in Search!Cands,
         NEW n \in Search!Slots,
         NEW s \in {"none", "live", "ended", "cut"}, v2' = [v2 EXCEPT ![c][n].state = s]
  PROVE  SearchStateIs(c, n, s)
<1> DEFINE r == [v2[c][n] EXCEPT !.state = s]
<1>1. v2[c] \in [Search!Slots -> Search!Session] /\ v2[c][n] \in Search!Session
  OBVIOUS
<1>2. /\ r \in Search!Session /\ r.state = s /\ r.read = v2[c][n].read
      /\ r.seen = v2[c][n].seen
  BY <1>1 DEF Search!Session
<1>3. v2' = [v2 EXCEPT ![c] = [v2[c] EXCEPT ![n] = r]]
  OBVIOUS
<1> HIDE DEF r
<1>4. v2'[c] = [v2[c] EXCEPT ![n] = r] /\ \A d \in Search!Cands \ {c} : v2'[d] = v2[d]
  BY <1>3
<1>5. v2'[c] \in [Search!Slots -> Search!Session] /\ v2'[c][n] = r
        /\ \A m \in Search!Slots \ {n} : v2'[c][m] = v2[c][m]
  BY <1>1, <1>2, <1>4
<1>6. v2' \in [Search!Cands -> [Search!Slots -> Search!Session]]
  BY <1>3, <1>5
<1> QED BY <1>2, <1>4, <1>5, <1>6 DEF SearchStateIs

\* A session is never un-cut, and what it has read before now stays read.
SearchKept ==
  \A c \in Search!Cands, n \in Search!Slots :
    /\ v2[c][n].state = "cut" => v2'[c][n].state = "cut"
    /\ v2[c][n].read = "before" =>
         v2'[c][n].read = "before" /\ v2'[c][n].seen = v2[c][n].seen

SearchNoneStarts ==
  \A c \in Search!Cands, n \in Search!Slots : v2'[c][n].state = "live" => v2[c][n].state = "live"

LEMMA SearchTickKeeps ==
  ASSUME SearchInv, Search!Tick
  PROVE  v2' \in [Search!Cands -> [Search!Slots -> Search!Session]] /\ SearchKept
           /\ SearchNoneStarts
<1> DEFINE R(c, n) == [v2[c][n] EXCEPT !.long = (@ \/ v2[c][n].state \in {"live", "cut"}),
                                         !.read = IF @ = "now" THEN "before" ELSE @]
<1>1. v2 \in [Search!Cands -> [Search!Slots -> Search!Session]]
  BY DEF SearchInv, Search!RecordInv
<1>2. ASSUME NEW c \in Search!Cands, NEW n \in Search!Slots
      PROVE  /\ R(c, n) \in Search!Session /\ R(c, n).state = v2[c][n].state
             /\ R(c, n).seen = v2[c][n].seen
             /\ v2[c][n].read = "before" => R(c, n).read = "before"
  <2> DEFINE l == v2[c][n].long \/ v2[c][n].state \in {"live", "cut"}
             r == IF v2[c][n].read = "now" THEN "before" ELSE v2[c][n].read
  <2>1. v2[c][n] \in Search!Session
    BY <1>1, <1>2
  <2>2. l \in BOOLEAN /\ r \in {"none", "now", "before"}
    BY <2>1 DEF Search!Session
  <2>3. v2[c][n].read = "before" => r = "before"
    OBVIOUS
  <2>4. R(c, n) = [[v2[c][n] EXCEPT !.long = l] EXCEPT !.read = r]
    OBVIOUS
  <2> HIDE DEF l, r, R
  <2> QED BY <2>1, <2>2, <2>3, <2>4 DEF Search!Session
<1>3. v2' = [c \in Search!Cands |-> [n \in Search!Slots |-> R(c, n)]]
  BY DEF Search!Tick
<1> HIDE DEF R
<1>4. \A c \in Search!Cands, n \in Search!Slots : v2'[c][n] = R(c, n)
  BY <1>3
<1>5. v2' \in [Search!Cands -> [Search!Slots -> Search!Session]]
  BY <1>2, <1>3
<1> QED BY <1>2, <1>4, <1>5 DEF SearchKept, SearchNoneStarts

LEMMA SearchCloseSessionsKeeps ==
  ASSUME SearchInv, Search!CloseSessions
  PROVE  /\ v2' \in [Search!Cands -> [Search!Slots -> Search!Session]] /\ SearchKept
         /\ \A c \in Search!Cands, n \in Search!Slots : v2'[c][n].state # "live"
<1>1. v2 \in [Search!Cands -> [Search!Slots -> Search!Session]]
  BY DEF SearchInv, Search!RecordInv
<1>2. PICK how \in [Search!Cands \X Search!Slots -> {"ended", "cut"}] :
        v2' = [c \in Search!Cands |-> [n \in Search!Slots |->
                    IF Search!Live(c, n) THEN [v2[c][n] EXCEPT !.state = how[<<c, n>>]]
                    ELSE v2[c][n]]]
  BY DEF Search!CloseSessions
<1> DEFINE R(c, n) == IF Search!Live(c, n) THEN [v2[c][n] EXCEPT !.state = how[<<c, n>>]]
                      ELSE v2[c][n]
<1>3. ASSUME NEW c \in Search!Cands, NEW n \in Search!Slots
      PROVE  /\ R(c, n) \in Search!Session /\ R(c, n).state # "live"
             /\ R(c, n).read = v2[c][n].read /\ R(c, n).seen = v2[c][n].seen
             /\ v2[c][n].state = "cut" => R(c, n).state = "cut"
  <2>1. v2[c][n] \in Search!Session /\ how[<<c, n>>] \in {"ended", "cut"}
    BY <1>1, <1>3
  <2> QED BY <2>1 DEF Search!Session, Search!Live
<1>4. v2' = [c \in Search!Cands |-> [n \in Search!Slots |-> R(c, n)]]
  BY <1>2
<1> HIDE DEF R
<1>5. \A c \in Search!Cands, n \in Search!Slots : v2'[c][n] = R(c, n)
  BY <1>4
<1>6. v2' \in [Search!Cands -> [Search!Slots -> Search!Session]]
  BY <1>3, <1>4
<1> QED BY <1>3, <1>5, <1>6 DEF SearchKept

LEMMA SearchBindKeeps ==
  ASSUME SearchInv, NEW c \in Search!Cands, NEW n \in Search!Slots, Search!Bind(c, n)
  PROVE  v2' \in [Search!Cands -> [Search!Slots -> Search!Session]] /\ SearchKept
<1>1. v2 \in [Search!Cands -> [Search!Slots -> Search!Session]] /\ v2[c][n].state = "none"
  BY DEF SearchInv, Search!RecordInv, Search!Bind
<1>2. v2' = [v2 EXCEPT ![c][n].state = "live"]
  BY DEF Search!Bind
<1>3. SearchStateIs(c, n, "live")
  BY <1>1, <1>2, SearchStateSet, Zenon
<1> QED BY <1>1, <1>3 DEF SearchKept, SearchStateIs

LEMMA SearchWorkerEndsKeeps ==
  ASSUME SearchInv, NEW c \in Search!Cands, NEW n \in Search!Slots, Search!WorkerEnds(c, n)
  PROVE  v2' \in [Search!Cands -> [Search!Slots -> Search!Session]] /\ SearchKept
           /\ SearchNoneStarts
<1>1. v2 \in [Search!Cands -> [Search!Slots -> Search!Session]] /\ v2[c][n].state = "live"
  BY DEF SearchInv, Search!RecordInv, Search!WorkerEnds, Search!Live
<1>2. PICK how \in {"ended", "cut"} : v2' = [v2 EXCEPT ![c][n].state = how]
  BY DEF Search!WorkerEnds
<1>3. how \in {"none", "live", "ended", "cut"}
  BY <1>2
<1>4. SearchStateIs(c, n, how)
  BY <1>1, <1>2, <1>3, SearchStateSet, Zenon
<1> QED BY <1>1, <1>3, <1>4 DEF SearchStateIs, SearchKept, SearchNoneStarts

LEMMA SearchReadEvidenceKeeps ==
  ASSUME SearchInv, NEW c \in Search!Cands, NEW n \in Search!Slots, Search!ReadEvidence(c, n)
  PROVE  v2' \in [Search!Cands -> [Search!Slots -> Search!Session]] /\ SearchKept
           /\ SearchNoneStarts
<1> DEFINE S == {d \in Search!Cands \ {c} : \E i \in Search!Verified(d) :
      v3[d][i].view = "completed"}
           r == [[v2[c][n] EXCEPT !.read = "now"] EXCEPT !.seen = S]
<1>1. /\ v2 \in [Search!Cands -> [Search!Slots -> Search!Session]] /\ v2[c][n].read = "none"
      /\ v2[c] \in [Search!Slots -> Search!Session] /\ v2[c][n] \in Search!Session
  BY DEF SearchInv, Search!RecordInv, Search!ReadEvidence
<1>2. S \in SUBSET Search!Cands
  OBVIOUS
<1>3. v2' = [v2 EXCEPT ![c][n].read = "now", ![c][n].seen = S]
  BY DEF Search!ReadEvidence
<1> HIDE DEF S
<1>4. r \in Search!Session /\ r.state = v2[c][n].state
  BY <1>1, <1>2 DEF Search!Session
<1>5. v2' = [v2 EXCEPT ![c] = [v2[c] EXCEPT ![n] = r]]
  BY <1>1, <1>3
<1> HIDE DEF r
<1>6. v2'[c] = [v2[c] EXCEPT ![n] = r] /\ \A d \in Search!Cands \ {c} : v2'[d] = v2[d]
  BY <1>1, <1>5
<1>7. /\ v2'[c] \in [Search!Slots -> Search!Session] /\ v2'[c][n] = r
      /\ \A m \in Search!Slots \ {n} : v2'[c][m] = v2[c][m]
  BY <1>1, <1>4, <1>6
<1>8. v2' \in [Search!Cands -> [Search!Slots -> Search!Session]]
  BY <1>1, <1>5, <1>7
<1> QED BY <1>1, <1>4, <1>6, <1>7, <1>8 DEF SearchKept, SearchNoneStarts

\* What follows from that, whatever the step.
LEMMA SearchSessionsKept ==
  ASSUME SearchInv, v2' \in [Search!Cands -> [Search!Slots -> Search!Session]], SearchKept,
         UNCHANGED v3,
         v14' = v14
  PROVE  /\ Search!RecordInv' <=> v12' \in BOOLEAN /\ v13' \in BOOLEAN
         /\ Search!ExchangeInv'
         /\ \A c \in Search!Cands, n \in Search!Slots :
              /\ v2'[c][n].state \in {"none", "live", "ended", "cut"}
              /\ v2'[c][n].read \in {"none", "now", "before"}
         /\ \A c \in Search!Cands : Search!Verified(c)' = Search!Verified(c)
<1>1. \A c \in Search!Cands, n \in Search!Slots : v2'[c][n] \in Search!Session
  OBVIOUS
<1>2. \A c \in Search!Cands, n \in Search!Slots :
              /\ v2'[c][n].state \in {"none", "live", "ended", "cut"}
              /\ v2'[c][n].read \in {"none", "now", "before"}
  BY <1>1 DEF Search!Session
<1>3. Search!ExchangeInv'
  BY DEF SearchInv, Search!ExchangeInv, Search!Verified, SearchKept
<1>4. Search!RecordInv' <=> v12' \in BOOLEAN /\ v13' \in BOOLEAN
  BY DEF SearchInv, Search!RecordInv
<1>5. \A c \in Search!Cands : Search!Verified(c)' = Search!Verified(c)
  BY DEF Search!Verified
<1> QED BY <1>2, <1>3, <1>4, <1>5

LEMMA SearchSessionKeeps == ASSUME SearchInv, SearchSessionStep PROVE SearchInv'
<1>1. /\ v2' \in [Search!Cands -> [Search!Slots -> Search!Session]] /\ SearchKept
      /\ v10' # "idle" => \/ SearchNoneStarts
                          \/ \A c \in Search!Cands, n \in Search!Slots : v2'[c][n].state # "live"
                          \/ v4 = "open"
  <2>1. CASE Search!Tick
    BY <2>1, SearchTickKeeps
  <2>2. CASE Search!CloseSessions
    BY <2>2, SearchCloseSessionsKeeps
  <2>3. ASSUME NEW c \in Search!Cands, NEW n \in Search!Slots, Search!Bind(c, n)
               \/ Search!WorkerEnds(c, n) \/ Search!ReadEvidence(c, n)
        PROVE  /\ v2' \in [Search!Cands -> [Search!Slots -> Search!Session]] /\ SearchKept
               /\ SearchNoneStarts \/ v4 = "open"
    <3>1. CASE Search!Bind(c, n)
      BY <3>1, SearchBindKeeps DEF Search!Bind
    <3>2. CASE Search!WorkerEnds(c, n)
      BY <3>2, SearchWorkerEndsKeeps
    <3>3. CASE Search!ReadEvidence(c, n)
      BY <3>3, SearchReadEvidenceKeeps
    <3> QED BY <2>3, <3>1, <3>2, <3>3
  <2> QED BY <2>1, <2>2, <2>3 DEF SearchSessionStep
<1>2. UNCHANGED <<v1, v3, v14, v15, v5, v6, v7, v8, v9, v11>> /\ ~v11
  <2>1. CASE Search!Tick
    BY <2>1 DEF Search!Tick, Search!publication, Search!history, Search!search, SearchInv,
       Search!VerdictInv
  <2>2. CASE Search!CloseSessions
    BY <2>2 DEF Search!CloseSessions, Search!publication, Search!history, Search!search,
       Search!Open, Search!At, SearchInv, Search!VerdictInv
  <2>3. ASSUME NEW c \in Search!Cands, NEW n \in Search!Slots, Search!Bind(c, n)
               \/ Search!WorkerEnds(c, n) \/ Search!ReadEvidence(c, n)
        PROVE  /\ UNCHANGED <<v1, v3, v14, v15, v5, v6, v7, v8, v9, v11>>
               /\ ~v11
    <3>1. CASE Search!Bind(c, n)
      BY <3>1 DEF Search!Bind, Search!publication, Search!history, Search!search, Search!Open,
         Search!At, SearchInv, Search!VerdictInv
    <3>2. CASE Search!WorkerEnds(c, n)
      BY <3>2 DEF Search!WorkerEnds, Search!publication, Search!history, Search!search,
         Search!Open, Search!At, SearchInv, Search!VerdictInv
    <3>3. CASE Search!ReadEvidence(c, n)
      BY <3>3 DEF Search!ReadEvidence, Search!publication, Search!history, Search!search,
         Search!Open, Search!At, SearchInv, Search!VerdictInv
    <3> QED BY <2>3, <3>1, <3>2, <3>3
  <2> QED BY <2>1, <2>2, <2>3 DEF SearchSessionStep
<1>3. ~v11
  BY <1>2
<1>4. /\ v4' \in {"open", "closed"} /\ v10' \in Search!Steps
      /\ \/ v10' = v10 /\ v4' = v4
         \/ /\ v10' = "verify" /\ v4' = "closed"
            /\ \A c \in Search!Cands, n \in Search!Slots : v2'[c][n].state # "live"
  <2>1. CASE Search!CloseSessions
    <3>1. v10' = "verify" /\ v4' = "closed"
      BY <2>1 DEF Search!CloseSessions, Search!GoTo
    <3> QED BY <2>1, <3>1, SearchCloseSessionsKeeps DEF Search!Steps
  <2>2. CASE ~Search!CloseSessions
    <3>1. v10' = v10 /\ v4' = v4
      <4>1. CASE Search!Tick
        BY <4>1 DEF Search!Tick
      <4>2. ASSUME NEW c \in Search!Cands, NEW n \in Search!Slots,
                   Search!Bind(c, n) \/ Search!WorkerEnds(c, n) \/ Search!ReadEvidence(c, n)
            PROVE  v10' = v10 /\ v4' = v4
        BY <4>2 DEF Search!Bind, Search!WorkerEnds, Search!ReadEvidence
      <4> QED BY <2>2, <4>1, <4>2 DEF SearchSessionStep
    <3>2. v4 \in {"open", "closed"} /\ v10 \in Search!Steps
      BY DEF SearchInv, Search!TypeOK
    <3> QED BY <3>1, <3>2
  <2> QED BY <2>1, <2>2
<1>5. /\ v12' \in BOOLEAN /\ v13' \in BOOLEAN
      /\ v13 => v13'
      /\ v12' => v12 \/ v13' \/ \E c \in Search!Cands, n \in Search!Slots : v2[c][n].state = "cut"
  <2>1. CASE Search!Tick
    <3>1. Search!OnRecord = Search!Cands =>
            Search!Working = Search!Cands \/ \E c \in Search!Cands, n \in Search!Slots :
                 v2[c][n].state = "cut"
      BY DEF Search!OnRecord, Search!Working, Search!Live
    <3>2. v12' = (v12 \/ Search!OnRecord = Search!Cands)
            /\ v13' = (v13 \/ Search!Working = Search!Cands)
      BY <2>1 DEF Search!Tick
    <3> QED BY <3>1, <3>2
  <2>2. CASE ~Search!Tick
    <3>1. (v12' = v12) /\ (v13' = v13)
      BY <2>2 DEF SearchSessionStep, Search!CloseSessions, Search!Bind, Search!WorkerEnds,
         Search!ReadEvidence, Search!history
    <3> QED BY <3>1 DEF SearchInv, Search!RecordInv
  <2> QED BY <2>1, <2>2
<1>6. Search!RecordInv' /\ Search!ExchangeInv'
  BY <1>1, <1>2, <1>5, SearchSessionsKept
<1>7. Search!TypeOK'
  BY <1>1, <1>2, <1>4, SearchSessionsKept DEF SearchInv, Search!TypeOK
<1>8. Search!CloseoutInv'
  <2>1. Search!Working' = {c \in Search!Cands : \E n \in Search!Slots : v2'[c][n].state = "live"}
    BY DEF Search!Working, Search!Live
  <2>2. Search!Working = {c \in Search!Cands : \E n \in Search!Slots : v2[c][n].state = "live"}
    BY DEF Search!Working, Search!Live
  <2> QED BY <1>1, <1>2, <1>4, <2>1, <2>2 DEF SearchInv, Search!CloseoutInv, SearchNoneStarts
<1>9. Search!ChosenInv' /\ Search!OverlapInv'
  BY <1>1, <1>2, <1>5 DEF SearchInv, Search!ChosenInv, Search!OverlapInv, SearchKept
<1>10. Search!VerdictInv' /\ Search!PassedIsCarriedOut' /\ Search!PassedIsParallel'
  BY <1>2, <1>3 DEF Search!VerdictInv, Search!PassedIsCarriedOut, Search!PassedIsParallel
<1> QED BY <1>6, <1>7, <1>8, <1>9, <1>10 DEF SearchInv

-----------------------------------------------------------------------------
\* The verifications on record stay, with their sessions; a new one is later than the
\* read of its session.
SearchGrownAt(c) ==
  /\ v3'[c] \in Seq(Search!Verification) /\ Len(v3'[c]) \in Len(v3[c])..SearchIterations
  /\ \A i \in 1..Len(v3[c]) :
       v3'[c][i].by = v3[c][i].by /\ v3'[c][i].later = v3[c][i].later
  /\ \A i \in (Len(v3[c]) + 1)..Len(v3'[c]) :
       v3'[c][i].later =>
         /\ v3'[c][i].by \in Search!Slots /\ v2[c][v3'[c][i].by].read = "before"
         /\ v2[c][v3'[c][i].by].seen # {} => v14'

SearchGrown == \A c \in Search!Cands : SearchGrownAt(c)

LEMMA SearchLengths ==
  ASSUME SearchInv
  PROVE  \A c \in Search!Cands :
           /\ v3[c] \in Seq(Search!Verification) /\ Len(v3[c]) \in 0..SearchIterations
           /\ Search!Verified(c) = 1..Len(v3[c])
<1>1. v3 \in [Search!Cands -> Seq(Search!Verification)]
  BY DEF SearchInv, Search!RecordInv
<1>2. \A c \in Search!Cands : Search!Verified(c) = 1..Len(v3[c]) /\ Len(v3[c]) \in Nat
  BY <1>1 DEF Search!Verified
<1>3. \A c \in Search!Cands : Search!Verified(c) \subseteq 1..SearchIterations
  BY DEF SearchInv, Search!TypeOK
<1>4. \A c \in Search!Cands : Len(v3[c]) <= SearchIterations
  BY <1>2, <1>3, SearchBounds
<1> QED BY <1>1, <1>2, <1>4, SearchBounds

LEMMA SearchVerifyGrows ==
  ASSUME SearchInv, NEW c \in Search!Cands, NEW n \in Search!Slots, Search!Verify(c, n)
  PROVE  v3' \in [Search!Cands -> Seq(Search!Verification)] /\ SearchGrown /\ v14' \in BOOLEAN
         /\ (v14 => v14')
<1> DEFINE v == Search!Iteration(n, v2[c][n].read = "before")
<1>1. /\ v3' = [v3 EXCEPT ![c] = Append(@, v)] /\ Len(v3[c]) < SearchIterations
      /\ v14' = (v14 \/ v2[c][n].seen # {})
  BY DEF Search!Verify
<1>2. /\ v \in Search!Verification /\ v.by = n /\ (v.later <=> v2[c][n].read = "before")
  <2> DEFINE b == v2[c][n].read = "before"
  <2>1. b \in BOOLEAN /\ n \in 0..SearchSessions /\ v = Search!Iteration(n, b)
    BY SearchBounds DEF Search!Slots
  <2> HIDE DEF b, v
  <2>2. v \in Search!Verification /\ v.by = n /\ (v.later <=> b)
    BY <2>1 DEF Search!Iteration, Search!Verification
  <2> QED BY <2>2 DEF b
<1> HIDE DEF v
<1>3. v3 \in [Search!Cands -> Seq(Search!Verification)]
  BY DEF SearchInv, Search!RecordInv
<1>4. /\ v3'[c] = Append(v3[c], v) /\ \A d \in Search!Cands \ {c} : v3'[d] = v3[d]
      /\ v3' \in [Search!Cands -> Seq(Search!Verification)]
  BY <1>1, <1>2, <1>3
<1>5. /\ Len(v3'[c]) = Len(v3[c]) + 1 /\ v3'[c][Len(v3[c]) + 1] = v
      /\ \A i \in 1..Len(v3[c]) : v3'[c][i] = v3[c][i]
  <2>1. v3[c] \in Seq(Search!Verification) /\ Len(v3[c]) \in Nat
    BY <1>3
  <2> DEFINE q == v3[c]
             k == Len(q)
  <2>2. q \in Seq(Search!Verification) /\ k \in Nat /\ v3'[c] = Append(q, v)
    BY <1>4, <2>1
  <2> HIDE DEF q
  <2>3. Len(Append(q, v)) = k + 1 /\ Append(q, v)[k + 1] = v
    BY <1>2, <2>2
  <2>4. \A i \in 1..k : Append(q, v)[i] = q[i]
    BY <1>2, <2>2
  <2>5. v3[c] = q
    BY DEF q
  <2> HIDE DEF k
  <2>6. Len(v3[c]) = k
    BY <2>5 DEF k
  <2> QED BY <2>2, <2>3, <2>4, <2>5, <2>6
<1>6. n \in Search!Slots /\ (v2[c][n].seen # {} => v14') /\ v14' \in BOOLEAN /\ (v14 => v14')
  BY <1>1
<1>7. \A d \in Search!Cands \ {c} : Len(v3'[d]) = Len(v3[d]) /\ v3'[d] = v3[d]
  BY <1>4
<1>8. SearchGrown
  <2> SUFFICES ASSUME NEW d \in Search!Cands PROVE SearchGrownAt(d)
    BY DEF SearchGrown
  <2>1. /\ v3[d] \in Seq(Search!Verification) /\ v3'[d] \in Seq(Search!Verification)
        /\ Len(v3[d]) \in 0..SearchIterations
    BY <1>4, SearchLengths
  <2>2. CASE d # c
    BY <2>1, <2>2, <1>7, SearchBounds DEF SearchGrownAt
  <2>3. CASE d = c
    <3>1. Len(v3'[c]) \in Len(v3[c])..SearchIterations
      BY <2>1, <2>3, <1>1, <1>5, SearchBounds
    <3>2. \A i \in (Len(v3[c]) + 1)..Len(v3'[c]) : v3'[c][i] = v
      BY <2>1, <2>3, <1>5
    <3> QED BY <2>1, <2>3, <3>1, <3>2, <1>2, <1>5, <1>6 DEF SearchGrownAt
  <2> QED BY <2>2, <2>3
<1> QED BY <1>4, <1>6, <1>8

LEMMA SearchAnnotateGrows ==
  ASSUME SearchInv, NEW c \in Search!Cands, NEW i \in 1..SearchIterations, Search!Annotate(c, i)
  PROVE  v3' \in [Search!Cands -> Seq(Search!Verification)] /\ SearchGrown
<1>1. PICK v \in {"completed", "failed"}, p \in BOOLEAN :
        v3' = [v3 EXCEPT ![c][i].view = v, ![c][i].peers = p]
  BY DEF Search!Annotate
<1> DEFINE r == [[v3[c][i] EXCEPT !.view = v] EXCEPT !.peers = p]
<1>2. /\ v3 \in [Search!Cands -> Seq(Search!Verification)] /\ i \in 1..Len(v3[c])
      /\ v3[c][i] \in Search!Verification
  BY SearchLengths DEF SearchInv, Search!RecordInv, Search!Annotate
<1>3. r \in Search!Verification /\ r.by = v3[c][i].by /\ r.later = v3[c][i].later
  BY <1>2 DEF Search!Verification
<1>4. v3' = [v3 EXCEPT ![c] = [v3[c] EXCEPT ![i] = r]]
  BY <1>1, <1>2
<1> HIDE DEF r
<1>5. /\ v3'[c] = [v3[c] EXCEPT ![i] = r] /\ \A d \in Search!Cands \ {c} : v3'[d] = v3[d]
  BY <1>2, <1>4
<1>6. /\ v3'[c] \in Seq(Search!Verification) /\ Len(v3'[c]) = Len(v3[c])
      /\ v3'[c][i] = r /\ \A j \in 1..Len(v3[c]) : j # i => v3'[c][j] = v3[c][j]
  BY <1>2, <1>3, <1>5
<1>7. v3' \in [Search!Cands -> Seq(Search!Verification)]
  BY <1>2, <1>4, <1>6
<1>8. \A d \in Search!Cands : SearchGrownAt(d)
  <2> SUFFICES ASSUME NEW d \in Search!Cands PROVE SearchGrownAt(d)
    OBVIOUS
  <2>1. Len(v3[d]) \in 0..SearchIterations /\ v3[d] \in Seq(Search!Verification)
    BY SearchLengths
  <2>2. Len(v3'[d]) = Len(v3[d]) /\ v3'[d] \in Seq(Search!Verification)
    BY <1>5, <1>6, <2>1
  <2>3. \A j \in 1..Len(v3[d]) :
          v3'[d][j].by = v3[d][j].by /\ v3'[d][j].later = v3[d][j].later
    BY <1>3, <1>5, <1>6
  <2>4. Len(v3'[d]) \in Len(v3[d])..SearchIterations
    BY <2>1, <2>2, SearchBounds
  <2>5. (Len(v3[d]) + 1)..Len(v3'[d]) = {}
    BY <2>1, <2>2
  <2> QED BY <2>2, <2>3, <2>4, <2>5 DEF SearchGrownAt
<1> QED BY <1>7, <1>8 DEF SearchGrown

LEMMA SearchVerifyRestGrows ==
  ASSUME SearchInv, Search!VerifyRest
  PROVE  v3' \in [Search!Cands -> Seq(Search!Verification)] /\ SearchGrown
<1> DEFINE v == Search!Iteration(0, FALSE)
<1>1. v \in Search!Verification /\ ~v.later
  BY SearchBounds DEF Search!Iteration, Search!Verification
<1>2. v3' = [c \in Search!Cands |-> IF v5 = "running" /\ v3[c] = <<>> THEN <<v>> ELSE v3[c]]
  BY DEF Search!VerifyRest
<1> HIDE DEF v
<1>3. <<v>> \in Seq(Search!Verification) /\ Len(<<v>>) = 1 /\ <<v>>[1] = v
  BY <1>1
<1>4. \A c \in Search!Cands : \/ v3'[c] = v3[c]
                              \/ v3[c] = <<>> /\ v3'[c] = <<v>>
  BY <1>2
<1>5. v3' \in [Search!Cands -> Seq(Search!Verification)]
  <2> DEFINE F(c) == IF v5 = "running" /\ v3[c] = <<>> THEN <<v>> ELSE v3[c]
  <2>1. \A c \in Search!Cands : F(c) \in Seq(Search!Verification)
    BY <1>3, SearchLengths
  <2>2. v3' = [c \in Search!Cands |-> F(c)]
    BY <1>2
  <2> HIDE DEF F
  <2> QED BY <2>1, <2>2, Zenon
<1>6. ASSUME NEW d \in Search!Cands PROVE SearchGrownAt(d)
  <2>1. /\ v3[d] \in Seq(Search!Verification) /\ Len(v3[d]) \in 0..SearchIterations
    BY SearchLengths
  <2>2. CASE v3'[d] = v3[d]
    <3>1. Len(v3'[d]) = Len(v3[d])
      BY <2>2
    <3> QED BY <2>1, <2>2, <3>1, SearchBounds DEF SearchGrownAt
  <2>3. CASE v3[d] = <<>> /\ v3'[d] = <<v>>
    <3>1. Len(v3[d]) = 0 /\ Len(v3'[d]) = 1 /\ v3'[d][1] = v
      BY <2>3, <1>3
    <3> QED BY <2>3, <3>1, <1>1, <1>3, SearchBounds DEF SearchGrownAt
  <2> QED BY <1>4, <2>2, <2>3
<1> QED BY <1>5, <1>6 DEF SearchGrown

\* What follows from that, whatever the step.
LEMMA SearchRecordsKept ==
  ASSUME SearchInv, v3' \in [Search!Cands -> Seq(Search!Verification)], SearchGrown,
         UNCHANGED <<v2, v6>>,
         v14' \in BOOLEAN, v14 => v14'
  PROVE  /\ Search!ExchangeInv' /\ Search!ChosenInv'
         /\ \A c \in Search!Cands : Search!Verified(c)' \subseteq 1..SearchIterations
<1>1. \A c \in Search!Cands : Search!Verified(c)' = 1..Len(v3'[c]) /\ Len(v3'[c]) \in Nat
  BY DEF Search!Verified
<1>2. \A c \in Search!Cands : Search!Verified(c)' \subseteq 1..SearchIterations
  <2>1. \A c \in Search!Cands : Len(v3'[c]) <= SearchIterations
    BY SearchLengths, SearchBounds DEF SearchGrown, SearchGrownAt
  <2> QED BY <1>1, <2>1, SearchBounds
<1>3. ASSUME NEW c \in Search!Cands, NEW i \in Search!Verified(c)', v3'[c][i].later
      PROVE  /\ v3'[c][i].by \in Search!Slots /\ v2[c][v3'[c][i].by].read = "before"
             /\ v2[c][v3'[c][i].by].seen # {} => v14'
  <2>1. i \in 1..Len(v3'[c]) /\ Len(v3[c]) \in Nat /\ Len(v3'[c]) \in Nat
    BY <1>1, <1>3, SearchLengths
  <2>2. CASE i <= Len(v3[c])
    <3>1. i \in 1..Len(v3[c])
      BY <2>1, <2>2
    <3>2. i \in Search!Verified(c)
      BY <3>1, SearchLengths
    <3>3. /\ v3'[c][i].by = v3[c][i].by /\ v3'[c][i].later = v3[c][i].later
      BY <3>1 DEF SearchGrown, SearchGrownAt
    <3> QED BY <1>3, <3>2, <3>3 DEF SearchInv, Search!ExchangeInv
  <2>3. CASE i > Len(v3[c])
    <3>1. i \in (Len(v3[c]) + 1)..Len(v3'[c])
      BY <2>1, <2>3
    <3> QED BY <1>3, <3>1 DEF SearchGrown, SearchGrownAt
  <2> QED BY <2>1, <2>2, <2>3
<1>4. Search!ExchangeInv'
  BY <1>3 DEF Search!ExchangeInv
<1>5. Search!ChosenInv'
  <2>1. SUFFICES ASSUME v6 # 0 PROVE v3'[v6] # <<>>
    BY DEF Search!ChosenInv
  <2>2. v6 \in Search!Cands /\ v3[v6] # <<>>
    BY <2>1, SearchBounds DEF SearchInv, Search!TypeOK, Search!ChosenInv, Search!Cands
  <2>3. v3[v6] \in Seq(Search!Verification) /\ v3'[v6] \in Seq(Search!Verification)
    BY <2>2, SearchLengths DEF SearchGrown, SearchGrownAt
  <2>4. Len(v3[v6]) # 0
    BY <2>2, <2>3
  <2>5. Len(v3'[v6]) # 0
    BY <2>2, <2>3, <2>4 DEF SearchGrown, SearchGrownAt
  <2> QED BY <2>3, <2>5
<1> QED BY <1>2, <1>4, <1>5

LEMMA SearchRecordKeeps == ASSUME SearchInv, SearchRecordStep PROVE SearchInv'
<1>1. /\ v3' \in [Search!Cands -> Seq(Search!Verification)] /\ SearchGrown
      /\ v14' \in BOOLEAN /\ (v14 => v14')
  <2>1. CASE \E c \in Search!Cands, n \in Search!Slots : Search!Verify(c, n)
    BY <2>1, SearchVerifyGrows
  <2>2. CASE Search!VerifyRest \/ \E c \in Search!Cands, i \in 1..SearchIterations :
          Search!Annotate(c, i)
    <3>1. v14' = v14
      BY <2>2 DEF Search!VerifyRest, Search!Annotate, Search!workers
    <3> QED BY <2>2, <3>1, SearchVerifyRestGrows, SearchAnnotateGrows DEF SearchInv,
               Search!RecordInv
  <2> QED BY <2>1, <2>2 DEF SearchRecordStep
<1>2. /\ UNCHANGED <<v1, v2, v12, v13, v4, v5, v6, v7, v8, v9, v11>>
      /\ v15' \in {v15, v5}
  BY DEF SearchRecordStep, Search!Verify, Search!VerifyRest, Search!Annotate, Search!workers,
     Search!search, Search!publication
<1>3. ~v11
  BY DEF SearchRecordStep, Search!Verify, Search!VerifyRest, Search!Annotate, Search!Open,
     Search!At, SearchInv, Search!VerdictInv
<1>4. v10' = v10 \/ (v10 = "verify" /\ v10' = "drain")
  BY DEF SearchRecordStep, Search!Verify, Search!VerifyRest, Search!Annotate, Search!At,
     Search!GoTo
<1>5. Search!RecordInv'
  BY <1>1, <1>2 DEF SearchInv, Search!RecordInv
<1>6. Search!ExchangeInv' /\ Search!ChosenInv' /\ \A c \in Search!Cands :
        Search!Verified(c)' \subseteq 1..SearchIterations
  BY <1>1, <1>2, SearchRecordsKept
<1>7. Search!TypeOK'
  BY <1>2, <1>4, <1>6 DEF SearchInv, Search!TypeOK, Search!Steps
<1>8. Search!CloseoutInv' /\ Search!OverlapInv'
  BY <1>2, <1>4 DEF SearchInv, Search!CloseoutInv, Search!OverlapInv, Search!Working, Search!Live
<1>9. Search!VerdictInv' /\ Search!PassedIsCarriedOut' /\ Search!PassedIsParallel'
  BY <1>2, <1>3 DEF Search!VerdictInv, Search!PassedIsCarriedOut, Search!PassedIsParallel
<1> QED BY <1>5, <1>6, <1>7, <1>8, <1>9 DEF SearchInv

-----------------------------------------------------------------------------
\* What the publication of a search may change.
SearchPublished ==
  \/ UNCHANGED Search!publication
  \/ (\E c \in Search!Cands : Search!Select(c))
  \/ Search!Promote
  \/ v8' = TRUE /\ UNCHANGED <<v5, v6, v7, v9>>
  \/ v8 /\ v9' = "complete" /\ UNCHANGED <<v5, v6, v7, v8>>

LEMMA SearchPublishKeeps == ASSUME SearchInv, SearchPublishStep PROVE SearchInv'
<1>1. UNCHANGED <<v1, v2, v12, v13, v14, v15, v3, v4, v11>>
  BY DEF SearchPublishStep, Search!AgentActs, Search!Closeout, Search!Raise, Search!Drain,
     Search!SelectOnce, Search!PromoteOnce, Search!ApplyOnce, Search!CompleteGoal, Search!Report,
     Search!workers, Search!search
<1>2. SearchPublished
  BY DEF SearchPublishStep, Search!AgentActs, Search!Closeout, Search!Raise, Search!Drain,
     Search!SelectOnce, Search!PromoteOnce, Search!ApplyOnce, Search!CompleteGoal, Search!Report,
     SearchPublished, SearchInv, Search!CloseoutInv, Search!At
<1>3. /\ v10' \in Search!Steps
      /\ v10' = v10 \/ v10 \notin {"exported", "done"}
      /\ v10' \in {"verify", "drain", "select", "promote", "apply", "complete", "report",
           "done"} =>
           v10 \in {"verify", "drain", "select", "promote", "apply", "complete", "report", "done"}
      /\ v10' \in {"complete", "report", "done"} => v8'
  BY DEF SearchPublishStep, Search!AgentActs, Search!Closeout, Search!Raise, Search!Drain,
     Search!SelectOnce, Search!PromoteOnce, Search!ApplyOnce, Search!CompleteGoal, Search!Report,
     SearchInv, Search!TypeOK, Search!CloseoutInv, Search!At, Search!GoTo, Search!Steps,
     Search!Before, Search!Select, Search!Promote, Search!publication
<1>4. /\ v5' \in {"running", "ready", "promoted"} /\ v6' \in 0..SearchK /\ v7' \in BOOLEAN
      /\ v8' \in BOOLEAN /\ v9' \in {"open", "complete"}
  <2>1. CASE UNCHANGED Search!publication
    BY <2>1 DEF Search!publication, SearchInv, Search!TypeOK
  <2>2. CASE \E c \in Search!Cands : Search!Select(c)
    BY <2>2, SearchBounds DEF Search!Select, SearchInv, Search!TypeOK, Search!Cands
  <2>3. CASE Search!Promote
    BY <2>3 DEF Search!Promote, SearchInv, Search!TypeOK
  <2>4. CASE v8' = TRUE /\ UNCHANGED <<v5, v6, v7, v9>>
    BY <2>4 DEF SearchInv, Search!TypeOK
  <2>5. CASE v9' = "complete" /\ UNCHANGED <<v5, v6, v7, v8>>
    BY <2>5 DEF SearchInv, Search!TypeOK
  <2> QED BY <1>2, <2>1, <2>2, <2>3, <2>4, <2>5 DEF SearchPublished
<1>5. /\ v6' = v6 \/ v3[v6'] # <<>>
      /\ v8 => v8'
      /\ v9' = "complete" => v8'
      /\ v5 = "promoted" => /\ v5' = "promoted" /\ v6' = v6 /\ v7' = v7
                            /\ v9 = "complete" => v9' = "complete"
  BY <1>2 DEF SearchPublished, Search!Select, Search!Promote, Search!publication, SearchInv,
     Search!CloseoutInv
<1>6. \A c \in Search!Cands : Search!Verified(c)' = Search!Verified(c)
  BY <1>1 DEF Search!Verified
<1>7. Search!TypeOK' /\ Search!RecordInv'
  BY <1>1, <1>3, <1>4, <1>6 DEF SearchInv, Search!TypeOK, Search!RecordInv
<1>8. Search!CloseoutInv' /\ Search!ChosenInv' /\ Search!OverlapInv'
  BY <1>1, <1>3, <1>5 DEF SearchInv, Search!CloseoutInv, Search!ChosenInv, Search!OverlapInv,
     Search!Working, Search!Live
<1>9. Search!ExchangeInv'
  <2>1. Search!ExchangeInv /\ (v3' = v3) /\ (v2' = v2) /\ (v14' = v14)
    BY <1>1 DEF SearchInv
  <2>2. SUFFICES ASSUME NEW c \in Search!Cands, NEW i \in Search!Verified(c), v3[c][i].later
                 PROVE  LET n == v3[c][i].by
                        IN /\ n \in Search!Slots /\ v2[c][n].read = "before"
                           /\ v2[c][n].seen # {} => v14
    BY <1>6, <2>1 DEF Search!ExchangeInv
  <2> QED BY <2>1, <2>2 DEF Search!ExchangeInv
<1>10. Search!VerdictInv' /\ Search!PassedIsParallel'
  <2>1. Search!VerdictInv'
    <3>1. v11 => v10 = "exported" /\ v5 = "promoted"
      BY DEF SearchInv, Search!VerdictInv
    <3>2. /\ v5 = "promoted" => v5' = "promoted"
          /\ v10 = "exported" => v10' = "exported"
      BY <1>3, <1>5
    <3>3. (v11' = v11)
      BY <1>1
    <3> QED BY <3>1, <3>2, <3>3 DEF Search!VerdictInv
  <2>2. Search!PassedIsParallel'
    BY <1>1 DEF SearchInv, Search!PassedIsParallel
  <2> QED BY <2>1, <2>2
<1>11. Search!PassedIsCarriedOut'
  <2>1. v11 => /\ v6 # 0 /\ v3[v6] # <<>> /\ v7 /\ v8 /\ v9 = "complete"
               /\ Search!Working = {} /\ v5 = "promoted"
    BY DEF SearchInv, Search!VerdictInv, Search!PassedIsCarriedOut
  <2>2. v11 /\ v1 # "off" =>
          \A c \in Search!Cands : \A i \in Search!Verified(c) : v3[c][i].view = "completed"
    BY DEF SearchInv, Search!PassedIsCarriedOut
  <2>3. (v11' = v11) /\ v3' = v3 /\ v1' = v1 /\ v2' = v2
    BY <1>1
  <2>4. Search!Working' = Search!Working
    BY <2>3 DEF Search!Working, Search!Live
  <2>5. v5 = "promoted" =>
          /\ v6' = v6 /\ v7' = v7 /\ (v8 => v8')
          /\ v9 = "complete" => v9' = "complete"
    BY <1>5
  <2> QED BY <1>6, <2>1, <2>2, <2>3, <2>4, <2>5 DEF Search!PassedIsCarriedOut
<1> QED BY <1>7, <1>8, <1>9, <1>10, <1>11 DEF SearchInv

\* A verdict passes on what the state shows after the whole closeout.
LEMMA SearchExportKeeps == ASSUME SearchInv, Search!Export PROVE SearchInv'
<1>1. UNCHANGED <<v1, v2, v12, v13, v14, v15, v3, v4, v5, v6, v7, v8,
                  v9>>
  BY DEF Search!Export, Search!workers, Search!search, Search!publication
<1>2. v10' = "exported" /\ (v11' => Search!Completion /\ v10 = "done") /\ v11' \in BOOLEAN
  BY DEF Search!Export, Search!GoTo
<1>3. \A c \in Search!Cands : Search!Verified(c)' = Search!Verified(c)
  BY <1>1 DEF Search!Verified
<1>4. Search!TypeOK' /\ Search!RecordInv'
  BY <1>1, <1>2, <1>3 DEF SearchInv, Search!TypeOK, Search!RecordInv, Search!Steps
<1>5. Search!CloseoutInv' /\ Search!ChosenInv' /\ Search!OverlapInv' /\ Search!ExchangeInv'
  BY <1>1, <1>2, <1>3 DEF SearchInv, Search!CloseoutInv, Search!ChosenInv, Search!OverlapInv,
     Search!ExchangeInv
<1>6. Search!VerdictInv'
  BY <1>1, <1>2 DEF Search!VerdictInv, Search!Completion
<1>7. Search!PassedIsCarriedOut'
  <2>1. v11' =>
          /\ v6 # 0 /\ v3[v6] # <<>> /\ v7 /\ v8 /\ v9 = "complete"
          /\ Search!Working = {}
    BY <1>2 DEF Search!Completion, Search!PromotionVisibleTest, SearchInv, Search!CloseoutInv,
       Search!ChosenInv
  <2>2. v11' /\ v1 # "off" =>
          \A c \in Search!Cands : \A i \in Search!Verified(c) : v3[c][i].view = "completed"
    BY <1>2 DEF Search!Completion, Search!AllCompleted
  <2> QED BY <1>1, <1>3, <2>1, <2>2 DEF Search!PassedIsCarriedOut, Search!Working, Search!Live
<1>8. Search!PassedIsParallel'
  <2>1. v11' /\ SearchK > 1 => v12 /\ (v1 = "peers" => Search!InfluenceWindows)
    BY <1>2 DEF Search!Completion, Search!WorkerOverlap
  <2>2. Search!InfluenceWindows => v14
    <3>1. SUFFICES ASSUME Search!InfluenceWindows PROVE v14
      OBVIOUS
    <3>2. PICK c \in Search!Cands : \E n \in Search!Bound(c) :
            /\ v2[c][n].seen # {}
            /\ \E i \in Search!Verified(c) : v3[c][i].by = n /\ v3[c][i].later
      BY <3>1 DEF Search!InfluenceWindows
    <3> QED BY <3>2 DEF SearchInv, Search!ExchangeInv
  <2> QED BY <1>1, <2>1, <2>2 DEF SearchInv, Search!OverlapInv, Search!PassedIsParallel
<1> QED BY <1>4, <1>5, <1>6, <1>7, <1>8 DEF SearchInv

LEMMA SearchUnchanged == ASSUME SearchInv, UNCHANGED Search!vars PROVE SearchInv'
<1>1. UNCHANGED <<v1, v2, v3, v4, v5, v6, v7, v8, v9, v10,
                  v11, v12, v13, v14, v15>>
  BY DEF Search!vars
<1>2. \A c \in Search!Cands : Search!Verified(c)' = Search!Verified(c)
  BY <1>1 DEF Search!Verified
<1>3. Search!TypeOK' /\ Search!RecordInv' /\ Search!CloseoutInv' /\ Search!ChosenInv'
        /\ Search!OverlapInv' /\ Search!VerdictInv'
  BY <1>1, <1>2 DEF SearchInv, Search!TypeOK, Search!RecordInv, Search!CloseoutInv,
     Search!ChosenInv, Search!OverlapInv, Search!VerdictInv, Search!Working, Search!Live
<1>4. Search!ExchangeInv' /\ Search!PassedIsCarriedOut' /\ Search!PassedIsParallel'
  BY <1>1, <1>2 DEF SearchInv, Search!ExchangeInv, Search!PassedIsCarriedOut,
     Search!PassedIsParallel, Search!Working, Search!Live
<1> QED BY <1>3, <1>4 DEF SearchInv

LEMMA SearchNextInv == ASSUME SearchInv, Search!Next \/ UNCHANGED Search!vars PROVE SearchInv'
  BY SearchGroups, SearchSessionKeeps, SearchRecordKeeps, SearchPublishKeeps, SearchExportKeeps,
     SearchUnchanged

LEMMA SearchSound == SearchInv => Search!TypeOK /\ Search!SearchIsSound
  BY DEF SearchInv, Search!CloseoutInv, Search!SearchIsSound, Search!CompletedIsApplied

-----------------------------------------------------------------------------
(* OpenEvolve: the lanes of a plain run (PlainLanes). Here v1 is only, v2  *)
(* is status, v3 is pc, v4 is raised, v5 is lane, v6 is soft, v7 is hard,  *)
(* v8 is late, v9 is eval, v10 is copy, v11 is final, v12 is artifact, v13 *)
(* is torn.                                                                *)

PlainInv == Plain!TypeOK /\ Plain!QuietInv /\ Plain!BestInv /\ Plain!FinishedInv

\* The first of some lanes.
LEMMA PlainFirstLane ==
  ASSUME NEW S, S \subseteq Plain!Lanes, S # {}
  PROVE  Plain!Min(S) \in S
<1> DEFINE Less == {ss \in Nat \X Nat : ss[1] < ss[2]}
<1>1. IsWellFoundedOn(Less, Nat)
  BY NatLessThanWellFounded DEF OpToRel
<1>2. S \subseteq Nat
  BY PlainBounds DEF Plain!Lanes
<1>3. PICK x \in S : \A y \in S : ~(<<y, x>> \in Less)
  BY <1>1, <1>2, WFMin
<1>4. ASSUME NEW y \in S PROVE x <= y
  <2>1. x \in Nat /\ y \in Nat /\ <<y, x>> \notin Less
    BY <1>2, <1>3
  <2>2. ~(y < x)
    BY <2>1
  <2> QED BY <2>1, <2>2
<1> QED BY <1>4 DEF Plain!Min

\* Scores are natural numbers, so among valid lanes there is a best one.
LEMMA PlainBestLane ==
  ASSUME Plain!TypeOK, Plain!Valid # {}
  PROVE  Plain!Best(Plain!Valid) # {} /\ Plain!Best(Plain!Valid) \subseteq Plain!Valid
<1>1. \A l \in Plain!Valid : v9[l] = 1 \/ v9[l] = 2
  BY DEF Plain!Valid, Plain!Scores
<1>2. CASE \E l \in Plain!Valid : v9[l] = 1
  BY <1>1, <1>2 DEF Plain!Best
<1>3. CASE \A l \in Plain!Valid : v9[l] = 2
  BY <1>3 DEF Plain!Best
<1> QED BY <1>1, <1>2, <1>3 DEF Plain!Best

LEMMA PlainInitInv == Plain!Init => PlainInv
<1> SUFFICES ASSUME Plain!Init PROVE PlainInv
  OBVIOUS
<1> USE DEF Plain!Init
<1>1. v1 \in BOOLEAN /\ v4 \in BOOLEAN /\ v8 \in BOOLEAN /\ v13 \in BOOLEAN
  OBVIOUS
<1>2. Plain!TypeOK
  BY <1>1, PlainBounds DEF Plain!TypeOK
<1>3. Plain!QuietInv /\ Plain!BestInv /\ Plain!FinishedInv
  BY DEF Plain!QuietInv, Plain!BestInv, Plain!FinishedInv
<1> QED BY <1>2, <1>3 DEF PlainInv

\* The steps before the agents have ended, those of run_controlled_many, and after.
LEMMA PlainEarlyKeeps == ASSUME PlainInv, Plain!Execute \/ Plain!Launch PROVE PlainInv'
<1> USE DEF PlainInv
<1>1. CASE Plain!Execute
  <2>1. (v4' = FALSE /\ v3' = "launch") \/ (v4' = TRUE /\ v3' = "over")
          \/ (v4' = v4 /\ v3' = "launch")
    BY <1>1 DEF Plain!Execute, Plain!Goto, Plain!Raise
  <2>2. v4' \in BOOLEAN
    BY <2>1 DEF Plain!TypeOK
  <2>3. Plain!TypeOK'
    BY <1>1, <2>1, <2>2 DEF Plain!TypeOK, Plain!Execute, Plain!Results
  <2>4. Plain!QuietInv' /\ Plain!BestInv' /\ Plain!FinishedInv'
    BY <1>1, <2>1 DEF Plain!TypeOK, Plain!Execute, Plain!Results, Plain!QuietInv, Plain!BestInv,
       Plain!FinishedInv, Plain!Alive, Plain!Goto, Plain!Raise
  <2> QED BY <2>3, <2>4
<1>2. CASE Plain!Launch
  <2>1. /\ v4' \in BOOLEAN /\ v3' \in {"launch", "poll", "over"} /\ (v3' = "over" => v4')
        /\ v3 = "launch" /\ (v3' # "over" => (v4' = v4))
    BY <1>2 DEF Plain!TypeOK, Plain!Launch, Plain!Goto, Plain!Raise
  <2>2. v5' \in [Plain!Lanes -> {"none", "alive", "zero", "bad"}]
    BY <1>2 DEF Plain!TypeOK, Plain!Launch
  <2>3. Plain!TypeOK'
    BY <1>2, <2>1, <2>2 DEF Plain!TypeOK, Plain!Launch, Plain!Results
  <2>4. Plain!QuietInv' /\ Plain!BestInv' /\ Plain!FinishedInv'
    BY <1>2, <2>1 DEF Plain!TypeOK, Plain!Launch, Plain!Results, Plain!QuietInv, Plain!BestInv,
       Plain!FinishedInv, Plain!Valid
  <2> QED BY <2>3, <2>4
<1> QED BY <1>1, <1>2

LEMMA PlainStopKeeps ==
  ASSUME PlainInv, Plain!Poll \/ Plain!SoftStop \/ Plain!Grace \/ Plain!Reap \/ Plain!Interrupt
         \/ \E l \in Plain!Lanes : Plain!LaneEnds(l)
  PROVE  PlainInv'
<1> USE DEF PlainInv, Plain!Goto, Plain!Raise, Plain!Results
<1>1. CASE Plain!Poll \/ Plain!SoftStop \/ Plain!Grace
  <2>1. v8' \in BOOLEAN /\ (v4' = v4)
    BY <1>1 DEF Plain!TypeOK, Plain!Poll, Plain!SoftStop, Plain!Grace
  <2>2. Plain!TypeOK'
    BY <1>1, <2>1 DEF Plain!TypeOK, Plain!Poll, Plain!SoftStop, Plain!Grace, Plain!Alive
  <2>3. Plain!QuietInv' /\ Plain!BestInv' /\ Plain!FinishedInv'
    BY <1>1 DEF Plain!Poll, Plain!SoftStop, Plain!Grace, Plain!QuietInv, Plain!BestInv,
       Plain!FinishedInv, Plain!Alive, Plain!Valid
  <2> QED BY <2>2, <2>3
<1>2. CASE Plain!Reap
  <2>1. CASE Plain!Alive = {}
    <3>1. (v4' = v4) /\ v3' = "evaluate" /\ UNCHANGED <<v5, v7>>
      BY <1>2, <2>1 DEF Plain!Reap
    <3>2. Plain!TypeOK'
      BY <1>2, <3>1 DEF Plain!TypeOK, Plain!Reap
    <3> QED BY <1>2, <2>1, <3>1, <3>2 DEF Plain!Reap, Plain!QuietInv, Plain!BestInv,
               Plain!FinishedInv, Plain!Alive, Plain!Valid
  <2>2. CASE Plain!Alive # {}
    <3>1. (v4' = v4) /\ v3' = v3 /\ v3 = "reap"
      BY <1>2, <2>2 DEF Plain!Reap
    <3>2. Plain!Min(Plain!Alive) \in Plain!Lanes
      BY <2>2, PlainFirstLane DEF Plain!Alive
    <3>3. v5' \in [Plain!Lanes -> {"none", "alive", "zero", "bad"}] /\ v7' \subseteq Plain!Lanes
      BY <1>2, <2>2, <3>2 DEF Plain!Reap, Plain!TypeOK
    <3>4. Plain!TypeOK'
      BY <1>2, <3>1, <3>3 DEF Plain!TypeOK, Plain!Reap
    <3> QED BY <1>2, <3>1, <3>4 DEF Plain!Reap, Plain!QuietInv, Plain!BestInv, Plain!FinishedInv,
               Plain!Valid
  <2> QED BY <2>1, <2>2
<1>3. CASE Plain!Interrupt
  <2>1. v4' = TRUE /\ v3' = "over" /\ v2 # "finished"
    BY <1>3 DEF Plain!Interrupt, Plain!FinishedInv
  <2>2. Plain!TypeOK'
    BY <1>3, <2>1 DEF Plain!TypeOK, Plain!Interrupt
  <2> QED BY <1>3, <2>1, <2>2 DEF Plain!Interrupt, Plain!QuietInv, Plain!BestInv,
             Plain!FinishedInv
<1>4. ASSUME NEW l \in Plain!Lanes, Plain!LaneEnds(l) PROVE PlainInv'
  <2>1. PICK e \in {"zero", "bad"} : v5' = [v5 EXCEPT ![l] = e]
    BY <1>4 DEF Plain!LaneEnds
  <2>2. v5' \in [Plain!Lanes -> {"none", "alive", "zero", "bad"}]
    BY <2>1 DEF Plain!TypeOK
  <2>3. Plain!Alive' \subseteq Plain!Alive
    BY <2>1 DEF Plain!TypeOK, Plain!Alive
  <2>4. UNCHANGED <<v1, v2, v3, v4, v6, v7, v8, v9, v10, v11, v12, v13>>
    BY <1>4 DEF Plain!LaneEnds
  <2>5. Plain!TypeOK'
    BY <2>2, <2>4 DEF Plain!TypeOK
  <2>6. Plain!Valid' = Plain!Valid
    BY <2>4 DEF Plain!Valid
  <2> QED BY <2>3, <2>4, <2>5, <2>6 DEF Plain!QuietInv, Plain!BestInv, Plain!FinishedInv
<1> QED BY <1>1, <1>2, <1>3, <1>4

LEMMA PlainEvaluateKeeps == ASSUME PlainInv, Plain!Evaluate PROVE PlainInv'
<1> DEFINE waiting == {l \in Plain!Lanes : v9[l] = Plain!None}
<1> USE DEF PlainInv, Plain!Goto, Plain!Raise
<1>1. /\ UNCHANGED <<v1, v2, v5, v6, v7, v8, v11, v12>>
      /\ v3 = "evaluate" /\ Plain!Alive = {} /\ v2 # "finished"
  BY DEF Plain!Evaluate, Plain!QuietInv, Plain!FinishedInv
<1>2. CASE waiting = {}
  <2>1. (v4' = v4) /\ v3' = "select" /\ UNCHANGED <<v9, v10>> /\ (v13' = v13)
    BY <1>2 DEF Plain!Evaluate
  <2>2. Plain!TypeOK'
    BY <1>1, <2>1 DEF Plain!TypeOK
  <2> QED BY <1>1, <1>2, <2>1, <2>2 DEF Plain!QuietInv, Plain!BestInv, Plain!FinishedInv,
             Plain!Alive
<1>3. CASE waiting # {} /\ \E e \in Plain!Evals : /\ v9' = [v9 EXCEPT ![Plain!Min(waiting)] = e]
                                           /\ v10' = v10 \cup {Plain!Min(waiting)}
                                           /\ v13' = (v13 \/ Plain!Alive # {})
                                           /\ UNCHANGED <<v3, v4>>
  <2>1. PICK e \in Plain!Evals : v9' = [v9 EXCEPT ![Plain!Min(waiting)] = e]
    BY <1>3
  <2>2. Plain!Min(waiting) \in Plain!Lanes
    BY <1>3, PlainFirstLane
  <2>3. v10' = v10 \cup {Plain!Min(waiting)} /\ v3' = v3 /\ (v4' = v4)
    BY <1>3
  <2>4. ~v13' /\ v13' \in BOOLEAN
    BY <1>1, <1>3 DEF Plain!QuietInv
  <2>5. v9' \in [Plain!Lanes -> Plain!Evals \cup {Plain!None}]
    BY <2>1, <2>2 DEF Plain!TypeOK
  <2>6. Plain!TypeOK'
    BY <1>1, <2>2, <2>3, <2>4, <2>5 DEF Plain!TypeOK
  <2>7. \A l \in Plain!Lanes : v9'[l] # Plain!None => l \in v10'
    BY <2>1, <2>2, <2>3 DEF Plain!TypeOK, Plain!QuietInv
  <2>8. Plain!QuietInv'
    BY <1>1, <2>3, <2>4, <2>7 DEF Plain!QuietInv, Plain!Alive
  <2> QED BY <1>1, <2>3, <2>6, <2>8 DEF Plain!BestInv, Plain!FinishedInv
<1>4. CASE v3' = "over" /\ v4' = TRUE /\ UNCHANGED <<v9, v10, v13>>
  <2>1. Plain!TypeOK'
    BY <1>1, <1>4 DEF Plain!TypeOK
  <2> QED BY <1>1, <1>4, <2>1 DEF Plain!QuietInv, Plain!BestInv, Plain!FinishedInv
<1> QED BY <1>2, <1>3, <1>4 DEF Plain!Evaluate

LEMMA PlainSelectKeeps == ASSUME PlainInv, Plain!Select PROVE PlainInv'
<1> USE DEF PlainInv, Plain!Goto, Plain!Raise
<1>1. /\ UNCHANGED <<v1, v2, v5, v6, v7, v8, v9, v10, v13>>
      /\ v3 = "select" /\ Plain!Alive = {} /\ v2 # "finished" /\ v10 = Plain!Lanes
  BY DEF Plain!Select, Plain!QuietInv, Plain!FinishedInv, Plain!TypeOK
<1>2. \/ v3' = "verdict" /\ (v4' = v4)
      \/ v3' = "over" /\ (v4' = TRUE)
  BY DEF Plain!Select
<1>3. \A l \in Plain!Lanes : v9[l] \in Plain!Evals
  BY <1>1 DEF Plain!QuietInv, Plain!TypeOK
<1>4. \/ v11' = v11 /\ v12' = v12 /\ v3' = "over"
      \/ /\ v11' \in Plain!Lanes \X Plain!Evals /\ v12' \in Plain!Lanes /\ v11'[1] = v12'
         /\ ~v1 => \A l \in Plain!Valid : v11'[2] <= v9[l]
  <2>1. CASE v3' = "over" /\ UNCHANGED <<v11, v12>>
    BY <2>1
  <2>2. CASE v1 /\ \E e \in Plain!Evals :
                      v11' = <<Plain!Min(Plain!Pool), e>> /\ v12' = Plain!Min(Plain!Pool)
    <3>1. Plain!Pool \subseteq Plain!Lanes /\ Plain!Pool # {}
      BY PlainBounds DEF Plain!Pool, Plain!Valid, Plain!Lanes
    <3>2. Plain!Min(Plain!Pool) \in Plain!Lanes
      BY <3>1, PlainFirstLane
    <3> QED BY <2>2, <3>2
  <2>3. CASE \E l \in (IF Plain!Valid = {} THEN Plain!Lanes
                         ELSE {Plain!Min(Plain!Best(Plain!Valid))}) :
               v11' = <<l, v9[l]>> /\ v12' = l
    <3>1. PICK l \in (IF Plain!Valid = {} THEN Plain!Lanes
                      ELSE {Plain!Min(Plain!Best(Plain!Valid))}) :
            v11' = <<l, v9[l]>> /\ v12' = l
      BY <2>3
    <3>2. CASE Plain!Valid = {}
      BY <1>3, <3>1, <3>2
    <3>3. CASE Plain!Valid # {}
      <4>1. Plain!Best(Plain!Valid) # {} /\ Plain!Best(Plain!Valid) \subseteq Plain!Valid
              /\ Plain!Valid \subseteq Plain!Lanes
        BY <3>3, PlainBestLane DEF Plain!Valid
      <4>2. l \in Plain!Best(Plain!Valid)
        BY <3>1, <3>3, <4>1, PlainFirstLane
      <4> QED BY <1>3, <3>1, <4>1, <4>2 DEF Plain!Best
    <3> QED BY <3>2, <3>3
  <2> QED BY <2>1, <2>2, <2>3 DEF Plain!Select
<1>5. Plain!TypeOK'
  <2>1. v11' \in (Plain!Lanes \X Plain!Evals) \cup {Plain!NoFinal} /\ v12' \in 0..PlainLanesAsked
    BY <1>4, PlainBounds DEF Plain!TypeOK, Plain!Lanes
  <2>2. v3' \in {"verdict", "over"} /\ v4' \in BOOLEAN
    BY <1>2 DEF Plain!TypeOK
  <2> QED BY <1>1, <2>1, <2>2 DEF Plain!TypeOK
<1>6. Plain!QuietInv' /\ Plain!FinishedInv'
  BY <1>1, <1>2 DEF Plain!QuietInv, Plain!FinishedInv, Plain!Alive
<1>7. Plain!BestInv'
  BY <1>1, <1>2, <1>4 DEF Plain!BestInv, Plain!Valid
<1> QED BY <1>5, <1>6, <1>7

LEMMA PlainVerdictKeeps == ASSUME PlainInv, Plain!Verdict PROVE PlainInv'
<1> USE DEF PlainInv, Plain!Goto
<1>1. /\ UNCHANGED <<v1, v5, v6, v7, v8, v9, v10, v11, v12>>
      /\ (v13' = v13) /\ (v4' = v4) /\ v3 = "verdict" /\ v3' = "over"
  BY DEF Plain!Verdict, Plain!Results
<1>2. v2' \in {"finished", "incomplete"}
  BY DEF Plain!Verdict
<1>3. v2' = "finished" => v7 = {} /\ v11[2] \in Plain!Scores /\ ~v8
  BY DEF Plain!Verdict, Plain!TypeOK
<1>4. Plain!TypeOK'
  BY <1>1, <1>2 DEF Plain!TypeOK
<1>5. Plain!QuietInv' /\ Plain!BestInv'
  BY <1>1 DEF Plain!QuietInv, Plain!BestInv, Plain!Alive, Plain!Valid
<1>6. ~v4'
  BY <1>1 DEF Plain!QuietInv
<1>7. Plain!FinishedInv'
  BY <1>1, <1>3, <1>6 DEF Plain!FinishedInv
<1> QED BY <1>4, <1>5, <1>7

LEMMA PlainUnchanged == ASSUME PlainInv, UNCHANGED Plain!vars PROVE PlainInv'
  BY DEF PlainInv, Plain!TypeOK, Plain!QuietInv, Plain!BestInv, Plain!FinishedInv, Plain!Alive,
     Plain!Valid, Plain!vars

LEMMA PlainNextInv == ASSUME PlainInv, Plain!Next \/ UNCHANGED Plain!vars PROVE PlainInv'
  BY PlainEarlyKeeps, PlainStopKeeps, PlainEvaluateKeeps, PlainSelectKeeps, PlainVerdictKeeps,
     PlainUnchanged DEF Plain!Next

LEMMA PlainSound == PlainInv => Plain!TypeOK /\ Plain!LanesAreSound
<1> SUFFICES ASSUME PlainInv PROVE Plain!TypeOK /\ Plain!LanesAreSound
  OBVIOUS
<1>1. Plain!EvaluatedQuiet /\ Plain!NoLaneLeft
  BY DEF PlainInv, Plain!QuietInv, Plain!EvaluatedQuiet, Plain!NoLaneLeft
<1>2. Plain!FinishedIsBest
  BY DEF PlainInv, Plain!QuietInv, Plain!BestInv, Plain!FinishedInv, Plain!FinishedIsBest
<1> QED BY <1>1, <1>2 DEF PlainInv, Plain!LanesAreSound

-----------------------------------------------------------------------------
(* OpenEvolve: a batch, resumed (BatchResume). Here v1 is prepared, v2 is  *)
(* exper, v3 is disk, v4 is selected, v5 is fast, v6 is mem, v7 is cur, v8 *)
(* is outcome, v9 is pc, v10 is code, v11 is asked, v12 is runs, v13 is    *)
(* ran, v14 is first, v15 is broke.                                        *)

BatchInv == Batch!TypeOK /\ Batch!RanInv /\ Batch!DiskInv /\ Batch!CellInv /\ Batch!CodeInv

\* The cell taken is one of those that wait.
LEMMA BatchFirstCell ==
  ASSUME NEW S, S \subseteq Batch!Cells, S # {}
  PROVE  (CHOOSE c \in S : \A d \in S : c <= d) \in S
<1> DEFINE Less == {ss \in Nat \X Nat : ss[1] < ss[2]}
<1>1. IsWellFoundedOn(Less, Nat)
  BY NatLessThanWellFounded DEF OpToRel
<1>2. S \subseteq Nat
  BY BatchBounds DEF Batch!Cells
<1>3. PICK x \in S : \A y \in S : ~(<<y, x>> \in Less)
  BY <1>1, <1>2, WFMin
<1>4. ASSUME NEW y \in S PROVE x <= y
  <2>1. x \in Nat /\ y \in Nat /\ <<y, x>> \notin Less
    BY <1>2, <1>3
  <2>2. ~(y < x)
    BY <2>1
  <2> QED BY <2>1, <2>2
<1> QED BY <1>4

LEMMA BatchInitInv == Batch!Init => BatchInv
<1> SUFFICES ASSUME Batch!Init PROVE BatchInv
  OBVIOUS
<1> USE DEF Batch!Init
<1>1. Batch!NoResults \in Batch!Results
  BY DEF Batch!NoResults, Batch!Results
<1>2. /\ v3.readable = TRUE /\ v3.results = Batch!NoResults
      /\ v3 \in [readable : BOOLEAN, results : Batch!Results]
  BY <1>1
<1>3. v13 \in [Batch!Cells -> Nat] /\ v15 \in BOOLEAN /\ v5 \in BOOLEAN
  OBVIOUS
<1>4. Batch!TypeOK
  BY <1>1, <1>2, <1>3, BatchBounds DEF Batch!TypeOK
<1>5. Batch!RanInv
  BY DEF Batch!RanInv
<1>6. Batch!DiskInv /\ Batch!CellInv /\ Batch!CodeInv
  BY <1>2 DEF Batch!DiskInv, Batch!CellInv, Batch!CodeInv, Batch!NoResults
<1> QED BY <1>4, <1>5, <1>6 DEF BatchInv

LEMMA BatchRunBatchKeeps == ASSUME BatchInv, Batch!RunBatch PROVE BatchInv'
<1> USE DEF BatchInv
<1>1. /\ UNCHANGED <<v1, v2, v3, v10, v11, v13, v14>> /\ v12' = v12 + 1
      /\ v15' = FALSE /\ v9 = "idle"
  BY DEF Batch!RunBatch
<1>2. v12' \in Nat
  BY <1>1 DEF Batch!TypeOK
<1>3. v15' \in BOOLEAN
  BY <1>1
<1>4. CASE v3.readable
  <2>1. /\ v4' \subseteq Batch!Cells /\ v5' \in BOOLEAN
        /\ v6' = v3.results /\ v7' = 0 /\ v8' = "none" /\ v9' = "loop"
    BY <1>4 DEF Batch!RunBatch
  <2>2. v6' \in Batch!Results
    BY <2>1 DEF Batch!TypeOK
  <2>3. Batch!TypeOK'
    BY <1>1, <1>2, <1>3, <2>1, <2>2, BatchBounds DEF Batch!TypeOK
  <2> QED BY <1>1, <1>4, <2>1, <2>3 DEF Batch!RanInv, Batch!DiskInv, Batch!CellInv, Batch!CodeInv
<1>5. CASE ~v3.readable
  <2>1. UNCHANGED <<v4, v5, v6, v7, v8, v9>>
    BY <1>5 DEF Batch!RunBatch
  <2>2. Batch!TypeOK'
    BY <1>1, <1>2, <1>3, <2>1 DEF Batch!TypeOK
  <2> QED BY <1>1, <2>1, <2>2 DEF Batch!RanInv, Batch!DiskInv, Batch!CellInv, Batch!CodeInv
<1> QED BY <1>4, <1>5

LEMMA BatchNextCellKeeps == ASSUME BatchInv, Batch!NextCell PROVE BatchInv'
<1> USE DEF BatchInv
<1> DEFINE waiting == {c \in v4 : c > v7 /\ v6[c] = "none"}
<1>1. /\ UNCHANGED <<v1, v2, v3, v4, v5, v6, v8, v12, v13, v14, v15>>
      /\ v9 = "loop"
  BY DEF Batch!NextCell, Batch!history
<1>2. CASE waiting = {}
  <2>1. v10' = Batch!ExitCode /\ v11' = v4 /\ v9' = "idle" /\ v7' = v7
    BY <1>2 DEF Batch!NextCell, Batch!Over
  <2>2. Batch!TypeOK'
    BY <1>1, <2>1 DEF Batch!TypeOK, Batch!ExitCode
  <2>3. Batch!CodeInv'
    BY <1>1, <2>1 DEF Batch!TypeOK, Batch!ExitCode, Batch!CodeInv, Batch!DiskInv
  <2> QED BY <1>1, <2>1, <2>2, <2>3 DEF Batch!RanInv, Batch!DiskInv, Batch!CellInv
<1>3. CASE waiting # {}
  <2>1. /\ v7' = CHOOSE c \in waiting : \A d \in waiting : c <= d
        /\ v9' = "cell" /\ v10' = v10 /\ v11' = v11
    BY <1>3 DEF Batch!NextCell
  <2>2. v7' \in waiting
    <3>1. waiting \subseteq Batch!Cells
      BY DEF Batch!TypeOK
    <3> HIDE DEF waiting
    <3> QED BY <1>3, <2>1, <3>1, BatchFirstCell
  <2>3. v7' \in Batch!Cells /\ v7' \in v4 /\ v6[v7'] = "none"
    BY <2>2 DEF Batch!TypeOK
  <2>4. Batch!TypeOK'
    BY <1>1, <2>1, <2>3, BatchBounds DEF Batch!TypeOK, Batch!Cells
  <2>5. ~v15
    BY <1>1 DEF Batch!CodeInv
  <2> QED BY <1>1, <2>1, <2>3, <2>4, <2>5 DEF Batch!RanInv, Batch!DiskInv, Batch!CellInv,
             Batch!CodeInv
<1> QED BY <1>2, <1>3

LEMMA BatchStartCellKeeps == ASSUME BatchInv, Batch!StartCell PROVE BatchInv'
<1> USE DEF BatchInv
<1>1. /\ UNCHANGED <<v1, v3, v4, v5, v6, v7, v10, v11, v12, v14>>
      /\ (v15' = v15) /\ v9 = "cell" /\ v7 \in Batch!Cells /\ v7 \in v4 /\ v6[v7] = "none"
  BY DEF Batch!StartCell, Batch!CellInv, Batch!TypeOK
<1>2. ~v15
  BY <1>1 DEF Batch!CodeInv
<1>3. CASE /\ v2[v7] = "prepared"
           /\ v2' = [v2 EXCEPT ![v7] = "running"]
           /\ v13' = [v13 EXCEPT ![v7] = @ + 1]
           /\ v9' = "execute" /\ v8' = v8
  <2>1. v13' \in [Batch!Cells -> Nat]
    BY <1>1, <1>3 DEF Batch!TypeOK
  <2>2. Batch!TypeOK'
    BY <1>1, <1>3, <2>1 DEF Batch!TypeOK
  <2>3. Batch!RanInv'
    BY <1>1, <1>3 DEF Batch!RanInv, Batch!TypeOK
  <2>4. \A c \in Batch!Cells : v2[c] = "finished" => v2'[c] = "finished"
    BY <1>1, <1>3 DEF Batch!TypeOK
  <2>5. Batch!DiskInv' /\ Batch!CodeInv'
    BY <1>1, <1>2, <1>3, <2>4 DEF Batch!DiskInv, Batch!CodeInv, Batch!TypeOK
  <2>6. Batch!CellInv'
    BY <1>1, <1>3 DEF Batch!CellInv, Batch!TypeOK
  <2> QED BY <2>2, <2>3, <2>5, <2>6
<1>4. CASE v8' \in {"error", "prepare_failed"} /\ v9' = "record" /\ UNCHANGED <<v2, v13>>
  <2>1. Batch!TypeOK'
    BY <1>1, <1>4 DEF Batch!TypeOK, Batch!Recorded
  <2> QED BY <1>1, <1>2, <1>4, <2>1 DEF Batch!RanInv, Batch!DiskInv, Batch!CellInv, Batch!CodeInv
<1> QED BY <1>3, <1>4 DEF Batch!StartCell, Batch!Refused

LEMMA BatchCellEndsKeeps == ASSUME BatchInv, Batch!CellEnds PROVE BatchInv'
<1> USE DEF BatchInv
<1>1. /\ UNCHANGED <<v1, v3, v4, v5, v6, v7, v10, v11, v12, v13, v14>>
      /\ (v15' = v15) /\ v9 = "execute" /\ v9' = "record"
      /\ v7 \in Batch!Cells /\ v7 \in v4 /\ v6[v7] = "none" /\ v2[v7] = "running"
  BY DEF Batch!CellEnds, Batch!CellInv, Batch!TypeOK, Batch!history
<1>2. ~v15
  BY <1>1 DEF Batch!CodeInv
<1>3. \/ \E s \in {"finished", "incomplete"} : v2' = [v2 EXCEPT ![v7] = s] /\ v8' = s
      \/ v8' = "error" /\ v2' = v2
  BY DEF Batch!CellEnds
<1>4. /\ v8' \in Batch!Recorded /\ v8' # "none"
      /\ v8' = "finished" => v2'[v7] = "finished"
      /\ v2' \in [Batch!Cells -> {"none", "prepared", "running", "finished", "incomplete"}]
      /\ v2'[v7] \in {"running", "finished", "incomplete"}
      /\ \A c \in Batch!Cells \ {v7} : v2'[c] = v2[c]
  BY <1>1, <1>3 DEF Batch!TypeOK, Batch!Recorded
<1>5. Batch!TypeOK'
  BY <1>1, <1>4 DEF Batch!TypeOK
<1>6. Batch!RanInv'
  BY <1>1, <1>4 DEF Batch!RanInv
<1>7. \A c \in Batch!Cells : v2[c] = "finished" => v2'[c] = "finished"
  BY <1>1, <1>4
<1>8. Batch!DiskInv' /\ Batch!CodeInv'
  BY <1>1, <1>2, <1>7 DEF Batch!DiskInv, Batch!CodeInv, Batch!TypeOK
<1>9. Batch!CellInv'
  BY <1>1, <1>4 DEF Batch!CellInv
<1> QED BY <1>5, <1>6, <1>8, <1>9

LEMMA BatchRecordKeeps == ASSUME BatchInv, Batch!Record PROVE BatchInv'
<1> USE DEF BatchInv
<1>1. /\ UNCHANGED <<v1, v2, v4, v5, v7, v8, v12, v13>> /\ v9 = "record"
      /\ v7 \in Batch!Cells /\ v7 \in v4 /\ v6[v7] = "none" /\ v8 # "none"
      /\ v8 = "finished" => v2[v7] = "finished"
  BY DEF Batch!Record, Batch!CellInv, Batch!TypeOK
<1>2. /\ v3.readable /\ v6 = v14 /\ ~v15
  BY <1>1 DEF Batch!DiskInv, Batch!CodeInv
<1>3. /\ v6' = [v6 EXCEPT ![v7] = v8] /\ v14' = v6'
      /\ v3' = [readable |-> TRUE, results |-> v6']
  BY <1>1, <1>2 DEF Batch!Record
<1>4. v6' \in Batch!Results /\ \A c \in Batch!Cells : v6'[c] = "finished" => v2[c] = "finished"
  BY <1>1, <1>3 DEF Batch!TypeOK, Batch!Results, Batch!Recorded, Batch!DiskInv
<1>5. v3'.readable = TRUE /\ v3'.results = v6'
        /\ v3' \in [readable : BOOLEAN, results : Batch!Results]
  BY <1>3, <1>4
<1>6. \/ /\ v5 /\ v8 # "finished" /\ v15' = TRUE /\ v11' = v4 /\ v9' = "idle"
         /\ v10' = IF \A c \in v4 : v6'[c] \in {"none", "finished"} THEN 0 ELSE 2
      \/ v9' = "loop" /\ (v15' = v15) /\ v10' = v10 /\ v11' = v11
  BY DEF Batch!Record
<1>7. \/ v15' = TRUE /\ v11' = v4 /\ v9' = "idle" /\ v10' = 2
      \/ v9' = "loop" /\ (v15' = v15) /\ v10' = v10 /\ v11' = v11
  <2>1. v8 # "finished" => ~(v6'[v7] \in {"none", "finished"})
    BY <1>1, <1>3 DEF Batch!TypeOK, Batch!Results
  <2> QED BY <1>1, <1>6, <2>1
<1>8. v15' \in BOOLEAN /\ (v15' => v9' = "idle" /\ v10' = 2)
  <2>1. CASE v15' = TRUE /\ v9' = "idle" /\ v10' = 2
    BY <2>1
  <2>2. CASE v15' = v15
    <3>1. v15' = FALSE
      BY <2>2, <1>2 DEF Batch!TypeOK
    <3> QED BY <3>1
  <2> QED BY <1>7, <2>1, <2>2
<1>9. Batch!TypeOK'
  BY <1>1, <1>3, <1>4, <1>5, <1>7, <1>8 DEF Batch!TypeOK
<1>10. Batch!RanInv' /\ Batch!DiskInv' /\ Batch!CellInv'
  BY <1>1, <1>3, <1>4, <1>5, <1>7 DEF Batch!RanInv, Batch!DiskInv, Batch!CellInv
<1>11. Batch!CodeInv'
  BY <1>1, <1>7, <1>8 DEF Batch!CodeInv
<1> QED BY <1>9, <1>10, <1>11

LEMMA BatchStopKeeps == ASSUME BatchInv, Batch!Stop PROVE BatchInv'
<1> USE DEF BatchInv
<1>1. /\ UNCHANGED <<v1, v2, v4, v5, v6, v7, v8, v10, v11, v12, v13, v14>>
      /\ (v15' = v15) /\ v9' = "idle"
  BY DEF Batch!Stop, Batch!history
<1>2. v3' = v3 \/ v3' = [v3 EXCEPT !.readable = FALSE]
  BY DEF Batch!Stop
<1>3. v3' \in [readable : BOOLEAN, results : Batch!Results] /\ v3'.results = v3.results
  BY <1>2 DEF Batch!TypeOK
<1>4. v3'.readable => v3.readable
  BY <1>2 DEF Batch!TypeOK
<1>5. Batch!TypeOK'
  BY <1>1, <1>3 DEF Batch!TypeOK
<1>6. Batch!CodeInv' /\ Batch!RanInv' /\ Batch!CellInv'
  BY <1>1 DEF Batch!CodeInv, Batch!RanInv, Batch!CellInv, Batch!Stop
<1>7. Batch!DiskInv'
  BY <1>1, <1>3, <1>4 DEF Batch!DiskInv
<1> QED BY <1>5, <1>6, <1>7

LEMMA BatchUnchanged == ASSUME BatchInv, UNCHANGED Batch!vars PROVE BatchInv'
  BY DEF BatchInv, Batch!TypeOK, Batch!RanInv, Batch!DiskInv, Batch!CellInv, Batch!CodeInv,
     Batch!vars, Batch!invocation, Batch!history

LEMMA BatchNextInv == ASSUME BatchInv, Batch!Next \/ UNCHANGED Batch!vars PROVE BatchInv'
  BY BatchRunBatchKeeps, BatchNextCellKeeps, BatchStartCellKeeps, BatchCellEndsKeeps,
     BatchRecordKeeps, BatchStopKeeps, BatchUnchanged DEF Batch!Next

LEMMA BatchSound == BatchInv => Batch!TypeOK /\ Batch!BatchIsSound
<1> SUFFICES ASSUME BatchInv PROVE Batch!TypeOK /\ Batch!BatchIsSound
  OBVIOUS
<1>1. Batch!OnceForAll
  BY DEF BatchInv, Batch!RanInv, Batch!DiskInv, Batch!OnceForAll
<1>2. Batch!FinishedIsReal
  BY DEF BatchInv, Batch!RanInv, Batch!DiskInv, Batch!FinishedIsReal
<1>3. Batch!ExitCodeIsReal
  BY DEF BatchInv, Batch!CodeInv, Batch!ExitCodeIsReal
<1> QED BY <1>1, <1>2, <1>3 DEF BatchInv, Batch!BatchIsSound

-----------------------------------------------------------------------------
(* OpenEvolve: a comparison run and its closeout (OpenEvolveRun). Here v1  *)
(* is method, v2 is dir, v3 is status, v4 is record, v5 is repaired, v6 is *)
(* artifact, v7 is goal, v8 is verified, v9 is selected, v10 is hit, v11   *)
(* is agent, v12 is pc, v13 is control, v14 is done, v15 is final, v16 is  *)
(* rpc, v17 is copy, v18 is runs, v19 is repairs, v20 is agents, v21 is    *)
(* torn.                                                                   *)

OpenEvolveInv ==
  /\ OpenEvolve!TypeOK /\ OpenEvolve!CommandInv /\ OpenEvolve!ProcessInv /\ OpenEvolve!ArtifactInv
       /\ OpenEvolve!FinishedInv /\ OpenEvolve!RepairIsHonest

\* prepare.
OpenEvolvePrepareStep ==
  OpenEvolve!MakeDirectory \/ OpenEvolve!Materialize \/ OpenEvolve!WriteManifest
\* run up to its process.
OpenEvolveLaunchStep ==
  \/ OpenEvolve!Begin \/ OpenEvolve!Announce \/ OpenEvolve!StartNative \/ OpenEvolve!StartSky
       \/ OpenEvolve!StartPlain \/ OpenEvolve!StartGoal
\* The wait for the process and the closeout.
OpenEvolveWaitStep ==
  OpenEvolve!PollAgent \/ OpenEvolve!Grace \/ OpenEvolve!Drain \/ OpenEvolve!Finalize
\* The evaluation and the verdict.
OpenEvolveJudgeStep ==
  \/ OpenEvolve!FinalNative \/ OpenEvolve!FinalSky \/ OpenEvolve!FinalPlain
       \/ OpenEvolve!FinalGoal \/ OpenEvolve!NoFinal \/ OpenEvolve!Verdict \/ OpenEvolve!Dies
\* The repair of a Goal Plus run.
OpenEvolveRepairStep ==
  \/ OpenEvolve!RepairBegin \/ OpenEvolve!RepairDrain \/ OpenEvolve!RepairFinalize
       \/ OpenEvolve!RepairVerdict \/ OpenEvolve!RepairDies
\* The method's process.
OpenEvolveAgentStep == OpenEvolve!AgentWorks \/ OpenEvolve!AgentEnds

LEMMA OpenEvolveGroups ==
  ASSUME OpenEvolve!Next
  PROVE  OpenEvolvePrepareStep \/ OpenEvolveLaunchStep \/ OpenEvolveWaitStep
           \/ OpenEvolveJudgeStep \/ OpenEvolveRepairStep \/ OpenEvolveAgentStep
  BY DEF OpenEvolve!Next, OpenEvolvePrepareStep, OpenEvolveLaunchStep, OpenEvolveWaitStep,
     OpenEvolveJudgeStep, OpenEvolveRepairStep, OpenEvolveAgentStep

LEMMA OpenEvolveInitInv == OpenEvolve!Init => OpenEvolveInv
<1> SUFFICES ASSUME OpenEvolve!Init PROVE OpenEvolveInv
  OBVIOUS
<1> USE OpenEvolveBounds DEF OpenEvolve!Init, OpenEvolve!Nothing
<1>1. OpenEvolve!TypeOK
  <2>1. /\ v5 \in BOOLEAN /\ v9 \in BOOLEAN /\ v10 \in BOOLEAN
        /\ v14 \in BOOLEAN /\ v21 \in BOOLEAN
    OBVIOUS
  <2>2. v8 \in 0..EvolveSlots /\ v18 \in 0..EvolveRuns /\ v19 \in 0..EvolveRepairs
    OBVIOUS
  <2>3. v6 \in {"seed", "agent", "promoted"}
    OBVIOUS
  <2>4. /\ v4 \in OpenEvolve!Controls \cup {OpenEvolve!Nothing} /\ v13 \in OpenEvolve!Controls
             \cup {OpenEvolve!Nothing}
        /\ v17 \in OpenEvolve!Controls \cup {OpenEvolve!Nothing}
    OBVIOUS
  <2> QED BY <2>1, <2>2, <2>3, <2>4 DEF OpenEvolve!TypeOK, OpenEvolve!Methods, OpenEvolve!Exits
<1>2. OpenEvolve!CommandInv
  BY DEF OpenEvolve!CommandInv
<1>3. OpenEvolve!ProcessInv /\ OpenEvolve!ArtifactInv
  BY DEF OpenEvolve!ProcessInv, OpenEvolve!ArtifactInv
<1>4. OpenEvolve!FinishedInv /\ OpenEvolve!RepairIsHonest
  BY DEF OpenEvolve!FinishedInv, OpenEvolve!FinishedIsReal, OpenEvolve!RepairIsHonest
<1> QED BY <1>1, <1>2, <1>3, <1>4 DEF OpenEvolveInv

\* What the harness saw of a process that it waited for.
LEMMA OpenEvolveWaited ==
  ASSUME NEW c \in OpenEvolve!Controls, NEW rc \in OpenEvolve!Exits
  PROVE  LET n == [c EXCEPT !.rc = rc]
         IN /\ n \in OpenEvolve!Controls /\ n.rc = rc /\ (n.hard <=> c.hard)
              /\ (n.late <=> c.late)
  BY DEF OpenEvolve!Controls, OpenEvolve!Exits

LEMMA OpenEvolveKilled ==
  ASSUME NEW c \in OpenEvolve!Controls
  PROVE  LET n == [c EXCEPT !.hard = TRUE]
         IN /\ n \in OpenEvolve!Controls /\ n.rc = c.rc /\ n.hard /\ (n.late <=> c.late)
  BY DEF OpenEvolve!Controls, OpenEvolve!Exits

LEMMA OpenEvolvePrepareKeeps == ASSUME OpenEvolveInv, OpenEvolvePrepareStep PROVE OpenEvolveInv'
<1> USE OpenEvolveBounds DEF OpenEvolveInv, OpenEvolve!CommandInv, OpenEvolve!ProcessInv,
       OpenEvolve!ArtifactInv, OpenEvolve!FinishedInv, OpenEvolve!FinishedIsReal,
       OpenEvolve!RepairIsHonest, OpenEvolve!Exits, OpenEvolve!Go, OpenEvolve!manifest,
       OpenEvolve!search, OpenEvolve!repair, OpenEvolve!locals
<1>1. CASE OpenEvolve!MakeDirectory
  <2>1. OpenEvolve!TypeOK'
    <3>1. /\ v5' \in BOOLEAN /\ v9' \in BOOLEAN /\ v10' \in BOOLEAN
          /\ v14' \in BOOLEAN /\ v21' \in BOOLEAN
      BY <1>1 DEF OpenEvolve!TypeOK, OpenEvolve!MakeDirectory
    <3>2. /\ v4' \in OpenEvolve!Controls \cup {OpenEvolve!Nothing} /\ v13' \in OpenEvolve!Controls
               \cup {OpenEvolve!Nothing}
          /\ v17' \in OpenEvolve!Controls \cup {OpenEvolve!Nothing}
      BY <1>1 DEF OpenEvolve!TypeOK, OpenEvolve!MakeDirectory
    <3>3. v8' \in 0..EvolveSlots /\ v18' \in 0..EvolveRuns /\ v19' \in 0..EvolveRepairs
      BY <1>1 DEF OpenEvolve!TypeOK, OpenEvolve!MakeDirectory
    <3> QED BY <1>1, <3>1, <3>2, <3>3 DEF OpenEvolve!TypeOK, OpenEvolve!MakeDirectory
  <2>2. OpenEvolve!CommandInv'
    BY <1>1, <2>1 DEF OpenEvolve!TypeOK, OpenEvolve!MakeDirectory
  <2>3. OpenEvolve!ProcessInv'
    BY <1>1, <2>1 DEF OpenEvolve!TypeOK, OpenEvolve!MakeDirectory
  <2>4. OpenEvolve!ArtifactInv'
    BY <1>1, <2>1 DEF OpenEvolve!TypeOK, OpenEvolve!MakeDirectory
  <2>5. OpenEvolve!FinishedInv'
    BY <1>1, <2>1 DEF OpenEvolve!TypeOK, OpenEvolve!MakeDirectory
  <2>6. OpenEvolve!RepairIsHonest'
    BY <1>1, <2>1 DEF OpenEvolve!TypeOK, OpenEvolve!MakeDirectory
  <2> QED BY <2>1, <2>2, <2>3, <2>4, <2>5, <2>6
<1>2. CASE OpenEvolve!Materialize
  <2>1. OpenEvolve!TypeOK'
    <3>1. /\ v5' \in BOOLEAN /\ v9' \in BOOLEAN /\ v10' \in BOOLEAN
          /\ v14' \in BOOLEAN /\ v21' \in BOOLEAN
      BY <1>2 DEF OpenEvolve!TypeOK, OpenEvolve!Materialize
    <3>2. /\ v4' \in OpenEvolve!Controls \cup {OpenEvolve!Nothing} /\ v13' \in OpenEvolve!Controls
               \cup {OpenEvolve!Nothing}
          /\ v17' \in OpenEvolve!Controls \cup {OpenEvolve!Nothing}
      BY <1>2 DEF OpenEvolve!TypeOK, OpenEvolve!Materialize
    <3>3. v8' \in 0..EvolveSlots /\ v18' \in 0..EvolveRuns /\ v19' \in 0..EvolveRepairs
      BY <1>2 DEF OpenEvolve!TypeOK, OpenEvolve!Materialize
    <3> QED BY <1>2, <3>1, <3>2, <3>3 DEF OpenEvolve!TypeOK, OpenEvolve!Materialize
  <2>2. OpenEvolve!CommandInv'
    BY <1>2, <2>1 DEF OpenEvolve!TypeOK, OpenEvolve!Materialize
  <2>3. OpenEvolve!ProcessInv'
    BY <1>2, <2>1 DEF OpenEvolve!TypeOK, OpenEvolve!Materialize
  <2>4. OpenEvolve!ArtifactInv'
    BY <1>2, <2>1 DEF OpenEvolve!TypeOK, OpenEvolve!Materialize
  <2>5. OpenEvolve!FinishedInv'
    BY <1>2, <2>1 DEF OpenEvolve!TypeOK, OpenEvolve!Materialize
  <2>6. OpenEvolve!RepairIsHonest'
    BY <1>2, <2>1 DEF OpenEvolve!TypeOK, OpenEvolve!Materialize
  <2> QED BY <2>1, <2>2, <2>3, <2>4, <2>5, <2>6
<1>3. CASE OpenEvolve!WriteManifest
  <2>1. OpenEvolve!TypeOK'
    <3>1. /\ v5' \in BOOLEAN /\ v9' \in BOOLEAN /\ v10' \in BOOLEAN
          /\ v14' \in BOOLEAN /\ v21' \in BOOLEAN
      BY <1>3 DEF OpenEvolve!TypeOK, OpenEvolve!WriteManifest
    <3>2. /\ v4' \in OpenEvolve!Controls \cup {OpenEvolve!Nothing} /\ v13' \in OpenEvolve!Controls
               \cup {OpenEvolve!Nothing}
          /\ v17' \in OpenEvolve!Controls \cup {OpenEvolve!Nothing}
      BY <1>3 DEF OpenEvolve!TypeOK, OpenEvolve!WriteManifest
    <3>3. v8' \in 0..EvolveSlots /\ v18' \in 0..EvolveRuns /\ v19' \in 0..EvolveRepairs
      BY <1>3 DEF OpenEvolve!TypeOK, OpenEvolve!WriteManifest
    <3> QED BY <1>3, <3>1, <3>2, <3>3 DEF OpenEvolve!TypeOK, OpenEvolve!WriteManifest
  <2>2. OpenEvolve!CommandInv'
    BY <1>3, <2>1 DEF OpenEvolve!TypeOK, OpenEvolve!WriteManifest
  <2>3. OpenEvolve!ProcessInv'
    BY <1>3, <2>1 DEF OpenEvolve!TypeOK, OpenEvolve!WriteManifest
  <2>4. OpenEvolve!ArtifactInv'
    BY <1>3, <2>1 DEF OpenEvolve!TypeOK, OpenEvolve!WriteManifest
  <2>5. OpenEvolve!FinishedInv'
    BY <1>3, <2>1 DEF OpenEvolve!TypeOK, OpenEvolve!WriteManifest
  <2>6. OpenEvolve!RepairIsHonest'
    BY <1>3, <2>1 DEF OpenEvolve!TypeOK, OpenEvolve!WriteManifest
  <2> QED BY <2>1, <2>2, <2>3, <2>4, <2>5, <2>6
<1> QED BY <1>1, <1>2, <1>3 DEF OpenEvolvePrepareStep

LEMMA OpenEvolveLaunchKeeps == ASSUME OpenEvolveInv, OpenEvolveLaunchStep PROVE OpenEvolveInv'
<1> USE OpenEvolveBounds DEF OpenEvolveInv, OpenEvolve!CommandInv, OpenEvolve!ProcessInv,
       OpenEvolve!ArtifactInv, OpenEvolve!FinishedInv, OpenEvolve!FinishedIsReal,
       OpenEvolve!RepairIsHonest, OpenEvolve!Exits, OpenEvolve!Go, OpenEvolve!manifest,
       OpenEvolve!search, OpenEvolve!repair, OpenEvolve!locals
<1>1. CASE OpenEvolve!Begin
  <2>1. OpenEvolve!TypeOK'
    <3>1. /\ v5' \in BOOLEAN /\ v9' \in BOOLEAN /\ v10' \in BOOLEAN
          /\ v14' \in BOOLEAN /\ v21' \in BOOLEAN
      BY <1>1 DEF OpenEvolve!TypeOK, OpenEvolve!Begin, OpenEvolve!Nothing
    <3>2. /\ v4' \in OpenEvolve!Controls \cup {OpenEvolve!Nothing} /\ v13' \in OpenEvolve!Controls
               \cup {OpenEvolve!Nothing}
          /\ v17' \in OpenEvolve!Controls \cup {OpenEvolve!Nothing}
      BY <1>1 DEF OpenEvolve!TypeOK, OpenEvolve!Begin, OpenEvolve!Nothing
    <3>3. v8' \in 0..EvolveSlots /\ v18' \in 0..EvolveRuns /\ v19' \in 0..EvolveRepairs
      BY <1>1 DEF OpenEvolve!TypeOK, OpenEvolve!Begin, OpenEvolve!Nothing
    <3> QED BY <1>1, <3>1, <3>2, <3>3 DEF OpenEvolve!TypeOK, OpenEvolve!Begin, OpenEvolve!Nothing
  <2>2. OpenEvolve!CommandInv'
    BY <1>1, <2>1 DEF OpenEvolve!TypeOK, OpenEvolve!Begin, OpenEvolve!Nothing
  <2>3. OpenEvolve!ProcessInv'
    BY <1>1, <2>1 DEF OpenEvolve!TypeOK, OpenEvolve!Begin, OpenEvolve!Nothing
  <2>4. OpenEvolve!ArtifactInv'
    BY <1>1, <2>1 DEF OpenEvolve!TypeOK, OpenEvolve!Begin, OpenEvolve!Nothing
  <2>5. OpenEvolve!FinishedInv'
    BY <1>1, <2>1 DEF OpenEvolve!TypeOK, OpenEvolve!Begin, OpenEvolve!Nothing
  <2>6. OpenEvolve!RepairIsHonest'
    BY <1>1, <2>1 DEF OpenEvolve!TypeOK, OpenEvolve!Begin, OpenEvolve!Nothing
  <2> QED BY <2>1, <2>2, <2>3, <2>4, <2>5, <2>6
<1>2. CASE OpenEvolve!Announce
  <2>1. OpenEvolve!TypeOK'
    <3>1. /\ v5' \in BOOLEAN /\ v9' \in BOOLEAN /\ v10' \in BOOLEAN
          /\ v14' \in BOOLEAN /\ v21' \in BOOLEAN
      BY <1>2 DEF OpenEvolve!TypeOK, OpenEvolve!Announce
    <3>2. /\ v4' \in OpenEvolve!Controls \cup {OpenEvolve!Nothing} /\ v13' \in OpenEvolve!Controls
               \cup {OpenEvolve!Nothing}
          /\ v17' \in OpenEvolve!Controls \cup {OpenEvolve!Nothing}
      BY <1>2 DEF OpenEvolve!TypeOK, OpenEvolve!Announce
    <3>3. v8' \in 0..EvolveSlots /\ v18' \in 0..EvolveRuns /\ v19' \in 0..EvolveRepairs
      BY <1>2 DEF OpenEvolve!TypeOK, OpenEvolve!Announce
    <3> QED BY <1>2, <3>1, <3>2, <3>3 DEF OpenEvolve!TypeOK, OpenEvolve!Announce
  <2>2. OpenEvolve!CommandInv'
    BY <1>2, <2>1 DEF OpenEvolve!TypeOK, OpenEvolve!Announce
  <2>3. OpenEvolve!ProcessInv'
    BY <1>2, <2>1 DEF OpenEvolve!TypeOK, OpenEvolve!Announce
  <2>4. OpenEvolve!ArtifactInv'
    BY <1>2, <2>1 DEF OpenEvolve!TypeOK, OpenEvolve!Announce
  <2>5. OpenEvolve!FinishedInv'
    BY <1>2, <2>1 DEF OpenEvolve!TypeOK, OpenEvolve!Announce
  <2>6. OpenEvolve!RepairIsHonest'
    BY <1>2, <2>1 DEF OpenEvolve!TypeOK, OpenEvolve!Announce
  <2> QED BY <2>1, <2>2, <2>3, <2>4, <2>5, <2>6
<1>3. CASE OpenEvolve!StartNative
  <2>1. OpenEvolve!TypeOK'
    <3>1. /\ v5' \in BOOLEAN /\ v9' \in BOOLEAN /\ v10' \in BOOLEAN
          /\ v14' \in BOOLEAN /\ v21' \in BOOLEAN
      BY <1>3 DEF OpenEvolve!TypeOK, OpenEvolve!StartNative, OpenEvolve!Start
    <3>2. /\ v4' \in OpenEvolve!Controls \cup {OpenEvolve!Nothing} /\ v13' \in OpenEvolve!Controls
               \cup {OpenEvolve!Nothing}
          /\ v17' \in OpenEvolve!Controls \cup {OpenEvolve!Nothing}
      BY <1>3 DEF OpenEvolve!TypeOK, OpenEvolve!StartNative, OpenEvolve!Start
    <3>3. v8' \in 0..EvolveSlots /\ v18' \in 0..EvolveRuns /\ v19' \in 0..EvolveRepairs
      BY <1>3 DEF OpenEvolve!TypeOK, OpenEvolve!StartNative, OpenEvolve!Start
    <3> QED BY <1>3, <3>1, <3>2, <3>3 DEF OpenEvolve!TypeOK, OpenEvolve!StartNative,
               OpenEvolve!Start
  <2>2. OpenEvolve!CommandInv'
    BY <1>3, <2>1 DEF OpenEvolve!TypeOK, OpenEvolve!StartNative, OpenEvolve!Start
  <2>3. OpenEvolve!ProcessInv'
    BY <1>3, <2>1 DEF OpenEvolve!TypeOK, OpenEvolve!StartNative, OpenEvolve!Start
  <2>4. OpenEvolve!ArtifactInv'
    BY <1>3, <2>1 DEF OpenEvolve!TypeOK, OpenEvolve!StartNative, OpenEvolve!Start
  <2>5. OpenEvolve!FinishedInv'
    BY <1>3, <2>1 DEF OpenEvolve!TypeOK, OpenEvolve!StartNative, OpenEvolve!Start
  <2>6. OpenEvolve!RepairIsHonest'
    BY <1>3, <2>1 DEF OpenEvolve!TypeOK, OpenEvolve!StartNative, OpenEvolve!Start
  <2> QED BY <2>1, <2>2, <2>3, <2>4, <2>5, <2>6
<1>4. CASE OpenEvolve!StartSky
  <2>1. OpenEvolve!TypeOK'
    <3>1. /\ v5' \in BOOLEAN /\ v9' \in BOOLEAN /\ v10' \in BOOLEAN
          /\ v14' \in BOOLEAN /\ v21' \in BOOLEAN
      BY <1>4 DEF OpenEvolve!TypeOK, OpenEvolve!StartSky, OpenEvolve!Start
    <3>2. /\ v4' \in OpenEvolve!Controls \cup {OpenEvolve!Nothing} /\ v13' \in OpenEvolve!Controls
               \cup {OpenEvolve!Nothing}
          /\ v17' \in OpenEvolve!Controls \cup {OpenEvolve!Nothing}
      BY <1>4 DEF OpenEvolve!TypeOK, OpenEvolve!StartSky, OpenEvolve!Start
    <3>3. v8' \in 0..EvolveSlots /\ v18' \in 0..EvolveRuns /\ v19' \in 0..EvolveRepairs
      BY <1>4 DEF OpenEvolve!TypeOK, OpenEvolve!StartSky, OpenEvolve!Start
    <3> QED BY <1>4, <3>1, <3>2, <3>3 DEF OpenEvolve!TypeOK, OpenEvolve!StartSky, OpenEvolve!Start
  <2>2. OpenEvolve!CommandInv'
    BY <1>4, <2>1 DEF OpenEvolve!TypeOK, OpenEvolve!StartSky, OpenEvolve!Start
  <2>3. OpenEvolve!ProcessInv'
    BY <1>4, <2>1 DEF OpenEvolve!TypeOK, OpenEvolve!StartSky, OpenEvolve!Start
  <2>4. OpenEvolve!ArtifactInv'
    BY <1>4, <2>1 DEF OpenEvolve!TypeOK, OpenEvolve!StartSky, OpenEvolve!Start
  <2>5. OpenEvolve!FinishedInv'
    BY <1>4, <2>1 DEF OpenEvolve!TypeOK, OpenEvolve!StartSky, OpenEvolve!Start
  <2>6. OpenEvolve!RepairIsHonest'
    BY <1>4, <2>1 DEF OpenEvolve!TypeOK, OpenEvolve!StartSky, OpenEvolve!Start
  <2> QED BY <2>1, <2>2, <2>3, <2>4, <2>5, <2>6
<1>5. CASE OpenEvolve!StartPlain
  <2>1. OpenEvolve!TypeOK'
    <3>1. /\ v5' \in BOOLEAN /\ v9' \in BOOLEAN /\ v10' \in BOOLEAN
          /\ v14' \in BOOLEAN /\ v21' \in BOOLEAN
      BY <1>5 DEF OpenEvolve!TypeOK, OpenEvolve!StartPlain, OpenEvolve!Start
    <3>2. /\ v4' \in OpenEvolve!Controls \cup {OpenEvolve!Nothing} /\ v13' \in OpenEvolve!Controls
               \cup {OpenEvolve!Nothing}
          /\ v17' \in OpenEvolve!Controls \cup {OpenEvolve!Nothing}
      BY <1>5 DEF OpenEvolve!TypeOK, OpenEvolve!StartPlain, OpenEvolve!Start
    <3>3. v8' \in 0..EvolveSlots /\ v18' \in 0..EvolveRuns /\ v19' \in 0..EvolveRepairs
      BY <1>5 DEF OpenEvolve!TypeOK, OpenEvolve!StartPlain, OpenEvolve!Start
    <3> QED BY <1>5, <3>1, <3>2, <3>3 DEF OpenEvolve!TypeOK, OpenEvolve!StartPlain,
               OpenEvolve!Start
  <2>2. OpenEvolve!CommandInv'
    BY <1>5, <2>1 DEF OpenEvolve!TypeOK, OpenEvolve!StartPlain, OpenEvolve!Start
  <2>3. OpenEvolve!ProcessInv'
    BY <1>5, <2>1 DEF OpenEvolve!TypeOK, OpenEvolve!StartPlain, OpenEvolve!Start
  <2>4. OpenEvolve!ArtifactInv'
    BY <1>5, <2>1 DEF OpenEvolve!TypeOK, OpenEvolve!StartPlain, OpenEvolve!Start
  <2>5. OpenEvolve!FinishedInv'
    BY <1>5, <2>1 DEF OpenEvolve!TypeOK, OpenEvolve!StartPlain, OpenEvolve!Start
  <2>6. OpenEvolve!RepairIsHonest'
    BY <1>5, <2>1 DEF OpenEvolve!TypeOK, OpenEvolve!StartPlain, OpenEvolve!Start
  <2> QED BY <2>1, <2>2, <2>3, <2>4, <2>5, <2>6
<1>6. CASE OpenEvolve!StartGoal
  <2>1. OpenEvolve!TypeOK'
    <3>1. /\ v5' \in BOOLEAN /\ v9' \in BOOLEAN /\ v10' \in BOOLEAN
          /\ v14' \in BOOLEAN /\ v21' \in BOOLEAN
      BY <1>6 DEF OpenEvolve!TypeOK, OpenEvolve!StartGoal, OpenEvolve!Start
    <3>2. /\ v4' \in OpenEvolve!Controls \cup {OpenEvolve!Nothing} /\ v13' \in OpenEvolve!Controls
               \cup {OpenEvolve!Nothing}
          /\ v17' \in OpenEvolve!Controls \cup {OpenEvolve!Nothing}
      BY <1>6 DEF OpenEvolve!TypeOK, OpenEvolve!StartGoal, OpenEvolve!Start
    <3>3. v8' \in 0..EvolveSlots /\ v18' \in 0..EvolveRuns /\ v19' \in 0..EvolveRepairs
      BY <1>6 DEF OpenEvolve!TypeOK, OpenEvolve!StartGoal, OpenEvolve!Start
    <3> QED BY <1>6, <3>1, <3>2, <3>3 DEF OpenEvolve!TypeOK, OpenEvolve!StartGoal,
               OpenEvolve!Start
  <2>2. OpenEvolve!CommandInv'
    BY <1>6, <2>1 DEF OpenEvolve!TypeOK, OpenEvolve!StartGoal, OpenEvolve!Start
  <2>3. OpenEvolve!ProcessInv'
    BY <1>6, <2>1 DEF OpenEvolve!TypeOK, OpenEvolve!StartGoal, OpenEvolve!Start
  <2>4. OpenEvolve!ArtifactInv'
    BY <1>6, <2>1 DEF OpenEvolve!TypeOK, OpenEvolve!StartGoal, OpenEvolve!Start
  <2>5. OpenEvolve!FinishedInv'
    BY <1>6, <2>1 DEF OpenEvolve!TypeOK, OpenEvolve!StartGoal, OpenEvolve!Start
  <2>6. OpenEvolve!RepairIsHonest'
    BY <1>6, <2>1 DEF OpenEvolve!TypeOK, OpenEvolve!StartGoal, OpenEvolve!Start
  <2> QED BY <2>1, <2>2, <2>3, <2>4, <2>5, <2>6
<1> QED BY <1>1, <1>2, <1>3, <1>4, <1>5, <1>6 DEF OpenEvolveLaunchStep

LEMMA OpenEvolveWaitKeeps == ASSUME OpenEvolveInv, OpenEvolveWaitStep PROVE OpenEvolveInv'
<1> USE OpenEvolveBounds DEF OpenEvolveInv, OpenEvolve!CommandInv, OpenEvolve!ProcessInv,
       OpenEvolve!ArtifactInv, OpenEvolve!FinishedInv, OpenEvolve!FinishedIsReal,
       OpenEvolve!RepairIsHonest, OpenEvolve!Exits, OpenEvolve!Go, OpenEvolve!manifest,
       OpenEvolve!search, OpenEvolve!repair, OpenEvolve!locals
<1>1. CASE OpenEvolve!PollAgent
  <2>0. /\ v13' \in OpenEvolve!Controls
        /\ (v12' = "grace" => v13'.rc = "bad") /\ ~v13'.hard
    <3>1. CASE v11 \in OpenEvolve!Exits /\ v13' = [rc |-> v11, late |-> FALSE, hard |-> FALSE]
               /\ v12' # "grace"
      BY <3>1 DEF OpenEvolve!Controls
    <3>2. CASE \E late \in BOOLEAN : v13' = [rc |-> "bad", late |-> late, hard |-> FALSE]
      BY <3>2 DEF OpenEvolve!Controls
    <3> QED BY <1>1, <3>1, <3>2 DEF OpenEvolve!PollAgent
  <2>1. OpenEvolve!TypeOK'
    <3>1. /\ v5' \in BOOLEAN /\ v9' \in BOOLEAN /\ v10' \in BOOLEAN
          /\ v14' \in BOOLEAN /\ v21' \in BOOLEAN
      BY <1>1 DEF OpenEvolve!TypeOK, OpenEvolve!PollAgent, OpenEvolve!Nothing, OpenEvolve!Controls
    <3>2. /\ v4' \in OpenEvolve!Controls \cup {OpenEvolve!Nothing} /\ v13' \in OpenEvolve!Controls
               \cup {OpenEvolve!Nothing}
          /\ v17' \in OpenEvolve!Controls \cup {OpenEvolve!Nothing}
      BY <1>1, <2>0 DEF OpenEvolve!TypeOK, OpenEvolve!PollAgent
    <3>3. v8' \in 0..EvolveSlots /\ v18' \in 0..EvolveRuns /\ v19' \in 0..EvolveRepairs
      BY <1>1 DEF OpenEvolve!TypeOK, OpenEvolve!PollAgent, OpenEvolve!Nothing, OpenEvolve!Controls
    <3> QED BY <1>1, <3>1, <3>2, <3>3 DEF OpenEvolve!TypeOK, OpenEvolve!PollAgent,
               OpenEvolve!Nothing, OpenEvolve!Controls
  <2>2. OpenEvolve!CommandInv'
    BY <1>1, <2>1 DEF OpenEvolve!TypeOK, OpenEvolve!PollAgent, OpenEvolve!Nothing,
       OpenEvolve!Controls
  <2>3. OpenEvolve!ProcessInv'
    BY <1>1, <2>1, <2>0 DEF OpenEvolve!TypeOK, OpenEvolve!PollAgent, OpenEvolve!Nothing,
       OpenEvolve!Controls
  <2>4. OpenEvolve!ArtifactInv'
    BY <1>1, <2>1 DEF OpenEvolve!TypeOK, OpenEvolve!PollAgent, OpenEvolve!Nothing,
       OpenEvolve!Controls
  <2>5. OpenEvolve!FinishedInv'
    BY <1>1, <2>1 DEF OpenEvolve!TypeOK, OpenEvolve!PollAgent, OpenEvolve!Nothing,
       OpenEvolve!Controls
  <2>6. OpenEvolve!RepairIsHonest'
    BY <1>1, <2>1 DEF OpenEvolve!TypeOK, OpenEvolve!PollAgent, OpenEvolve!Nothing,
       OpenEvolve!Controls
  <2> QED BY <2>1, <2>2, <2>3, <2>4, <2>5, <2>6
<1>2. CASE OpenEvolve!Grace
  <2>0. /\ v13' \in OpenEvolve!Controls /\ (v13'.hard => v13'.rc = "bad")
    <3>1. CASE v11 = "alive"
      BY <1>2, <3>1, OpenEvolveKilled DEF OpenEvolve!Grace
    <3>2. CASE v11 # "alive"
      <4>1. v11 \in OpenEvolve!Exits
        BY <1>2, <3>2 DEF OpenEvolve!Grace, OpenEvolve!TypeOK
      <4>2. v13' = [v13 EXCEPT !.rc = v11]
        BY <1>2, <3>2 DEF OpenEvolve!Grace
      <4>3. v13 \in OpenEvolve!Controls /\ ~v13.hard
        BY <1>2 DEF OpenEvolve!Grace
      <4>4. v13' \in OpenEvolve!Controls /\ ~v13'.hard
        BY ONLY <4>1, <4>2, <4>3, OpenEvolveWaited DEF OpenEvolve!Exits
      <4> QED BY <4>4
    <3> QED BY <3>1, <3>2
  <2>1. OpenEvolve!TypeOK'
    <3>1. /\ v5' \in BOOLEAN /\ v9' \in BOOLEAN /\ v10' \in BOOLEAN
          /\ v14' \in BOOLEAN /\ v21' \in BOOLEAN
      BY <1>2 DEF OpenEvolve!TypeOK, OpenEvolve!Grace, OpenEvolve!Nothing, OpenEvolve!Controls
    <3>2. /\ v4' \in OpenEvolve!Controls \cup {OpenEvolve!Nothing} /\ v13' \in OpenEvolve!Controls
               \cup {OpenEvolve!Nothing}
          /\ v17' \in OpenEvolve!Controls \cup {OpenEvolve!Nothing}
      BY <1>2, <2>0 DEF OpenEvolve!TypeOK, OpenEvolve!Grace
    <3>3. v8' \in 0..EvolveSlots /\ v18' \in 0..EvolveRuns /\ v19' \in 0..EvolveRepairs
      BY <1>2 DEF OpenEvolve!TypeOK, OpenEvolve!Grace, OpenEvolve!Nothing, OpenEvolve!Controls
    <3> QED BY <1>2, <3>1, <3>2, <3>3 DEF OpenEvolve!TypeOK, OpenEvolve!Grace, OpenEvolve!Nothing,
               OpenEvolve!Controls
  <2>2. OpenEvolve!CommandInv'
    BY <1>2, <2>1 DEF OpenEvolve!TypeOK, OpenEvolve!Grace, OpenEvolve!Nothing, OpenEvolve!Controls
  <2>3. OpenEvolve!ProcessInv'
    BY <1>2, <2>1, <2>0 DEF OpenEvolve!TypeOK, OpenEvolve!Grace, OpenEvolve!Nothing,
       OpenEvolve!Controls
  <2>4. OpenEvolve!ArtifactInv'
    BY <1>2, <2>1 DEF OpenEvolve!TypeOK, OpenEvolve!Grace, OpenEvolve!Nothing, OpenEvolve!Controls
  <2>5. OpenEvolve!FinishedInv'
    BY <1>2, <2>1 DEF OpenEvolve!TypeOK, OpenEvolve!Grace, OpenEvolve!Nothing, OpenEvolve!Controls
  <2>6. OpenEvolve!RepairIsHonest'
    BY <1>2, <2>1 DEF OpenEvolve!TypeOK, OpenEvolve!Grace, OpenEvolve!Nothing, OpenEvolve!Controls
  <2> QED BY <2>1, <2>2, <2>3, <2>4, <2>5, <2>6
<1>3. CASE OpenEvolve!Drain
  <2>1. OpenEvolve!TypeOK'
    <3>1. /\ v5' \in BOOLEAN /\ v9' \in BOOLEAN /\ v10' \in BOOLEAN
          /\ v14' \in BOOLEAN /\ v21' \in BOOLEAN
      BY <1>3 DEF OpenEvolve!TypeOK, OpenEvolve!Drain
    <3>2. /\ v4' \in OpenEvolve!Controls \cup {OpenEvolve!Nothing} /\ v13' \in OpenEvolve!Controls
               \cup {OpenEvolve!Nothing}
          /\ v17' \in OpenEvolve!Controls \cup {OpenEvolve!Nothing}
      BY <1>3 DEF OpenEvolve!TypeOK, OpenEvolve!Drain
    <3>3. v8' \in 0..EvolveSlots /\ v18' \in 0..EvolveRuns /\ v19' \in 0..EvolveRepairs
      BY <1>3 DEF OpenEvolve!TypeOK, OpenEvolve!Drain
    <3> QED BY <1>3, <3>1, <3>2, <3>3 DEF OpenEvolve!TypeOK, OpenEvolve!Drain
  <2>2. OpenEvolve!CommandInv'
    BY <1>3, <2>1 DEF OpenEvolve!TypeOK, OpenEvolve!Drain
  <2>3. OpenEvolve!ProcessInv'
    BY <1>3, <2>1 DEF OpenEvolve!TypeOK, OpenEvolve!Drain
  <2>4. OpenEvolve!ArtifactInv'
    BY <1>3, <2>1 DEF OpenEvolve!TypeOK, OpenEvolve!Drain
  <2>5. OpenEvolve!FinishedInv'
    BY <1>3, <2>1 DEF OpenEvolve!TypeOK, OpenEvolve!Drain
  <2>6. OpenEvolve!RepairIsHonest'
    BY <1>3, <2>1 DEF OpenEvolve!TypeOK, OpenEvolve!Drain
  <2> QED BY <2>1, <2>2, <2>3, <2>4, <2>5, <2>6
<1>4. CASE OpenEvolve!Finalize
  <2>1. OpenEvolve!TypeOK'
    <3>1. /\ v5' \in BOOLEAN /\ v9' \in BOOLEAN /\ v10' \in BOOLEAN
          /\ v14' \in BOOLEAN /\ v21' \in BOOLEAN
      BY <1>4 DEF OpenEvolve!TypeOK, OpenEvolve!Finalize, OpenEvolve!Closeout,
         OpenEvolve!Completed
    <3>2. /\ v4' \in OpenEvolve!Controls \cup {OpenEvolve!Nothing} /\ v13' \in OpenEvolve!Controls
               \cup {OpenEvolve!Nothing}
          /\ v17' \in OpenEvolve!Controls \cup {OpenEvolve!Nothing}
      BY <1>4 DEF OpenEvolve!TypeOK, OpenEvolve!Finalize, OpenEvolve!Closeout,
         OpenEvolve!Completed
    <3>3. v8' \in 0..EvolveSlots /\ v18' \in 0..EvolveRuns /\ v19' \in 0..EvolveRepairs
      BY <1>4 DEF OpenEvolve!TypeOK, OpenEvolve!Finalize, OpenEvolve!Closeout,
         OpenEvolve!Completed
    <3> QED BY <1>4, <3>1, <3>2, <3>3 DEF OpenEvolve!TypeOK, OpenEvolve!Finalize,
               OpenEvolve!Closeout, OpenEvolve!Completed
  <2>2. OpenEvolve!CommandInv'
    BY <1>4, <2>1 DEF OpenEvolve!TypeOK, OpenEvolve!Finalize, OpenEvolve!Closeout,
       OpenEvolve!Completed
  <2>3. OpenEvolve!ProcessInv'
    BY <1>4, <2>1 DEF OpenEvolve!TypeOK, OpenEvolve!Finalize, OpenEvolve!Closeout,
       OpenEvolve!Completed
  <2>4. OpenEvolve!ArtifactInv'
    BY <1>4, <2>1 DEF OpenEvolve!TypeOK, OpenEvolve!Finalize, OpenEvolve!Closeout,
       OpenEvolve!Completed
  <2>5. OpenEvolve!FinishedInv'
    BY <1>4, <2>1 DEF OpenEvolve!TypeOK, OpenEvolve!Finalize, OpenEvolve!Closeout,
       OpenEvolve!Completed
  <2>6. OpenEvolve!RepairIsHonest'
    BY <1>4, <2>1 DEF OpenEvolve!TypeOK, OpenEvolve!Finalize, OpenEvolve!Closeout,
       OpenEvolve!Completed
  <2> QED BY <2>1, <2>2, <2>3, <2>4, <2>5, <2>6
<1> QED BY <1>1, <1>2, <1>3, <1>4 DEF OpenEvolveWaitStep

LEMMA OpenEvolveJudgeKeeps == ASSUME OpenEvolveInv, OpenEvolveJudgeStep PROVE OpenEvolveInv'
<1> USE OpenEvolveBounds DEF OpenEvolveInv, OpenEvolve!CommandInv, OpenEvolve!ProcessInv,
       OpenEvolve!ArtifactInv, OpenEvolve!FinishedInv, OpenEvolve!FinishedIsReal,
       OpenEvolve!RepairIsHonest, OpenEvolve!Exits, OpenEvolve!Go, OpenEvolve!manifest,
       OpenEvolve!search, OpenEvolve!repair, OpenEvolve!locals
<1>1. CASE OpenEvolve!FinalNative
  <2>1. OpenEvolve!TypeOK'
    <3>1. /\ v5' \in BOOLEAN /\ v9' \in BOOLEAN /\ v10' \in BOOLEAN
          /\ v14' \in BOOLEAN /\ v21' \in BOOLEAN
      BY <1>1 DEF OpenEvolve!TypeOK, OpenEvolve!FinalNative, OpenEvolve!Evaluated
    <3>2. /\ v4' \in OpenEvolve!Controls \cup {OpenEvolve!Nothing} /\ v13' \in OpenEvolve!Controls
               \cup {OpenEvolve!Nothing}
          /\ v17' \in OpenEvolve!Controls \cup {OpenEvolve!Nothing}
      BY <1>1 DEF OpenEvolve!TypeOK, OpenEvolve!FinalNative, OpenEvolve!Evaluated
    <3>3. v8' \in 0..EvolveSlots /\ v18' \in 0..EvolveRuns /\ v19' \in 0..EvolveRepairs
      BY <1>1 DEF OpenEvolve!TypeOK, OpenEvolve!FinalNative, OpenEvolve!Evaluated
    <3> QED BY <1>1, <3>1, <3>2, <3>3 DEF OpenEvolve!TypeOK, OpenEvolve!FinalNative,
               OpenEvolve!Evaluated
  <2>2. OpenEvolve!CommandInv'
    BY <1>1, <2>1 DEF OpenEvolve!TypeOK, OpenEvolve!FinalNative, OpenEvolve!Evaluated
  <2>3. OpenEvolve!ProcessInv'
    BY <1>1, <2>1 DEF OpenEvolve!TypeOK, OpenEvolve!FinalNative, OpenEvolve!Evaluated
  <2>4. OpenEvolve!ArtifactInv'
    BY <1>1, <2>1 DEF OpenEvolve!TypeOK, OpenEvolve!FinalNative, OpenEvolve!Evaluated
  <2>5. OpenEvolve!FinishedInv'
    BY <1>1, <2>1 DEF OpenEvolve!TypeOK, OpenEvolve!FinalNative, OpenEvolve!Evaluated
  <2>6. OpenEvolve!RepairIsHonest'
    BY <1>1, <2>1 DEF OpenEvolve!TypeOK, OpenEvolve!FinalNative, OpenEvolve!Evaluated
  <2> QED BY <2>1, <2>2, <2>3, <2>4, <2>5, <2>6
<1>2. CASE OpenEvolve!FinalSky
  <2>1. OpenEvolve!TypeOK'
    <3>1. /\ v5' \in BOOLEAN /\ v9' \in BOOLEAN /\ v10' \in BOOLEAN
          /\ v14' \in BOOLEAN /\ v21' \in BOOLEAN
      BY <1>2 DEF OpenEvolve!TypeOK, OpenEvolve!FinalSky, OpenEvolve!Evaluated
    <3>2. /\ v4' \in OpenEvolve!Controls \cup {OpenEvolve!Nothing} /\ v13' \in OpenEvolve!Controls
               \cup {OpenEvolve!Nothing}
          /\ v17' \in OpenEvolve!Controls \cup {OpenEvolve!Nothing}
      BY <1>2 DEF OpenEvolve!TypeOK, OpenEvolve!FinalSky, OpenEvolve!Evaluated
    <3>3. v8' \in 0..EvolveSlots /\ v18' \in 0..EvolveRuns /\ v19' \in 0..EvolveRepairs
      BY <1>2 DEF OpenEvolve!TypeOK, OpenEvolve!FinalSky, OpenEvolve!Evaluated
    <3> QED BY <1>2, <3>1, <3>2, <3>3 DEF OpenEvolve!TypeOK, OpenEvolve!FinalSky,
               OpenEvolve!Evaluated
  <2>2. OpenEvolve!CommandInv'
    BY <1>2, <2>1 DEF OpenEvolve!TypeOK, OpenEvolve!FinalSky, OpenEvolve!Evaluated
  <2>3. OpenEvolve!ProcessInv'
    BY <1>2, <2>1 DEF OpenEvolve!TypeOK, OpenEvolve!FinalSky, OpenEvolve!Evaluated
  <2>4. OpenEvolve!ArtifactInv'
    BY <1>2, <2>1 DEF OpenEvolve!TypeOK, OpenEvolve!FinalSky, OpenEvolve!Evaluated
  <2>5. OpenEvolve!FinishedInv'
    BY <1>2, <2>1 DEF OpenEvolve!TypeOK, OpenEvolve!FinalSky, OpenEvolve!Evaluated
  <2>6. OpenEvolve!RepairIsHonest'
    BY <1>2, <2>1 DEF OpenEvolve!TypeOK, OpenEvolve!FinalSky, OpenEvolve!Evaluated
  <2> QED BY <2>1, <2>2, <2>3, <2>4, <2>5, <2>6
<1>3. CASE OpenEvolve!FinalPlain
  <2>1. OpenEvolve!TypeOK'
    <3>1. /\ v5' \in BOOLEAN /\ v9' \in BOOLEAN /\ v10' \in BOOLEAN
          /\ v14' \in BOOLEAN /\ v21' \in BOOLEAN
      BY <1>3 DEF OpenEvolve!TypeOK, OpenEvolve!FinalPlain, OpenEvolve!Evaluated
    <3>2. /\ v4' \in OpenEvolve!Controls \cup {OpenEvolve!Nothing} /\ v13' \in OpenEvolve!Controls
               \cup {OpenEvolve!Nothing}
          /\ v17' \in OpenEvolve!Controls \cup {OpenEvolve!Nothing}
      BY <1>3 DEF OpenEvolve!TypeOK, OpenEvolve!FinalPlain, OpenEvolve!Evaluated
    <3>3. v8' \in 0..EvolveSlots /\ v18' \in 0..EvolveRuns /\ v19' \in 0..EvolveRepairs
      BY <1>3 DEF OpenEvolve!TypeOK, OpenEvolve!FinalPlain, OpenEvolve!Evaluated
    <3> QED BY <1>3, <3>1, <3>2, <3>3 DEF OpenEvolve!TypeOK, OpenEvolve!FinalPlain,
               OpenEvolve!Evaluated
  <2>2. OpenEvolve!CommandInv'
    BY <1>3, <2>1 DEF OpenEvolve!TypeOK, OpenEvolve!FinalPlain, OpenEvolve!Evaluated
  <2>3. OpenEvolve!ProcessInv'
    BY <1>3, <2>1 DEF OpenEvolve!TypeOK, OpenEvolve!FinalPlain, OpenEvolve!Evaluated
  <2>4. OpenEvolve!ArtifactInv'
    BY <1>3, <2>1 DEF OpenEvolve!TypeOK, OpenEvolve!FinalPlain, OpenEvolve!Evaluated
  <2>5. OpenEvolve!FinishedInv'
    BY <1>3, <2>1 DEF OpenEvolve!TypeOK, OpenEvolve!FinalPlain, OpenEvolve!Evaluated
  <2>6. OpenEvolve!RepairIsHonest'
    BY <1>3, <2>1 DEF OpenEvolve!TypeOK, OpenEvolve!FinalPlain, OpenEvolve!Evaluated
  <2> QED BY <2>1, <2>2, <2>3, <2>4, <2>5, <2>6
<1>4. CASE OpenEvolve!FinalGoal
  <2>1. OpenEvolve!TypeOK'
    <3>1. /\ v5' \in BOOLEAN /\ v9' \in BOOLEAN /\ v10' \in BOOLEAN
          /\ v14' \in BOOLEAN /\ v21' \in BOOLEAN
      BY <1>4 DEF OpenEvolve!TypeOK, OpenEvolve!FinalGoal, OpenEvolve!Evaluated
    <3>2. /\ v4' \in OpenEvolve!Controls \cup {OpenEvolve!Nothing} /\ v13' \in OpenEvolve!Controls
               \cup {OpenEvolve!Nothing}
          /\ v17' \in OpenEvolve!Controls \cup {OpenEvolve!Nothing}
      BY <1>4 DEF OpenEvolve!TypeOK, OpenEvolve!FinalGoal, OpenEvolve!Evaluated
    <3>3. v8' \in 0..EvolveSlots /\ v18' \in 0..EvolveRuns /\ v19' \in 0..EvolveRepairs
      BY <1>4 DEF OpenEvolve!TypeOK, OpenEvolve!FinalGoal, OpenEvolve!Evaluated
    <3> QED BY <1>4, <3>1, <3>2, <3>3 DEF OpenEvolve!TypeOK, OpenEvolve!FinalGoal,
               OpenEvolve!Evaluated
  <2>2. OpenEvolve!CommandInv'
    BY <1>4, <2>1 DEF OpenEvolve!TypeOK, OpenEvolve!FinalGoal, OpenEvolve!Evaluated
  <2>3. OpenEvolve!ProcessInv'
    BY <1>4, <2>1 DEF OpenEvolve!TypeOK, OpenEvolve!FinalGoal, OpenEvolve!Evaluated
  <2>4. OpenEvolve!ArtifactInv'
    BY <1>4, <2>1 DEF OpenEvolve!TypeOK, OpenEvolve!FinalGoal, OpenEvolve!Evaluated
  <2>5. OpenEvolve!FinishedInv'
    BY <1>4, <2>1 DEF OpenEvolve!TypeOK, OpenEvolve!FinalGoal, OpenEvolve!Evaluated
  <2>6. OpenEvolve!RepairIsHonest'
    BY <1>4, <2>1 DEF OpenEvolve!TypeOK, OpenEvolve!FinalGoal, OpenEvolve!Evaluated
  <2> QED BY <2>1, <2>2, <2>3, <2>4, <2>5, <2>6
<1>5. CASE OpenEvolve!NoFinal
  <2>1. OpenEvolve!TypeOK'
    <3>1. /\ v5' \in BOOLEAN /\ v9' \in BOOLEAN /\ v10' \in BOOLEAN
          /\ v14' \in BOOLEAN /\ v21' \in BOOLEAN
      BY <1>5 DEF OpenEvolve!TypeOK, OpenEvolve!NoFinal
    <3>2. /\ v4' \in OpenEvolve!Controls \cup {OpenEvolve!Nothing} /\ v13' \in OpenEvolve!Controls
               \cup {OpenEvolve!Nothing}
          /\ v17' \in OpenEvolve!Controls \cup {OpenEvolve!Nothing}
      BY <1>5 DEF OpenEvolve!TypeOK, OpenEvolve!NoFinal
    <3>3. v8' \in 0..EvolveSlots /\ v18' \in 0..EvolveRuns /\ v19' \in 0..EvolveRepairs
      BY <1>5 DEF OpenEvolve!TypeOK, OpenEvolve!NoFinal
    <3> QED BY <1>5, <3>1, <3>2, <3>3 DEF OpenEvolve!TypeOK, OpenEvolve!NoFinal
  <2>2. OpenEvolve!CommandInv'
    BY <1>5, <2>1 DEF OpenEvolve!TypeOK, OpenEvolve!NoFinal
  <2>3. OpenEvolve!ProcessInv'
    BY <1>5, <2>1 DEF OpenEvolve!TypeOK, OpenEvolve!NoFinal
  <2>4. OpenEvolve!ArtifactInv'
    BY <1>5, <2>1 DEF OpenEvolve!TypeOK, OpenEvolve!NoFinal
  <2>5. OpenEvolve!FinishedInv'
    BY <1>5, <2>1 DEF OpenEvolve!TypeOK, OpenEvolve!NoFinal
  <2>6. OpenEvolve!RepairIsHonest'
    BY <1>5, <2>1 DEF OpenEvolve!TypeOK, OpenEvolve!NoFinal
  <2> QED BY <2>1, <2>2, <2>3, <2>4, <2>5, <2>6
<1>6. CASE OpenEvolve!Verdict
  <2>1. OpenEvolve!TypeOK'
    <3>1. /\ v5' \in BOOLEAN /\ v9' \in BOOLEAN /\ v10' \in BOOLEAN
          /\ v14' \in BOOLEAN /\ v21' \in BOOLEAN
      BY <1>6 DEF OpenEvolve!TypeOK, OpenEvolve!Verdict, OpenEvolve!Passes, OpenEvolve!ExitOk,
         OpenEvolve!IncompleteReason, OpenEvolve!Settled, OpenEvolve!Nothing, OpenEvolve!Controls
    <3>2. /\ v4' \in OpenEvolve!Controls \cup {OpenEvolve!Nothing} /\ v13' \in OpenEvolve!Controls
               \cup {OpenEvolve!Nothing}
          /\ v17' \in OpenEvolve!Controls \cup {OpenEvolve!Nothing}
      BY <1>6 DEF OpenEvolve!TypeOK, OpenEvolve!Verdict, OpenEvolve!Passes, OpenEvolve!ExitOk,
         OpenEvolve!IncompleteReason, OpenEvolve!Settled, OpenEvolve!Nothing, OpenEvolve!Controls
    <3>3. v8' \in 0..EvolveSlots /\ v18' \in 0..EvolveRuns /\ v19' \in 0..EvolveRepairs
      BY <1>6 DEF OpenEvolve!TypeOK, OpenEvolve!Verdict, OpenEvolve!Passes, OpenEvolve!ExitOk,
         OpenEvolve!IncompleteReason, OpenEvolve!Settled, OpenEvolve!Nothing, OpenEvolve!Controls
    <3> QED BY <1>6, <3>1, <3>2, <3>3 DEF OpenEvolve!TypeOK, OpenEvolve!Verdict,
               OpenEvolve!Passes, OpenEvolve!ExitOk, OpenEvolve!IncompleteReason,
               OpenEvolve!Settled, OpenEvolve!Nothing, OpenEvolve!Controls
  <2>2. OpenEvolve!CommandInv'
    BY <1>6, <2>1 DEF OpenEvolve!TypeOK, OpenEvolve!Verdict, OpenEvolve!Passes, OpenEvolve!ExitOk,
       OpenEvolve!IncompleteReason, OpenEvolve!Settled, OpenEvolve!Nothing, OpenEvolve!Controls
  <2>3. OpenEvolve!ProcessInv'
    BY <1>6, <2>1 DEF OpenEvolve!TypeOK, OpenEvolve!Verdict, OpenEvolve!Passes, OpenEvolve!ExitOk,
       OpenEvolve!IncompleteReason, OpenEvolve!Settled, OpenEvolve!Nothing, OpenEvolve!Controls
  <2>4. OpenEvolve!ArtifactInv'
    BY <1>6, <2>1 DEF OpenEvolve!TypeOK, OpenEvolve!Verdict, OpenEvolve!Passes, OpenEvolve!ExitOk,
       OpenEvolve!IncompleteReason, OpenEvolve!Settled, OpenEvolve!Nothing, OpenEvolve!Controls
  <2>5. OpenEvolve!FinishedInv'
    BY <1>6, <2>1 DEF OpenEvolve!TypeOK, OpenEvolve!Verdict, OpenEvolve!Passes, OpenEvolve!ExitOk,
       OpenEvolve!IncompleteReason, OpenEvolve!Settled, OpenEvolve!Nothing, OpenEvolve!Controls
  <2>6. OpenEvolve!RepairIsHonest'
    BY <1>6, <2>1 DEF OpenEvolve!TypeOK, OpenEvolve!Verdict, OpenEvolve!Passes, OpenEvolve!ExitOk,
       OpenEvolve!IncompleteReason, OpenEvolve!Settled, OpenEvolve!Nothing, OpenEvolve!Controls
  <2> QED BY <2>1, <2>2, <2>3, <2>4, <2>5, <2>6
<1>7. CASE OpenEvolve!Dies
  <2>1. OpenEvolve!TypeOK'
    <3>1. /\ v5' \in BOOLEAN /\ v9' \in BOOLEAN /\ v10' \in BOOLEAN
          /\ v14' \in BOOLEAN /\ v21' \in BOOLEAN
      BY <1>7 DEF OpenEvolve!TypeOK, OpenEvolve!Dies
    <3>2. /\ v4' \in OpenEvolve!Controls \cup {OpenEvolve!Nothing} /\ v13' \in OpenEvolve!Controls
               \cup {OpenEvolve!Nothing}
          /\ v17' \in OpenEvolve!Controls \cup {OpenEvolve!Nothing}
      BY <1>7 DEF OpenEvolve!TypeOK, OpenEvolve!Dies
    <3>3. v8' \in 0..EvolveSlots /\ v18' \in 0..EvolveRuns /\ v19' \in 0..EvolveRepairs
      BY <1>7 DEF OpenEvolve!TypeOK, OpenEvolve!Dies
    <3> QED BY <1>7, <3>1, <3>2, <3>3 DEF OpenEvolve!TypeOK, OpenEvolve!Dies
  <2>2. OpenEvolve!CommandInv'
    BY <1>7, <2>1 DEF OpenEvolve!TypeOK, OpenEvolve!Dies
  <2>3. OpenEvolve!ProcessInv'
    BY <1>7, <2>1 DEF OpenEvolve!TypeOK, OpenEvolve!Dies
  <2>4. OpenEvolve!ArtifactInv'
    BY <1>7, <2>1 DEF OpenEvolve!TypeOK, OpenEvolve!Dies
  <2>5. OpenEvolve!FinishedInv'
    BY <1>7, <2>1 DEF OpenEvolve!TypeOK, OpenEvolve!Dies
  <2>6. OpenEvolve!RepairIsHonest'
    BY <1>7, <2>1 DEF OpenEvolve!TypeOK, OpenEvolve!Dies
  <2> QED BY <2>1, <2>2, <2>3, <2>4, <2>5, <2>6
<1> QED BY <1>1, <1>2, <1>3, <1>4, <1>5, <1>6, <1>7 DEF OpenEvolveJudgeStep

LEMMA OpenEvolveRepairKeeps == ASSUME OpenEvolveInv, OpenEvolveRepairStep PROVE OpenEvolveInv'
<1> USE OpenEvolveBounds DEF OpenEvolveInv, OpenEvolve!CommandInv, OpenEvolve!ProcessInv,
       OpenEvolve!ArtifactInv, OpenEvolve!FinishedInv, OpenEvolve!FinishedIsReal,
       OpenEvolve!RepairIsHonest, OpenEvolve!Exits, OpenEvolve!Go, OpenEvolve!manifest,
       OpenEvolve!search, OpenEvolve!repair, OpenEvolve!locals
<1>1. CASE OpenEvolve!RepairBegin
  <2>1. OpenEvolve!TypeOK'
    <3>1. /\ v5' \in BOOLEAN /\ v9' \in BOOLEAN /\ v10' \in BOOLEAN
          /\ v14' \in BOOLEAN /\ v21' \in BOOLEAN
      BY <1>1 DEF OpenEvolve!TypeOK, OpenEvolve!RepairBegin
    <3>2. /\ v4' \in OpenEvolve!Controls \cup {OpenEvolve!Nothing} /\ v13' \in OpenEvolve!Controls
               \cup {OpenEvolve!Nothing}
          /\ v17' \in OpenEvolve!Controls \cup {OpenEvolve!Nothing}
      BY <1>1 DEF OpenEvolve!TypeOK, OpenEvolve!RepairBegin
    <3>3. v8' \in 0..EvolveSlots /\ v18' \in 0..EvolveRuns /\ v19' \in 0..EvolveRepairs
      BY <1>1 DEF OpenEvolve!TypeOK, OpenEvolve!RepairBegin
    <3> QED BY <1>1, <3>1, <3>2, <3>3 DEF OpenEvolve!TypeOK, OpenEvolve!RepairBegin
  <2>2. OpenEvolve!CommandInv'
    BY <1>1, <2>1 DEF OpenEvolve!TypeOK, OpenEvolve!RepairBegin
  <2>3. OpenEvolve!ProcessInv'
    BY <1>1, <2>1 DEF OpenEvolve!TypeOK, OpenEvolve!RepairBegin
  <2>4. OpenEvolve!ArtifactInv'
    BY <1>1, <2>1 DEF OpenEvolve!TypeOK, OpenEvolve!RepairBegin
  <2>5. OpenEvolve!FinishedInv'
    BY <1>1, <2>1 DEF OpenEvolve!TypeOK, OpenEvolve!RepairBegin
  <2>6. OpenEvolve!RepairIsHonest'
    BY <1>1, <2>1 DEF OpenEvolve!TypeOK, OpenEvolve!RepairBegin
  <2> QED BY <2>1, <2>2, <2>3, <2>4, <2>5, <2>6
<1>2. CASE OpenEvolve!RepairDrain
  <2>1. OpenEvolve!TypeOK'
    <3>1. /\ v5' \in BOOLEAN /\ v9' \in BOOLEAN /\ v10' \in BOOLEAN
          /\ v14' \in BOOLEAN /\ v21' \in BOOLEAN
      BY <1>2 DEF OpenEvolve!TypeOK, OpenEvolve!RepairDrain
    <3>2. /\ v4' \in OpenEvolve!Controls \cup {OpenEvolve!Nothing} /\ v13' \in OpenEvolve!Controls
               \cup {OpenEvolve!Nothing}
          /\ v17' \in OpenEvolve!Controls \cup {OpenEvolve!Nothing}
      BY <1>2 DEF OpenEvolve!TypeOK, OpenEvolve!RepairDrain
    <3>3. v8' \in 0..EvolveSlots /\ v18' \in 0..EvolveRuns /\ v19' \in 0..EvolveRepairs
      BY <1>2 DEF OpenEvolve!TypeOK, OpenEvolve!RepairDrain
    <3> QED BY <1>2, <3>1, <3>2, <3>3 DEF OpenEvolve!TypeOK, OpenEvolve!RepairDrain
  <2>2. OpenEvolve!CommandInv'
    BY <1>2, <2>1 DEF OpenEvolve!TypeOK, OpenEvolve!RepairDrain
  <2>3. OpenEvolve!ProcessInv'
    BY <1>2, <2>1 DEF OpenEvolve!TypeOK, OpenEvolve!RepairDrain
  <2>4. OpenEvolve!ArtifactInv'
    BY <1>2, <2>1 DEF OpenEvolve!TypeOK, OpenEvolve!RepairDrain
  <2>5. OpenEvolve!FinishedInv'
    BY <1>2, <2>1 DEF OpenEvolve!TypeOK, OpenEvolve!RepairDrain
  <2>6. OpenEvolve!RepairIsHonest'
    BY <1>2, <2>1 DEF OpenEvolve!TypeOK, OpenEvolve!RepairDrain
  <2> QED BY <2>1, <2>2, <2>3, <2>4, <2>5, <2>6
<1>3. CASE OpenEvolve!RepairFinalize
  <2>1. OpenEvolve!TypeOK'
    <3>1. /\ v5' \in BOOLEAN /\ v9' \in BOOLEAN /\ v10' \in BOOLEAN
          /\ v14' \in BOOLEAN /\ v21' \in BOOLEAN
      BY <1>3 DEF OpenEvolve!TypeOK, OpenEvolve!RepairFinalize, OpenEvolve!Closeout
    <3>2. /\ v4' \in OpenEvolve!Controls \cup {OpenEvolve!Nothing} /\ v13' \in OpenEvolve!Controls
               \cup {OpenEvolve!Nothing}
          /\ v17' \in OpenEvolve!Controls \cup {OpenEvolve!Nothing}
      BY <1>3 DEF OpenEvolve!TypeOK, OpenEvolve!RepairFinalize, OpenEvolve!Closeout
    <3>3. v8' \in 0..EvolveSlots /\ v18' \in 0..EvolveRuns /\ v19' \in 0..EvolveRepairs
      BY <1>3 DEF OpenEvolve!TypeOK, OpenEvolve!RepairFinalize, OpenEvolve!Closeout
    <3> QED BY <1>3, <3>1, <3>2, <3>3 DEF OpenEvolve!TypeOK, OpenEvolve!RepairFinalize,
               OpenEvolve!Closeout
  <2>2. OpenEvolve!CommandInv'
    BY <1>3, <2>1 DEF OpenEvolve!TypeOK, OpenEvolve!RepairFinalize, OpenEvolve!Closeout
  <2>3. OpenEvolve!ProcessInv'
    BY <1>3, <2>1 DEF OpenEvolve!TypeOK, OpenEvolve!RepairFinalize, OpenEvolve!Closeout
  <2>4. OpenEvolve!ArtifactInv'
    BY <1>3, <2>1 DEF OpenEvolve!TypeOK, OpenEvolve!RepairFinalize, OpenEvolve!Closeout
  <2>5. OpenEvolve!FinishedInv'
    BY <1>3, <2>1 DEF OpenEvolve!TypeOK, OpenEvolve!RepairFinalize, OpenEvolve!Closeout
  <2>6. OpenEvolve!RepairIsHonest'
    BY <1>3, <2>1 DEF OpenEvolve!TypeOK, OpenEvolve!RepairFinalize, OpenEvolve!Closeout
  <2> QED BY <2>1, <2>2, <2>3, <2>4, <2>5, <2>6
<1>4. CASE OpenEvolve!RepairVerdict
  <2>1. OpenEvolve!TypeOK'
    <3>1. /\ v5' \in BOOLEAN /\ v9' \in BOOLEAN /\ v10' \in BOOLEAN
          /\ v14' \in BOOLEAN /\ v21' \in BOOLEAN
      BY <1>4 DEF OpenEvolve!TypeOK, OpenEvolve!RepairVerdict, OpenEvolve!IncompleteReason,
         OpenEvolve!Settled
    <3>2. /\ v4' \in OpenEvolve!Controls \cup {OpenEvolve!Nothing} /\ v13' \in OpenEvolve!Controls
               \cup {OpenEvolve!Nothing}
          /\ v17' \in OpenEvolve!Controls \cup {OpenEvolve!Nothing}
      BY <1>4 DEF OpenEvolve!TypeOK, OpenEvolve!RepairVerdict, OpenEvolve!IncompleteReason,
         OpenEvolve!Settled
    <3>3. v8' \in 0..EvolveSlots /\ v18' \in 0..EvolveRuns /\ v19' \in 0..EvolveRepairs
      BY <1>4 DEF OpenEvolve!TypeOK, OpenEvolve!RepairVerdict, OpenEvolve!IncompleteReason,
         OpenEvolve!Settled
    <3> QED BY <1>4, <3>1, <3>2, <3>3 DEF OpenEvolve!TypeOK, OpenEvolve!RepairVerdict,
               OpenEvolve!IncompleteReason, OpenEvolve!Settled
  <2>2. OpenEvolve!CommandInv'
    BY <1>4, <2>1 DEF OpenEvolve!TypeOK, OpenEvolve!RepairVerdict, OpenEvolve!IncompleteReason,
       OpenEvolve!Settled
  <2>3. OpenEvolve!ProcessInv'
    BY <1>4, <2>1 DEF OpenEvolve!TypeOK, OpenEvolve!RepairVerdict, OpenEvolve!IncompleteReason,
       OpenEvolve!Settled
  <2>4. OpenEvolve!ArtifactInv'
    BY <1>4, <2>1 DEF OpenEvolve!TypeOK, OpenEvolve!RepairVerdict, OpenEvolve!IncompleteReason,
       OpenEvolve!Settled
  <2>5. OpenEvolve!FinishedInv'
    BY <1>4, <2>1 DEF OpenEvolve!TypeOK, OpenEvolve!RepairVerdict, OpenEvolve!IncompleteReason,
       OpenEvolve!Settled
  <2>6. OpenEvolve!RepairIsHonest'
    BY <1>4, <2>1 DEF OpenEvolve!TypeOK, OpenEvolve!RepairVerdict, OpenEvolve!IncompleteReason,
       OpenEvolve!Settled
  <2> QED BY <2>1, <2>2, <2>3, <2>4, <2>5, <2>6
<1>5. CASE OpenEvolve!RepairDies
  <2>1. OpenEvolve!TypeOK'
    <3>1. /\ v5' \in BOOLEAN /\ v9' \in BOOLEAN /\ v10' \in BOOLEAN
          /\ v14' \in BOOLEAN /\ v21' \in BOOLEAN
      BY <1>5 DEF OpenEvolve!TypeOK, OpenEvolve!RepairDies
    <3>2. /\ v4' \in OpenEvolve!Controls \cup {OpenEvolve!Nothing} /\ v13' \in OpenEvolve!Controls
               \cup {OpenEvolve!Nothing}
          /\ v17' \in OpenEvolve!Controls \cup {OpenEvolve!Nothing}
      BY <1>5 DEF OpenEvolve!TypeOK, OpenEvolve!RepairDies
    <3>3. v8' \in 0..EvolveSlots /\ v18' \in 0..EvolveRuns /\ v19' \in 0..EvolveRepairs
      BY <1>5 DEF OpenEvolve!TypeOK, OpenEvolve!RepairDies
    <3> QED BY <1>5, <3>1, <3>2, <3>3 DEF OpenEvolve!TypeOK, OpenEvolve!RepairDies
  <2>2. OpenEvolve!CommandInv'
    BY <1>5, <2>1 DEF OpenEvolve!TypeOK, OpenEvolve!RepairDies
  <2>3. OpenEvolve!ProcessInv'
    BY <1>5, <2>1 DEF OpenEvolve!TypeOK, OpenEvolve!RepairDies
  <2>4. OpenEvolve!ArtifactInv'
    BY <1>5, <2>1 DEF OpenEvolve!TypeOK, OpenEvolve!RepairDies
  <2>5. OpenEvolve!FinishedInv'
    BY <1>5, <2>1 DEF OpenEvolve!TypeOK, OpenEvolve!RepairDies
  <2>6. OpenEvolve!RepairIsHonest'
    BY <1>5, <2>1 DEF OpenEvolve!TypeOK, OpenEvolve!RepairDies
  <2> QED BY <2>1, <2>2, <2>3, <2>4, <2>5, <2>6
<1> QED BY <1>1, <1>2, <1>3, <1>4, <1>5 DEF OpenEvolveRepairStep

LEMMA OpenEvolveAgentKeeps == ASSUME OpenEvolveInv, OpenEvolveAgentStep PROVE OpenEvolveInv'
<1> USE OpenEvolveBounds DEF OpenEvolveInv, OpenEvolve!CommandInv, OpenEvolve!ProcessInv,
       OpenEvolve!ArtifactInv, OpenEvolve!FinishedInv, OpenEvolve!FinishedIsReal,
       OpenEvolve!RepairIsHonest, OpenEvolve!Exits, OpenEvolve!Go, OpenEvolve!manifest,
       OpenEvolve!search, OpenEvolve!repair, OpenEvolve!locals
<1>1. CASE OpenEvolve!AgentWorks
  <2>1. OpenEvolve!TypeOK'
    <3>1. /\ v5' \in BOOLEAN /\ v9' \in BOOLEAN /\ v10' \in BOOLEAN
          /\ v14' \in BOOLEAN /\ v21' \in BOOLEAN
      BY <1>1 DEF OpenEvolve!TypeOK, OpenEvolve!AgentWorks
    <3>2. /\ v4' \in OpenEvolve!Controls \cup {OpenEvolve!Nothing} /\ v13' \in OpenEvolve!Controls
               \cup {OpenEvolve!Nothing}
          /\ v17' \in OpenEvolve!Controls \cup {OpenEvolve!Nothing}
      BY <1>1 DEF OpenEvolve!TypeOK, OpenEvolve!AgentWorks
    <3>3. v8' \in 0..EvolveSlots /\ v18' \in 0..EvolveRuns /\ v19' \in 0..EvolveRepairs
      BY <1>1 DEF OpenEvolve!TypeOK, OpenEvolve!AgentWorks
    <3> QED BY <1>1, <3>1, <3>2, <3>3 DEF OpenEvolve!TypeOK, OpenEvolve!AgentWorks
  <2>2. OpenEvolve!CommandInv'
    BY <1>1, <2>1 DEF OpenEvolve!TypeOK, OpenEvolve!AgentWorks
  <2>3. OpenEvolve!ProcessInv'
    BY <1>1, <2>1 DEF OpenEvolve!TypeOK, OpenEvolve!AgentWorks
  <2>4. OpenEvolve!ArtifactInv'
    BY <1>1, <2>1 DEF OpenEvolve!TypeOK, OpenEvolve!AgentWorks
  <2>5. OpenEvolve!FinishedInv'
    BY <1>1, <2>1 DEF OpenEvolve!TypeOK, OpenEvolve!AgentWorks
  <2>6. OpenEvolve!RepairIsHonest'
    BY <1>1, <2>1 DEF OpenEvolve!TypeOK, OpenEvolve!AgentWorks
  <2> QED BY <2>1, <2>2, <2>3, <2>4, <2>5, <2>6
<1>2. CASE OpenEvolve!AgentEnds
  <2>1. OpenEvolve!TypeOK'
    <3>1. /\ v5' \in BOOLEAN /\ v9' \in BOOLEAN /\ v10' \in BOOLEAN
          /\ v14' \in BOOLEAN /\ v21' \in BOOLEAN
      BY <1>2 DEF OpenEvolve!TypeOK, OpenEvolve!AgentEnds
    <3>2. /\ v4' \in OpenEvolve!Controls \cup {OpenEvolve!Nothing} /\ v13' \in OpenEvolve!Controls
               \cup {OpenEvolve!Nothing}
          /\ v17' \in OpenEvolve!Controls \cup {OpenEvolve!Nothing}
      BY <1>2 DEF OpenEvolve!TypeOK, OpenEvolve!AgentEnds
    <3>3. v8' \in 0..EvolveSlots /\ v18' \in 0..EvolveRuns /\ v19' \in 0..EvolveRepairs
      BY <1>2 DEF OpenEvolve!TypeOK, OpenEvolve!AgentEnds
    <3> QED BY <1>2, <3>1, <3>2, <3>3 DEF OpenEvolve!TypeOK, OpenEvolve!AgentEnds
  <2>2. OpenEvolve!CommandInv'
    BY <1>2, <2>1 DEF OpenEvolve!TypeOK, OpenEvolve!AgentEnds
  <2>3. OpenEvolve!ProcessInv'
    BY <1>2, <2>1 DEF OpenEvolve!TypeOK, OpenEvolve!AgentEnds
  <2>4. OpenEvolve!ArtifactInv'
    BY <1>2, <2>1 DEF OpenEvolve!TypeOK, OpenEvolve!AgentEnds
  <2>5. OpenEvolve!FinishedInv'
    BY <1>2, <2>1 DEF OpenEvolve!TypeOK, OpenEvolve!AgentEnds
  <2>6. OpenEvolve!RepairIsHonest'
    BY <1>2, <2>1 DEF OpenEvolve!TypeOK, OpenEvolve!AgentEnds
  <2> QED BY <2>1, <2>2, <2>3, <2>4, <2>5, <2>6
<1> QED BY <1>1, <1>2 DEF OpenEvolveAgentStep

LEMMA OpenEvolveNextInv == OpenEvolveInv /\ (OpenEvolve!Next \/ UNCHANGED OpenEvolve!vars) =>
     OpenEvolveInv'
<1> SUFFICES ASSUME OpenEvolveInv, OpenEvolve!Next \/ UNCHANGED OpenEvolve!vars
      PROVE OpenEvolveInv'
  OBVIOUS
<1>1. CASE OpenEvolve!Next
  BY <1>1, OpenEvolveGroups, OpenEvolvePrepareKeeps, OpenEvolveLaunchKeeps, OpenEvolveWaitKeeps,
     OpenEvolveJudgeKeeps, OpenEvolveRepairKeeps, OpenEvolveAgentKeeps
<1>2. CASE UNCHANGED OpenEvolve!vars
  <2> USE <1>2 DEF OpenEvolve!vars
  <2>1. OpenEvolve!TypeOK'
    BY DEF OpenEvolveInv, OpenEvolve!TypeOK
  <2>2. OpenEvolve!CommandInv'
    BY DEF OpenEvolveInv, OpenEvolve!CommandInv
  <2>3. OpenEvolve!ProcessInv' /\ OpenEvolve!ArtifactInv'
    BY DEF OpenEvolveInv, OpenEvolve!ProcessInv, OpenEvolve!ArtifactInv
  <2>4. OpenEvolve!FinishedInv' /\ OpenEvolve!RepairIsHonest'
    BY DEF OpenEvolveInv, OpenEvolve!FinishedInv, OpenEvolve!FinishedIsReal,
       OpenEvolve!RepairIsHonest
  <2> QED BY <2>1, <2>2, <2>3, <2>4 DEF OpenEvolveInv
<1> QED BY <1>1, <1>2

LEMMA OpenEvolveSound == OpenEvolveInv => OpenEvolve!TypeOK /\ OpenEvolve!RunIsSound
  BY DEF OpenEvolveInv, OpenEvolve!RunIsSound, OpenEvolve!ManifestIsWhole, OpenEvolve!OneAgent,
     OpenEvolve!EvaluatedQuiet, OpenEvolve!CommandInv, OpenEvolve!ProcessInv,
     OpenEvolve!FinishedInv

-----------------------------------------------------------------------------
(* From the parts to Spec: a step keeps the part, and is one of its module.  *)

LEMMA PartKept == ASSUME [Next]_vars PROVE part' = part
  BY DEF Next, vars

LEMMA SweStays ==
  ASSUME [Next]_vars, (part = "swe")'
  PROVE  part = "swe" /\ (Swe!Next \/ UNCHANGED Swe!vars)
  BY PartKept DEF Next, vars, Swe!vars, Swe!config, Swe!docker, Swe!result

LEMMA SearchStays ==
  ASSUME [Next]_vars, (part = "search")'
  PROVE  part = "search" /\ (Search!Next \/ UNCHANGED Search!vars)
  BY PartKept DEF Next, vars, Search!vars

LEMMA PlainStays ==
  ASSUME [Next]_vars, (part = "lanes")'
  PROVE  part = "lanes" /\ (Plain!Next \/ UNCHANGED Plain!vars)
  BY PartKept DEF Next, vars, Plain!vars

LEMMA BatchStays ==
  ASSUME [Next]_vars, (part = "batch")'
  PROVE  part = "batch" /\ (Batch!Next \/ UNCHANGED Batch!vars)
  BY PartKept DEF Next, vars, Batch!vars, Batch!invocation, Batch!history

LEMMA OpenEvolveStays ==
  ASSUME [Next]_vars, (part = "openevolve")'
  PROVE  part = "openevolve" /\ (OpenEvolve!Next \/ UNCHANGED OpenEvolve!vars)
  BY PartKept DEF Next, vars, OpenEvolve!vars

AttemptInv == (part = "swe" => SweInv) /\ (part = "search" => SearchInv)

LEMMA AttemptInvariant == Spec => []AttemptInv
<1>1. Init => AttemptInv
  BY SweInitInv, SearchInitInv DEF Init, AttemptInv
<1>2. AttemptInv /\ [Next]_vars => AttemptInv'
  <2> SUFFICES ASSUME AttemptInv, [Next]_vars PROVE AttemptInv'
    OBVIOUS
  <2>1. (part = "swe" => SweInv)'
    BY SweStays, SweNextInv DEF AttemptInv
  <2>2. (part = "search" => SearchInv)'
    BY SearchStays, SearchNextInv DEF AttemptInv
  <2> QED BY <2>1, <2>2 DEF AttemptInv
<1> QED BY <1>1, <1>2, PTL DEF Spec

\* SWE-bench: the one official evaluation sees a stopped Agent, a confined Agent has no
\* public route, a completed campaign is what it says over interrupts and kills (run_agent,
\* execute_campaign), and a passed search was carried out, in parallel where that is asked
\* (closeout, collect_goal_plus_state).
THEOREM AttemptsAreSound == Spec => []AttemptIsSound
<1>1. AttemptInv => AttemptIsSound
  BY SweSound, SearchSound DEF AttemptIsSound, AttemptInv
<1> QED BY <1>1, AttemptInvariant, PTL

EvolveInv ==
  /\ part = "lanes" => PlainInv
  /\ part = "batch" => BatchInv
  /\ part = "openevolve" => OpenEvolveInv

LEMMA EvolveInvariant == Spec => []EvolveInv
<1>1. Init => EvolveInv
  BY PlainInitInv, BatchInitInv, OpenEvolveInitInv DEF Init, EvolveInv
<1>2. EvolveInv /\ [Next]_vars => EvolveInv'
  <2> SUFFICES ASSUME EvolveInv, [Next]_vars PROVE EvolveInv'
    OBVIOUS
  <2>1. (part = "lanes" => PlainInv)'
    BY PlainStays, PlainNextInv DEF EvolveInv
  <2>2. (part = "batch" => BatchInv)'
    BY BatchStays, BatchNextInv DEF EvolveInv
  <2>3. (part = "openevolve" => OpenEvolveInv)'
    BY OpenEvolveStays, OpenEvolveNextInv DEF EvolveInv
  <2> QED BY <2>1, <2>2, <2>3 DEF EvolveInv
<1> QED BY <1>1, <1>2, PTL DEF Spec

\* OpenEvolve: nothing is evaluated while an agent runs and the best lane is delivered
\* (execute_plain, run_controlled_many), every cell of a batch runs once over its resumes and
\* its record is final (run_batch), a finished run is about its one process and its complete
\* goal, whoever wrote the verdict (execute, closeout).
THEOREM OpenEvolveRunsAreSound == Spec => []OpenEvolveIsSound
<1>1. EvolveInv => OpenEvolveIsSound
  BY PlainSound, BatchSound, OpenEvolveSound DEF OpenEvolveIsSound, EvolveInv
<1> QED BY <1>1, EvolveInvariant, PTL
==============================================================================
