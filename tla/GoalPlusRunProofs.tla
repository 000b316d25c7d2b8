------------------------- MODULE GoalPlusRunProofs --------------------------
(***************************************************************************)
(* Theorems about GoalPlusRun, for any number of candidates and any bound  *)
(* on iterations, repairs and kills.                                       *)
(***************************************************************************)
EXTENDS GoalPlusRun, FiniteSetTheorems, WellFoundedInduction, TLAPS

-----------------------------------------------------------------------------
(* Smallest and largest elements                                           *)

\* A set of naturals that is not empty has a minimum.
LEMMA MinIn == ASSUME NEW S, S \subseteq Nat, S # {}
               PROVE  Min(S) \in S /\ \A y \in S : Min(S) <= y
<1> DEFINE Less == {ss \in Nat \X Nat : ss[1] < ss[2]}
<1>1. IsWellFoundedOn(Less, Nat)
  BY NatLessThanWellFounded DEF OpToRel
<1>2. PICK x \in S : \A y \in S : ~(<<y, x>> \in Less)
  BY <1>1, WFMin
<1>3. ASSUME NEW y \in S PROVE x <= y
  <2>1. x \in Nat /\ y \in Nat /\ <<y, x>> \notin Less
    BY <1>2
  <2>2. ~(y < x)
    BY <2>1
  <2> QED BY <2>1, <2>2
<1> QED BY <1>3 DEF Min

\* A set of naturals with a bound that is not empty has a maximum.
LEMMA MaxIn == ASSUME NEW S, S \subseteq Nat, S # {}, NEW n \in Nat, \A y \in S : y <= n
               PROVE  Max(S) \in S /\ \A y \in S : Max(S) >= y
<1> DEFINE T == {n - y : y \in S}
<1>1. \A y \in S : n - y \in Nat
  OBVIOUS
<1>2. T \subseteq Nat /\ T # {}
  BY <1>1
<1>3. PICK t \in T : \A u \in T : t <= u
  BY <1>2, MinIn
<1>4. PICK x \in S : t = n - x
  BY <1>3
<1>5. ASSUME NEW y \in S PROVE x >= y
  <2>1. n - y \in T
    OBVIOUS
  <2>2. n - x <= n - y /\ x \in Nat /\ y \in Nat
    BY <1>3, <1>4, <2>1
  <2> QED BY <2>2
<1> QED BY <1>5 DEF Max

-----------------------------------------------------------------------------
(* The rules that choose from the evidence                                 *)

LEMMA PickParts == ASSUME NEW p \in Picks
                   PROVE  p # None /\ p # Seed /\ p[1] \in Cands /\ p[2] \in Nat \ {0}
  BY DEF Picks, None, Seed, Cands

LEMMA CompliantIn ==
  ASSUME TypeOK, NEW c \in Cands
  PROVE  /\ Len(ev[c]) \in Nat /\ Compliant(c) \subseteq 1..Len(ev[c])
         /\ \A i \in Compliant(c) : ev[c][i] \in {1, 2}
<1>1. ev[c] \in Seq(Scores)
  BY DEF TypeOK
<1>2. Len(ev[c]) \in Nat /\ DOMAIN ev[c] = 1..Len(ev[c])
  BY <1>1
<1>3. \A i \in 1..Len(ev[c]) : ev[c][i] \in 0..2
  BY <1>1 DEF Scores
<1>4. \A x \in 0..2 : x > 0 => x \in {1, 2}
  OBVIOUS
<1> QED BY <1>2, <1>3, <1>4 DEF Compliant

\* The last of some iterations of a candidate is one of them.
LEMMA LastOf == ASSUME TypeOK, NEW c \in Cands, NEW S \in SUBSET Compliant(c), S # {}
                PROVE  Max(S) \in S /\ Max(S) \in Nat \ {0}
<1>1. S \subseteq Nat /\ \A i \in S : i <= Len(ev[c])
  BY CompliantIn
<1>2. Max(S) \in S
  BY <1>1, CompliantIn, MaxIn
<1> QED BY <1>2, CompliantIn

LEMMA PreferredIn == ASSUME NEW pool \in SUBSET Cands, pool # {}
                     PROVE  Preferred(pool) \in pool
<1>1. Min(pool) \in pool
  <2>1. pool \subseteq Nat
    BY DEF Cands
  <2> QED BY <2>1, MinIn
<1> QED BY <1>1 DEF Preferred

LEMMA PublicIn ==
  /\ \A x \in PublicScores : \E c \in Eligible : \E i \in Compliant(c) : x = ev[c][i]
  /\ \A c \in Eligible : \A i \in Compliant(c) : ev[c][i] \in PublicScores
<1> DEFINE Of(c) == {ev[c][i] : i \in Compliant(c)}
           Each  == {Of(c) : c \in Eligible}
<1>1. PublicScores = UNION Each
  BY DEF PublicScores
<1>2. ASSUME NEW x \in PublicScores
      PROVE  \E c \in Eligible : \E i \in Compliant(c) : x = ev[c][i]
  <2>1. PICK X \in Each : x \in X
    BY <1>1
  <2>2. PICK c \in Eligible : X = Of(c)
    BY <2>1
  <2> QED BY <2>1, <2>2
<1>3. ASSUME NEW c \in Eligible, NEW i \in Compliant(c) PROVE ev[c][i] \in PublicScores
  <2>1. Of(c) \in Each /\ ev[c][i] \in Of(c)
    OBVIOUS
  <2> HIDE DEF Of, Each
  <2> QED BY <1>1, <2>1
<1> QED BY <1>2, <1>3

LEMMA BestPublic == ASSUME TypeOK, Eligible # {}
                    PROVE  /\ Max(PublicScores) \in PublicScores
                           /\ HardBest \in SUBSET Eligible /\ HardBest # {}
<1>1. PublicScores \subseteq {1, 2}
  BY CompliantIn DEF PublicScores, Eligible
<1>2. PublicScores # {}
  <2>1. PICK c \in Eligible : TRUE
    OBVIOUS
  <2>2. PICK i \in Compliant(c) : TRUE
    BY <2>1 DEF Eligible
  <2> QED BY <2>1, <2>2, PublicIn
<1>3. Max(PublicScores) \in PublicScores
  <2>1. PublicScores \subseteq Nat /\ \A x \in PublicScores : x <= 2
    BY <1>1
  <2> QED BY <1>2, <2>1, MaxIn
<1>4. HardBest # {}
  BY <1>3 DEF PublicScores, HardBest
<1> QED BY <1>3, <1>4 DEF HardBest

\* The latest iteration at the best public score is a compliant one.
LEMMA BestIterationIn ==
  ASSUME TypeOK, NEW c \in HardBest
  PROVE  <<c, BestIteration(c)>> \in Picks /\ BestIteration(c) \in Compliant(c)
<1>1. c \in Cands
  BY DEF HardBest, Eligible
<1> DEFINE S == {i \in Compliant(c) : ev[c][i] = Max(PublicScores)}
<1>2. S \in SUBSET Compliant(c) /\ S # {}
  BY DEF HardBest
<1>3. Max(S) \in S /\ Max(S) \in Nat \ {0}
  BY <1>1, <1>2, LastOf
<1>4. BestIteration(c) = Max(S)
  BY DEF BestIteration
<1> QED BY <1>1, <1>3, <1>4 DEF Picks

\* Goal Plus' own selection is a compliant iteration of an eligible candidate.
LEMMA NativePickIn ==
  ASSUME TypeOK, Eligible # {}
  PROVE  /\ NativePick \in Picks /\ NativePick[1] \in Eligible
         /\ ev[NativePick[1]][NativePick[2]] \in Scores
<1> DEFINE c == Preferred(HardBest)
<1>1. c \in HardBest /\ c \in Eligible /\ c \in Cands
  <2>1. HardBest \in SUBSET Cands /\ HardBest # {} /\ HardBest \in SUBSET Eligible
    BY BestPublic DEF HardBest, Eligible
  <2> QED BY <2>1, PreferredIn
<1>2. NativePick = <<c, BestIteration(c)>>
  BY DEF NativePick
<1>3. ev[c][BestIteration(c)] \in {1, 2}
  BY <1>1, BestIterationIn, CompliantIn
<1> HIDE DEF c
<1> QED BY <1>1, <1>2, <1>3, BestIterationIn DEF Scores

LEMMA JudgePoolIn == ASSUME TypeOK PROVE JudgePool \subseteq Picks
  BY BestIterationIn DEF JudgePool

\* The rule of the public gate names a compliant iteration, and goes on naming it
\* once the preferred candidate is the one it names.
LEMMA GateExpectedIn ==
  ASSUME TypeOK, GateHolds
  PROVE  GateExpected \in Picks /\ GateExpected[1] \in Eligible /\ Eligible # {}
<1>1. Eligible # {}
  <2>1. PublicScores # {}
    BY FS_EmptySet DEF GateHolds
  <2> QED BY <2>1 DEF PublicScores
<1> DEFINE c == Preferred(Eligible)
<1>2. c \in Eligible /\ c \in Cands
  BY <1>1, PreferredIn DEF Eligible
<1>3. Max(Compliant(c)) \in Nat \ {0}
  BY <1>2, LastOf DEF Eligible
<1>4. GateExpected = <<c, Max(Compliant(c))>>
  BY DEF GateExpected
<1> HIDE DEF c
<1> QED BY <1>1, <1>2, <1>3, <1>4 DEF Picks

LEMMA HiddenBestIn == ASSUME TypeOK, Eligible # {} PROVE HiddenBest \in Picks
<1> DEFINE c == Max(Eligible)
<1>1. c \in Eligible /\ c \in Cands
  <2>1. Eligible \subseteq Nat /\ \A d \in Eligible : d <= NumCands
    BY DEF Eligible, Cands
  <2> QED BY <2>1, MaxIn, SizesAssumption DEF Eligible
<1>2. Max(Compliant(c)) \in Nat \ {0}
  BY <1>1, LastOf DEF Eligible
<1>3. HiddenBest = <<c, Max(Compliant(c))>>
  BY DEF HiddenBest
<1> HIDE DEF c
<1> QED BY <1>1, <1>2, <1>3 DEF Picks

-----------------------------------------------------------------------------
(* Type correctness, with what ChosenInv says of the selection             *)

\* The actions in groups.
Starting == Execute \/ StartAgent \/ PollAgent \/ SoftStop \/ Drain \/ Repair
Choosing == ReadGoals \/ Reuse \/ Prepare \/ Verify \/ Judge \/ WriteReceipt \/ Select
            \/ Promote \/ Recover
Settling == Publish \/ Record \/ Complete \/ CloseoutFails
Ending   == Evaluate \/ Deliver \/ Posthoc \/ Score \/ Verdict \/ Crash

LEMMA NextGroups == ASSUME [Next]_vars
                    PROVE  Agent \/ Starting \/ Choosing \/ Settling \/ Ending \/ UNCHANGED vars
  BY DEF Next, Command, Closeout, Starting, Choosing, Settling, Ending

LEMMA ModesFixed == ASSUME [Next]_vars PROVE UNCHANGED mode
<1>1. Agent => UNCHANGED mode
  BY DEF Agent, AgentOpens, AgentIterates, AgentSelects, AgentPromotes, AgentApplies,
         AgentCompletes, AgentBlocks, AgentEnds, config
<1>2. Starting => UNCHANGED mode
  BY DEF Starting, Execute, StartAgent, PollAgent, SoftStop, Drain, Repair, Rest, config
<1>3. Choosing => UNCHANGED mode
  BY DEF Choosing, ReadGoals, Reuse, Prepare, Verify, Judge, WriteReceipt, Select, Promote,
         Recover, Rest, config
<1>4. Settling => UNCHANGED mode
  BY DEF Settling, Publish, Record, Complete, CloseoutFails, Rest, config
<1>5. Ending => UNCHANGED mode
  BY DEF Ending, Evaluate, Deliver, Posthoc, Score, Verdict, Crash, config
<1> QED BY <1>1, <1>2, <1>3, <1>4, <1>5, NextGroups DEF vars, config

\* Settling an iteration keeps the ones that are there.
LEMMA SettlesType ==
  ASSUME TypeOK, NEW c \in Cands, NEW s \in Scores, Settles(c, s)
  PROVE  /\ ev' \in [Cands -> Seq(Scores)] /\ best' \in Cands \cup {0}
         /\ Eligible \subseteq Eligible'
<1>1. ev' = [ev EXCEPT ![c] = Append(ev[c], s)] /\ best' \in {best, c}
  BY DEF Settles
<1>2. ev' \in [Cands -> Seq(Scores)]
  BY <1>1 DEF TypeOK
<1>3. ASSUME NEW d \in Cands PROVE Compliant(d) \subseteq Compliant(d)'
  <2>1. CASE d = c
    <3>1. ev[c] \in Seq(Scores) /\ ev'[c] = Append(ev[c], s)
      BY <1>1 DEF TypeOK
    <3>2. DOMAIN ev[c] = 1..Len(ev[c]) /\ DOMAIN ev'[c] = 1..(Len(ev[c]) + 1)
      BY <3>1
    <3>3. \A i \in 1..Len(ev[c]) : ev'[c][i] = ev[c][i] /\ i \in 1..(Len(ev[c]) + 1)
      BY <3>1
    <3> QED BY <2>1, <3>2, <3>3 DEF Compliant
  <2>2. CASE d # c
    <3>1. ev'[d] = ev[d]
      BY <1>1, <2>2 DEF TypeOK
    <3> QED BY <3>1 DEF Compliant
  <2> QED BY <2>1, <2>2
<1>4. Eligible \subseteq Eligible'
  BY <1>3 DEF Eligible
<1> QED BY <1>1, <1>2, <1>4 DEF TypeOK

LEMMA InitTypes == Init => TypeOK /\ ChosenInv
<1> SUFFICES ASSUME Init PROVE TypeOK /\ ChosenInv
  OBVIOUS
<1>1. ev \in [Cands -> Seq(Scores)]
  BY DEF Init
<1>2. {repairs, crashes, asked} \subseteq Nat /\ repairs \in 0..MaxRepairs
      /\ crashes \in 0..MaxCrashes
  BY BoundsAssumption DEF Init
<1>3. TypeOK
  BY <1>1, <1>2 DEF Init, TypeOK, Points
<1>4. goal = "none" /\ search = "none" /\ pc = "idle"
  BY DEF Init
<1> QED BY <1>3, <1>4 DEF ChosenInv, CloseoutPoints

LEMMA SameEvidence ==
  ASSUME UNCHANGED ev
  PROVE  /\ Eligible' = Eligible /\ PublicScores' = PublicScores
         /\ \A c : Compliant(c)' = Compliant(c)
<1>1. \A c : Compliant(c)' = Compliant(c)
  BY DEF Compliant
<1>2. Eligible' = Eligible
  BY <1>1 DEF Eligible
<1> QED BY <1>1, <1>2 DEF PublicScores

LEMMA AgentTypes == ASSUME TypeOK, ChosenInv, Agent PROVE TypeOK' /\ ChosenInv'
<1> USE DEF TypeOK, ChosenInv,
            config, verdict, goals, run, outputs, agent, control, locals, history
<1>1. CASE AgentOpens
  BY <1>1 DEF AgentOpens
<1>2. CASE AgentIterates
  <2>1. PICK c \in Cands, s \in Scores : Settles(c, s)
    BY <1>2 DEF AgentIterates
  <2>2. /\ ev' \in [Cands -> Seq(Scores)] /\ best' \in Cands \cup {0}
        /\ Eligible \subseteq Eligible'
    BY <2>1, SettlesType
  <2> QED BY <1>2, <2>2 DEF AgentIterates
<1>3. CASE AgentSelects
  BY <1>3, NativePickIn, SameEvidence DEF AgentSelects
<1>4. CASE AgentPromotes
  BY <1>4, SameEvidence DEF AgentPromotes
<1>5. CASE AgentApplies
  BY <1>5, SameEvidence DEF AgentApplies
<1>6. CASE AgentCompletes
  BY <1>6, SameEvidence DEF AgentCompletes
<1>7. CASE AgentBlocks
  BY <1>7, SameEvidence DEF AgentBlocks
<1>8. CASE AgentEnds
  <2>1. code' \in {"none", "ok", "term", "bad"}
    BY <1>8 DEF AgentEnds
  <2>2. /\ alive' = FALSE
        /\ UNCHANGED <<config, verdict, goals, run, receipt, outputs, control, pc, locals,
                       history>>
    BY <1>8 DEF AgentEnds
  <2>3. alive' \in BOOLEAN
    BY <2>2, Zenon
  <2> QED BY <2>1, <2>2, <2>3, SameEvidence
<1> QED BY <1>1, <1>2, <1>3, <1>4, <1>5, <1>6, <1>7, <1>8 DEF Agent

LEMMA StartingTypes == ASSUME TypeOK, ChosenInv, Starting PROVE TypeOK' /\ ChosenInv'
<1> USE DEF TypeOK, ChosenInv, Points, CloseoutPoints, Rest,
            config, verdict, goals, run, outputs, agent, control, locals, history
<1>1. CASE Execute
  <2>1. noted' \in BOOLEAN
    BY <1>1, Zenon DEF Execute
  <2> QED BY <1>1, <2>1, SameEvidence DEF Execute
<1>2. CASE StartAgent
  <2>1. alive' \in BOOLEAN
    BY <1>2, Zenon DEF StartAgent
  <2> QED BY <1>2, <2>1, SameEvidence DEF StartAgent
<1>3. CASE PollAgent
  BY <1>3, SameEvidence DEF PollAgent
<1>4. CASE SoftStop
  <2>1. alive' \in BOOLEAN /\ killed' \in BOOLEAN
    BY <1>4, Zenon DEF SoftStop
  <2>2. code' \in {"none", "ok", "term", "bad"}
    BY <1>4 DEF SoftStop
  <2> QED BY <1>4, <2>1, <2>2, SameEvidence DEF SoftStop
<1>5. CASE Drain
  BY <1>5, SameEvidence DEF Drain
<1>6. CASE Repair
  <2>1. repairs' \in 0..MaxRepairs
    BY <1>6, BoundsAssumption DEF Repair
  <2> QED BY <1>6, <2>1, SameEvidence DEF Repair
<1> QED BY <1>1, <1>2, <1>3, <1>4, <1>5, <1>6 DEF Starting

LEMMA BrokenPoint == Broken \in {"verdict", "final"}
  BY DEF Broken

LEMMA ClosedPoint == Closed \in {"posthoc", "verdict", "final"}
  BY DEF Closed

LEMMA ChoosingTypes == ASSUME TypeOK, ChosenInv, HeldInv, Choosing
                       PROVE  TypeOK' /\ ChosenInv'
<1> USE BrokenPoint
    DEF TypeOK, ChosenInv, Points, CloseoutPoints, Rest,
        config, verdict, goals, run, outputs, agent, control, locals, history
<1>1. CASE ReadGoals
  BY <1>1, SameEvidence DEF ReadGoals
<1>2. CASE Reuse
  BY <1>2, SameEvidence DEF Reuse
<1>3. CASE Prepare
  BY <1>3, SameEvidence, GateExpectedIn DEF Prepare, Eligible
<1>4. CASE Verify
  <2>1. CASE UNCHANGED <<ev, best>>
    BY <1>4, <2>1, SameEvidence DEF Verify
  <2>2. ASSUME NEW c \in Cands, NEW s \in Scores, Settles(c, s), UNCHANGED <<pc, pick>>
        PROVE  TypeOK' /\ ChosenInv'
    <3>1. /\ ev' \in [Cands -> Seq(Scores)] /\ best' \in Cands \cup {0}
          /\ Eligible \subseteq Eligible'
      BY <2>2, SettlesType
    <3> QED BY <1>4, <2>2, <3>1 DEF Verify
  <2> QED BY <1>4, <2>1, <2>2 DEF Verify
<1>5. CASE Judge
  BY <1>5, SameEvidence, JudgePoolIn DEF Judge
<1>6. CASE WriteReceipt
  BY <1>6, SameEvidence DEF WriteReceipt
<1>7. CASE Select
  <2>1. CASE search = "promoted" \/ Eligible = {}
    BY <1>7, <2>1, SameEvidence DEF Select
  <2>2. CASE search # "promoted" /\ Eligible # {}
    <3>1. /\ pick' = (IF mode.judge THEN held ELSE NativePick)
          /\ search' = "ready" /\ sel' = pick' /\ pc' \in {"recover", "promote"}
      BY <1>7, <2>2 DEF Select
    <3>2. pick' \in Picks
      BY <1>7, <2>2, <3>1, NativePickIn DEF Select, HeldInv
    <3>3. goal # "none" /\ search # "none"
      BY <1>7 DEF Select
    <3>4. UNCHANGED <<Rest, goals, receipt, snapshot, held, closed, final, asked>>
      BY <1>7 DEF Select
    <3>5. CASE UNCHANGED <<ev, best, grown>>
      <4>1. Eligible' # {}
        BY <2>2, <3>5, SameEvidence
      <4> QED BY <2>2, <3>3, <3>1, <3>2, <3>4, <3>5, <4>1
    <3>6. CASE ~mode.judge /\ Settles(pick'[1], ev[pick'[1]][pick'[2]])
               /\ grown' = (grown \/ snapshot # None)
      <4>1. /\ NativePick[1] \in Cands /\ ev[NativePick[1]][NativePick[2]] \in Scores
            /\ Settles(NativePick[1], ev[NativePick[1]][NativePick[2]])
        BY <2>2, <3>1, <3>6, NativePickIn DEF Eligible
      <4>2. /\ ev' \in [Cands -> Seq(Scores)] /\ best' \in Cands \cup {0}
            /\ Eligible \subseteq Eligible'
        BY <4>1, SettlesType
      <4>3. grown' \in BOOLEAN
        BY <3>6, Zenon
      <4>4. Eligible' # {}
        BY <2>2, <4>2
      <4> QED BY <3>3, <3>1, <3>2, <3>4, <4>2, <4>3, <4>4
    <3> QED BY <1>7, <2>2, <3>5, <3>6 DEF Select
  <2> QED BY <2>1, <2>2
<1>8. CASE Promote
  BY <1>8, SameEvidence DEF Promote
<1>9. CASE Recover
  BY <1>9, SameEvidence DEF Recover
<1> QED BY <1>1, <1>2, <1>3, <1>4, <1>5, <1>6, <1>7, <1>8, <1>9 DEF Choosing

LEMMA SettlingTypes == ASSUME TypeOK, ChosenInv, Settling PROVE TypeOK' /\ ChosenInv'
<1> USE BrokenPoint, ClosedPoint
    DEF TypeOK, ChosenInv, Points, CloseoutPoints, Rest,
        config, verdict, goals, run, outputs, agent, control, locals, history
<1>1. CASE Publish
  <2>1. published' \in BOOLEAN
    BY <1>1, Zenon DEF Publish
  <2>2. artifact' \in Picks \cup {Seed}
    BY <1>1 DEF Publish
  <2>3. receipt' \in Picks \cup {None}
    BY <1>1 DEF Publish
  <2> QED BY <1>1, <2>1, <2>2, <2>3, SameEvidence DEF Publish
<1>2. CASE Record
  <2>1. linked' \in BOOLEAN
    BY <1>2, Zenon DEF Record
  <2> QED BY <1>2, <2>1, SameEvidence DEF Record
<1>3. CASE Complete
  <2>1. closed' \in BOOLEAN
    BY <1>3, Zenon DEF Complete
  <2> QED BY <1>3, <2>1, SameEvidence DEF Complete
<1>4. CASE CloseoutFails
  BY <1>4, SameEvidence DEF CloseoutFails
<1> QED BY <1>1, <1>2, <1>3, <1>4 DEF Settling

LEMMA EndingTypes == ASSUME TypeOK, ChosenInv, Ending PROVE TypeOK' /\ ChosenInv'
<1> USE DEF TypeOK, ChosenInv, Points, CloseoutPoints,
            config, verdict, goals, run, outputs, agent, control, locals, history
<1>1. CASE Evaluate
  <2>1. final' \in BOOLEAN
    BY <1>1, Zenon DEF Evaluate
  <2> QED BY <1>1, <2>1, SameEvidence DEF Evaluate
<1>2. CASE Deliver
  BY <1>2, SameEvidence DEF Deliver
<1>3. CASE Posthoc
  <2>1. HiddenBest \in Picks
    BY <1>3, HiddenBestIn DEF Posthoc
  <2> QED BY <1>3, <2>1, SameEvidence DEF Posthoc
<1>4. CASE Score
  <2>1. final' \in BOOLEAN
    BY <1>4, Zenon DEF Score
  <2> QED BY <1>4, <2>1, SameEvidence DEF Score
<1>5. CommandOver => /\ killed' \in BOOLEAN /\ closed' \in BOOLEAN /\ final' \in BOOLEAN
  BY Zenon DEF CommandOver
<1>6. CASE Verdict
  <2>1. noted' \in BOOLEAN /\ author' \in {"execute", "repair"}
    BY <1>6 DEF Verdict
  <2> QED BY <1>5, <1>6, <2>1, SameEvidence DEF Verdict, CommandOver
<1>7. CASE Crash
  <2>1. crashes' \in 0..MaxCrashes
    BY <1>7, BoundsAssumption DEF Crash
  <2> QED BY <1>5, <1>7, <2>1, SameEvidence DEF Crash, CommandOver
<1> QED BY <1>1, <1>2, <1>3, <1>4, <1>6, <1>7 DEF Ending

-----------------------------------------------------------------------------
(* The receipt of the judge                                                *)

LEMMA HeldKept == ASSUME TypeOK, ChosenInv, HeldInv, [Next]_vars PROVE HeldInv'
<1> USE BrokenPoint, ClosedPoint, PickParts
    DEF HeldInv, CloseoutPoints, Rest,
        config, verdict, goals, run, outputs, agent, control, locals, history
<1>0. UNCHANGED mode
  BY ModesFixed
<1>1. CASE Agent
  BY <1>1 DEF Agent, AgentOpens, AgentIterates, AgentSelects, AgentPromotes, AgentApplies,
              AgentCompletes, AgentBlocks, AgentEnds
<1>2. CASE Starting
  BY <1>2 DEF Starting, Execute, StartAgent, PollAgent, SoftStop, Drain, Repair
<1>3. CASE Choosing
  <2>1. JudgePool \subseteq Picks
    BY JudgePoolIn
  <2>2. CASE Judge
    BY <1>0, <2>1, <2>2 DEF Judge, TypeOK
  <2>3. CASE ReadGoals \/ WriteReceipt
    BY <1>0, <2>3 DEF ReadGoals, WriteReceipt
  <2>4. CASE Reuse \/ Prepare \/ Recover \/ Promote
    BY <1>0, <2>4 DEF Reuse, Prepare, Recover, Promote
  <2>5. CASE Verify
    BY <1>0, <2>5 DEF Verify
  <2>6. CASE Select
    BY <1>0, <2>6 DEF Select
  <2> QED BY <1>3, <2>2, <2>3, <2>4, <2>5, <2>6 DEF Choosing
<1>4. CASE Settling
  BY <1>0, <1>4 DEF Settling, Publish, Record, Complete, CloseoutFails
<1>5. CASE Ending
  BY <1>5 DEF Ending, Evaluate, Deliver, Posthoc, Score, Verdict, Crash, CommandOver
<1>6. CASE UNCHANGED vars
  BY <1>6 DEF vars
<1> QED BY <1>1, <1>2, <1>3, <1>4, <1>5, <1>6, NextGroups

TypesInv == TypeOK /\ ChosenInv /\ HeldInv

LEMMA TypesNext == ASSUME TypesInv, [Next]_vars PROVE TypesInv'
<1>1. HeldInv'
  BY HeldKept DEF TypesInv
<1>2. TypeOK' /\ ChosenInv'
  <2>1. CASE UNCHANGED vars
    BY <2>1, SameEvidence
       DEF TypesInv, TypeOK, ChosenInv, vars, config, verdict, goals, run, outputs,
           agent, control, locals, history
  <2> QED BY <2>1, NextGroups, AgentTypes, StartingTypes, ChoosingTypes, SettlingTypes,
             EndingTypes DEF TypesInv
<1> QED BY <1>1, <1>2 DEF TypesInv

LEMMA TypesKept == Spec => []TypesInv
<1>1. Init => TypesInv
  BY InitTypes DEF Init, HeldInv, TypesInv, CloseoutPoints
<1>2. TypesInv /\ [Next]_vars => TypesInv'
  BY TypesNext
<1> QED BY <1>1, <1>2, PTL DEF Spec

\* Every variable keeps its type; the workspace never holds a promotion that was
\* applied twice (_apply_promotion with its reverse check).
THEOREM TypeCorrect == Spec => []TypeOK
  BY TypesKept, PTL DEF TypesInv

\* A promotion is never taken back and its selection never changed.
LEMMA PromotedKept ==
  ASSUME TypesInv, [Next]_vars, search = "promoted"
  PROVE  search' = "promoted" /\ sel' = sel
<1> USE DEF Rest, config, verdict, goals, run, outputs, agent, control, locals, history
<1>1. CASE Agent
  BY <1>1 DEF Agent, AgentOpens, AgentIterates, AgentSelects, AgentPromotes, AgentApplies,
              AgentCompletes, AgentBlocks, AgentEnds, TypesInv, ChosenInv
<1>2. CASE Starting
  BY <1>2 DEF Starting, Execute, StartAgent, PollAgent, SoftStop, Drain, Repair
<1>3. CASE Choosing
  BY <1>3 DEF Choosing, ReadGoals, Reuse, Prepare, Verify, Judge, WriteReceipt, Select,
              Promote, Recover
<1>4. CASE Settling
  BY <1>4 DEF Settling, Publish, Record, Complete, CloseoutFails
<1>5. CASE Ending
  BY <1>5 DEF Ending, Evaluate, Deliver, Posthoc, Score, Verdict, Crash
<1>6. CASE UNCHANGED vars
  BY <1>6 DEF vars
<1> QED BY <1>1, <1>2, <1>3, <1>4, <1>5, <1>6, NextGroups

LEMMA ReceiptKept == ASSUME TypesInv, ReceiptFirst, [Next]_vars PROVE ReceiptFirst'
<1> SUFFICES ASSUME mode.judge, search' \in {"ready", "promoted"} PROVE receipt' = sel'
  BY ModesFixed DEF ReceiptFirst
<1> USE DEF ReceiptFirst, Rest,
            config, verdict, goals, run, outputs, agent, control, locals, history
<1>1. CASE Agent
  BY <1>1 DEF Agent, AgentOpens, AgentIterates, AgentSelects, AgentPromotes, AgentApplies,
              AgentCompletes, AgentBlocks, AgentEnds, Owned
<1>2. CASE Starting
  BY <1>2 DEF Starting, Execute, StartAgent, PollAgent, SoftStop, Drain, Repair
<1>3. CASE Choosing
  <2>1. CASE WriteReceipt
    <3>1. receipt = None /\ (search \in {"ready", "promoted"} => sel \in Picks)
      BY <2>1 DEF WriteReceipt, TypesInv, HeldInv, ChosenInv
    <3> QED BY <2>1, <3>1, PickParts DEF WriteReceipt
  <2>2. CASE Select
    BY <2>2 DEF Select, TypesInv, HeldInv, CloseoutPoints
  <2>3. CASE ReadGoals \/ Reuse \/ Prepare \/ Verify \/ Judge \/ Promote \/ Recover
    BY <2>3 DEF ReadGoals, Reuse, Prepare, Verify, Judge, Promote, Recover
  <2> QED BY <1>3, <2>1, <2>2, <2>3 DEF Choosing
<1>4. CASE Settling
  BY <1>4 DEF Settling, Publish, Record, Complete, CloseoutFails, TypesInv, HeldInv,
              CloseoutPoints
<1>5. CASE Ending
  BY <1>5 DEF Ending, Evaluate, Deliver, Posthoc, Score, Verdict, Crash
<1>6. CASE UNCHANGED vars
  BY <1>6 DEF vars
<1> QED BY <1>1, <1>2, <1>3, <1>4, <1>5, <1>6, NextGroups

\* Only a judge without a receipt calls the provider.
LEMMA AskedWithoutReceipt ==
  ASSUME TypesInv, [Next]_vars, asked' # asked PROVE receipt = None
<1> USE DEF Rest, config, verdict, goals, run, outputs, agent, control, locals, history
<1>1. CASE Agent
  BY <1>1 DEF Agent, AgentOpens, AgentIterates, AgentSelects, AgentPromotes, AgentApplies,
              AgentCompletes, AgentBlocks, AgentEnds
<1>2. CASE Starting
  BY <1>2 DEF Starting, Execute, StartAgent, PollAgent, SoftStop, Drain, Repair
<1>3. CASE Choosing
  BY <1>3 DEF Choosing, ReadGoals, Reuse, Prepare, Verify, Judge, WriteReceipt, Select,
              Promote, Recover, TypesInv, HeldInv, CloseoutPoints
<1>4. CASE Settling
  BY <1>4 DEF Settling, Publish, Record, Complete, CloseoutFails
<1>5. CASE Ending
  BY <1>5 DEF Ending, Evaluate, Deliver, Posthoc, Score, Verdict, Crash
<1>6. CASE UNCHANGED vars
  BY <1>6 DEF vars
<1> QED BY <1>1, <1>2, <1>3, <1>4, <1>5, <1>6, NextGroups

LEMMA ReceiptsKept == Spec => []ReceiptFirst
<1>1. Init => ReceiptFirst
  BY DEF Init, ReceiptFirst
<1>2. TypesInv /\ ReceiptFirst /\ [Next]_vars => ReceiptFirst'
  BY ReceiptKept
<1> QED BY <1>1, <1>2, TypesKept, PTL DEF Spec

\* Under a judge a Search is never selected or promoted before the receipt that
\* says so is on disk (finalize_goal_plus_search, _obtain_judge_selection).
THEOREM ReceiptIsFirst == Spec => []ReceiptFirst
  BY ReceiptsKept

\* The judge's provider is never called once a receipt exists, however often the
\* closeout is killed and repaired (_obtain_judge_selection).
THEOREM JudgeIsAskedOnce == Spec => AskedOnce
<1>1. TypesInv /\ [Next]_vars => [receipt # None => asked' = asked]_vars
  BY AskedWithoutReceipt
<1> QED BY <1>1, TypesKept, PTL DEF Spec, AskedOnce

-----------------------------------------------------------------------------
(* The rule of the public gate                                             *)

LEMMA SameGate ==
  ASSUME UNCHANGED <<ev, best>> PROVE GateHolds' = GateHolds /\ GateExpected' = GateExpected
<1>1. Preferred(Eligible)' = Preferred(Eligible)
  BY SameEvidence DEF Preferred
<1>2. Compliant(Preferred(Eligible))' = Compliant(Preferred(Eligible))
  BY <1>1 DEF Compliant
<1> QED BY <1>1, <1>2, SameEvidence DEF GateHolds, GateExpected

\* Setting Goal Plus' favourite to the candidate of the snapshot changes nothing.
LEMMA GateAfterPrepare ==
  ASSUME TypeOK, GateHolds, UNCHANGED ev, best' = GateExpected[1]
  PROVE  GateHolds' /\ GateExpected' = GateExpected
<1> DEFINE c == Preferred(Eligible)
<1>1. c \in Eligible
  BY GateExpectedIn, PreferredIn DEF Eligible
<1>2. GateExpected = <<c, Max(Compliant(c))>> /\ best' = c
  BY DEF GateExpected
<1>3. Preferred(Eligible)' = c
  BY <1>1, <1>2, SameEvidence DEF Preferred
<1>4. Compliant(c)' = Compliant(c)
  BY <1>3 DEF Compliant
<1>5. GateExpected' = <<c, Max(Compliant(c))>>
  BY <1>3, <1>4 DEF GateExpected, Compliant
<1> QED BY <1>2, <1>5, SameEvidence DEF GateHolds

\* An agent that iterates after a snapshot is noticed.
LEMMA AgentGrows == ASSUME Agent, ~grown'
                    PROVE  /\ ~grown /\ snapshot' = snapshot
                           /\ snapshot # None \/ search # "open" => UNCHANGED <<ev, best>>
<1> USE DEF run, locals, history
<1>1. CASE AgentIterates
  <2>1. grown' = (grown \/ snapshot # None) /\ search = "open" /\ UNCHANGED locals
    BY <1>1 DEF AgentIterates
  <2>2. ~grown /\ snapshot = None
    BY <2>1, Zenon
  <2> QED BY <2>1, <2>2
<1>2. CASE ~AgentIterates
  <2>1. UNCHANGED <<grown, snapshot, ev, best>>
    BY <1>2 DEF Agent, AgentOpens, AgentSelects, AgentPromotes, AgentApplies,
                AgentCompletes, AgentBlocks, AgentEnds
  <2> QED BY <2>1
<1> QED BY <1>1, <1>2

\* While nothing grows after a snapshot, evidence changes only before there is one.
LEMMA GrownKept ==
  ASSUME TypesInv, GateInv, mode.gate, [Next]_vars, ~grown', pc # "prepare"
  PROVE  /\ ~grown
         /\ snapshot' # None => snapshot' = snapshot /\ UNCHANGED <<ev, best>>
         /\ search = "promoted" => UNCHANGED <<ev, best>>
<1> USE DEF Rest, config, verdict, goals, run, outputs, agent, control, locals, history
<1>1. CASE Agent
  BY <1>1, AgentGrows
<1>2. CASE Starting
  BY <1>2 DEF Starting, Execute, StartAgent, PollAgent, SoftStop, Drain, Repair
<1>3. CASE Choosing
  <2>1. pc # "verify"
    BY DEF GateInv
  <2>2. CASE Select
    BY <2>2 DEF Select
  <2>3. CASE ReadGoals \/ Reuse \/ Judge \/ WriteReceipt \/ Promote \/ Recover
    BY <2>3 DEF ReadGoals, Reuse, Judge, WriteReceipt, Promote, Recover
  <2> QED BY <1>3, <2>1, <2>2, <2>3 DEF Choosing, Prepare, Verify
<1>4. CASE Settling
  BY <1>4 DEF Settling, Publish, Record, Complete, CloseoutFails
<1>5. CASE Ending
  BY <1>5 DEF Ending, Evaluate, Deliver, Posthoc, Score, Verdict, Crash, CommandOver
<1>6. CASE UNCHANGED vars
  BY <1>6 DEF vars
<1> QED BY <1>1, <1>2, <1>3, <1>4, <1>5, <1>6, NextGroups

\* What the public gate promotes is its snapshot, and it promotes nowhere else.
LEMMA PromotedIsSnapshot ==
  ASSUME TypesInv, GateInv, [Next]_vars, mode.gate, search # "promoted", search' = "promoted"
  PROVE  /\ pc = "promote" /\ pick = sel /\ UNCHANGED <<sel, snapshot, pick, ev, best, grown>>
         /\ ~mode.judge => pick = snapshot
<1> USE DEF Rest, config, verdict, goals, run, outputs, agent, control, locals, history
<1>1. CASE Agent
  BY <1>1 DEF Agent, AgentOpens, AgentIterates, AgentSelects, AgentPromotes, AgentApplies,
              AgentCompletes, AgentBlocks, AgentEnds, Owned
<1>2. CASE Starting
  BY <1>2 DEF Starting, Execute, StartAgent, PollAgent, SoftStop, Drain, Repair
<1>3. CASE Choosing
  BY <1>3 DEF Choosing, ReadGoals, Reuse, Prepare, Verify, Judge, WriteReceipt, Select,
              Promote, Recover, GateInv
<1>4. CASE Settling
  BY <1>4 DEF Settling, Publish, Record, Complete, CloseoutFails
<1>5. CASE Ending
  BY <1>5 DEF Ending, Evaluate, Deliver, Posthoc, Score, Verdict, Crash
<1>6. CASE UNCHANGED vars
  BY <1>6 DEF vars
<1> QED BY <1>1, <1>2, <1>3, <1>4, <1>5, <1>6, NextGroups

\* How a closeout with the public gate gets to the points that GateInv speaks of.
LEMMA GatePoints ==
  ASSUME TypesInv, GateInv, [Next]_vars, mode.gate
  PROVE  /\ pc' \notin {"verify", "again"}
         /\ pc' = "prepare" => search' # "promoted"
         /\ (pc' = "promote" /\ ~mode.judge) => pick' = snapshot'
<1> USE BrokenPoint, ClosedPoint
    DEF GateInv, Rest,
        config, verdict, goals, run, outputs, agent, control, locals, history
<1>1. CASE Agent
  BY <1>1 DEF Agent, AgentOpens, AgentIterates, AgentSelects, AgentPromotes, AgentApplies,
              AgentCompletes, AgentBlocks, AgentEnds, Owned
<1>2. CASE Starting
  BY <1>2 DEF Starting, Execute, StartAgent, PollAgent, SoftStop, Drain, Repair
<1>3. CASE Choosing
  <2>1. CASE Select
    BY <2>1 DEF Select
  <2>2. CASE ReadGoals \/ Reuse \/ Prepare \/ Judge \/ WriteReceipt \/ Promote \/ Recover
    BY <2>2 DEF ReadGoals, Reuse, Prepare, Judge, WriteReceipt, Promote, Recover
  <2> QED BY <1>3, <2>1, <2>2 DEF Choosing, Verify
<1>4. CASE Settling
  BY <1>4 DEF Settling, Publish, Record, Complete, CloseoutFails
<1>5. CASE Ending
  BY <1>5 DEF Ending, Evaluate, Deliver, Posthoc, Score, Verdict, Crash, CommandOver
<1>6. CASE UNCHANGED vars
  BY <1>6 DEF vars
<1> QED BY <1>1, <1>2, <1>3, <1>4, <1>5, <1>6, NextGroups

LEMMA GateKept == ASSUME TypesInv, GateInv, [Next]_vars PROVE GateInv'
<1>1. mode' = mode
  BY ModesFixed
<1>2. ASSUME mode.gate, ~mode.judge, ~grown'
      PROVE  /\ snapshot' # None => Expected(snapshot)'
             /\ search' = "promoted" => Expected(sel)'
  <2>1. CASE pc = "prepare" /\ Prepare
    <3>1. search # "promoted" /\ search' = search /\ ev' = ev /\ grown' = grown
      BY <1>2, <2>1 DEF GateInv, Prepare, Rest
    <3>2. CASE GateHolds
      <4>1. snapshot' = GateExpected /\ best' = GateExpected[1]
        BY <2>1, <3>2 DEF Prepare
      <4>2. GateHolds' /\ GateExpected' = GateExpected
        BY <3>1, <3>2, <4>1, GateAfterPrepare DEF TypesInv
      <4> QED BY <3>1, <4>1, <4>2 DEF Expected
    <3>3. CASE ~GateHolds
      <4>1. snapshot' = snapshot /\ best' = best
        BY <2>1, <3>3 DEF Prepare
      <4> QED BY <1>2, <3>1, <4>1, SameGate DEF Expected, GateInv
    <3> QED BY <3>2, <3>3
  <2>2. CASE pc = "prepare" /\ ~Prepare
    <3>1. search # "promoted" /\ search' # "promoted"
      BY <1>2, <2>2, PromotedIsSnapshot DEF GateInv
    <3>2. ~grown /\ (snapshot' # None => snapshot' = snapshot /\ UNCHANGED <<ev, best>>)
      <4> USE DEF Rest, config, verdict, goals, run, outputs, agent, control, locals, history
      <4>1. CASE Agent
        BY <1>2, <4>1, AgentGrows
      <4>2. CASE CloseoutFails \/ Crash
        BY <1>2, <4>2 DEF CloseoutFails, Crash, CommandOver
      <4>3. CASE UNCHANGED vars
        BY <1>2, <4>3 DEF vars
      <4>4. Agent \/ CloseoutFails \/ Crash \/ UNCHANGED vars
        BY <2>2 DEF Next, Command, Closeout, Execute, Repair, StartAgent, PollAgent, SoftStop,
                    Drain, ReadGoals, Reuse, Verify, Judge, WriteReceipt, Select, Promote,
                    Recover, Publish, Record, Complete, Evaluate, Deliver, Posthoc, Score,
                    Verdict
      <4> QED BY <4>1, <4>2, <4>3, <4>4
    <3> QED BY <1>2, <3>1, <3>2, SameGate DEF Expected, GateInv
  <2>3. CASE pc # "prepare"
    <3>1. /\ ~grown
          /\ snapshot' # None => snapshot' = snapshot /\ UNCHANGED <<ev, best>>
          /\ search = "promoted" => UNCHANGED <<ev, best>>
      BY <1>2, <2>3, GrownKept
    <3>2. snapshot' # None => Expected(snapshot)'
      BY <1>2, <3>1, SameGate DEF Expected, GateInv
    <3>3. ASSUME search = "promoted" PROVE Expected(sel)'
      BY <1>2, <3>1, <3>3, SameGate, PromotedKept DEF Expected, GateInv
    <3>4. ASSUME search # "promoted", search' = "promoted" PROVE Expected(sel)'
      <4>1. /\ pick = sel /\ pick = snapshot /\ UNCHANGED <<sel, ev, best>>
            /\ pc = "promote" /\ snapshot' = snapshot
        BY <1>2, <3>4, PromotedIsSnapshot
      <4>2. sel \in Picks
        <5>1. sel' \in Picks
          BY <3>4, TypesNext DEF ChosenInv, TypesInv
        <5> QED BY <4>1, <5>1
      <4>3. Expected(snapshot)
        BY <1>2, <3>1, <4>1, <4>2, PickParts DEF GateInv
      <4> QED BY <4>1, <4>3, SameGate DEF Expected
    <3> QED BY <3>2, <3>3, <3>4
  <2> QED BY <2>1, <2>2, <2>3
<1>3. mode.gate => /\ pc' \notin {"verify", "again"}
                   /\ pc' = "prepare" => search' # "promoted"
                   /\ (pc' = "promote" /\ ~mode.judge) => pick' = snapshot'
  BY GatePoints
<1> QED BY <1>1, <1>2, <1>3 DEF GateInv

LEMMA GatesKept == Spec => []GateInv
<1>1. Init => GateInv
  BY DEF Init, GateInv
<1>2. TypesInv /\ GateInv /\ [Next]_vars => GateInv'
  BY GateKept
<1> QED BY <1>1, <1>2, TypesKept, PTL DEF Spec

\* Under the public gate alone a promotion is the one of the deadline snapshot of
\* the same closeout, whatever an agent that outlived its controller iterates.
THEOREM GateIsDecisive == Spec => GateDecides
<1>1. TypesInv /\ GateInv /\ [Next]_vars
        => [(mode.gate /\ ~mode.judge /\ search # "promoted" /\ search' = "promoted")
              => pick = snapshot]_vars
  BY PromotedIsSnapshot
<1> QED BY <1>1, TypesKept, GatesKept, PTL DEF Spec, GateDecides

LEMMA ReuseAgrees ==
  ASSUME TypesInv, GateInv, ReceiptFirst, [Next]_vars,
         pc = "reuse", search = "promoted", pc' \in {Broken, "publish"}, ~grown
  PROVE  pc' = "publish"
<1>1. CASE Reuse
  <2>1. mode.judge => held = sel
    BY <1>1 DEF TypesInv, HeldInv, ReceiptFirst, CloseoutPoints
  <2>2. (mode.gate /\ ~mode.judge) => GateHolds /\ GateExpected = sel
    BY DEF GateInv, Expected
  <2> QED BY <1>1, <2>1, <2>2 DEF Reuse
<1>2. CASE Agent
  BY <1>2, BrokenPoint
     DEF Agent, AgentOpens, AgentIterates, AgentSelects, AgentPromotes, AgentApplies,
         AgentCompletes, AgentBlocks, AgentEnds
<1>3. CASE Crash
  BY <1>3, BrokenPoint DEF Crash, CommandOver
<1>4. CASE UNCHANGED vars
  BY <1>4, BrokenPoint DEF vars
<1>5. Reuse \/ Agent \/ Crash \/ UNCHANGED vars
  BY DEF Next, Command, Closeout, Execute, Repair, StartAgent, PollAgent, SoftStop, Drain,
         ReadGoals, Prepare, Verify, Judge, WriteReceipt, Select, Promote, Recover, Publish,
         Record, Complete, CloseoutFails, Evaluate, Deliver, Posthoc, Score, Verdict
<1> QED BY <1>1, <1>2, <1>3, <1>4, <1>5

\* A closeout that finds the Search promoted, by a command that was killed, takes
\* the promotion over unless evidence was appended after the snapshot.
THEOREM PromotionIsReused == Spec => ReuseAccepted
<1>1. TypesInv /\ GateInv /\ ReceiptFirst /\ [Next]_vars
        => [(pc = "reuse" /\ search = "promoted" /\ pc' \in {Broken, "publish"})
              => grown \/ pc' = "publish"]_vars
  BY ReuseAgrees
<1> QED BY <1>1, TypesKept, GatesKept, ReceiptsKept, PTL DEF Spec, ReuseAccepted

-----------------------------------------------------------------------------
(* The promotion is installed before it is settled                         *)

LEMMA InstalledKept == ASSUME TypesInv, InstalledInv, [Next]_vars PROVE InstalledInv'
<1>1. search = "promoted" => search' = "promoted" /\ sel' = sel
  BY PromotedKept
<1> USE <1>1, ClosedPoint, BrokenPoint
    DEF InstalledInv, Rest, CloseoutPoints,
        config, verdict, goals, run, outputs, agent, control, locals, history
<1>2. CASE Agent
  <2>1. CASE AgentApplies
    <3>1. sel \in Picks /\ sel # Seed
      BY <2>1, PickParts DEF AgentApplies, TypesInv, ChosenInv
    <3> QED BY <2>1, <3>1 DEF AgentApplies
  <2>2. CASE AgentCompletes
    BY <2>2 DEF AgentCompletes
  <2>3. CASE AgentOpens \/ AgentIterates \/ AgentSelects \/ AgentPromotes
             \/ AgentBlocks \/ AgentEnds
    BY <2>3 DEF AgentOpens, AgentIterates, AgentSelects, AgentPromotes, AgentBlocks, AgentEnds
  <2> QED BY <1>2, <2>1, <2>2, <2>3 DEF Agent
<1>3. CASE Starting
  BY <1>3 DEF Starting, Execute, StartAgent, PollAgent, SoftStop, Drain, Repair
<1>4. CASE Choosing
  <2>1. UNCHANGED <<artifact, published, closed, linked>>
        /\ (goal' = "complete" => goal = "complete")
    BY <1>4 DEF Choosing, ReadGoals, Reuse, Prepare, Verify, Judge, WriteReceipt, Select,
                Promote, Recover
  <2>2. pc \in CloseoutPoints /\ pc' \notin {"record", "complete", "posthoc", "score"}
    BY <1>4 DEF Choosing, ReadGoals, Reuse, Prepare, Verify, Judge, WriteReceipt, Select,
                Promote, Recover
  <2> QED BY <2>1, <2>2
<1>5. CASE Settling
  <2>1. CASE Publish
    <3>1. pick \in Picks /\ pick # Seed /\ pick = sel /\ search = "promoted"
      BY <2>1, PickParts DEF Publish, TypesInv, ChosenInv
    <3>2. artifact' = sel /\ sel # Seed
      BY <2>1, <3>1 DEF Publish
    <3>3. pc' \in {"record", "verdict", "final"} /\ UNCHANGED <<closed, linked, goal>>
      BY <2>1 DEF Publish
    <3>4. ~closed
      BY <2>1 DEF Publish
    <3> QED BY <3>1, <3>2, <3>3, <3>4
  <2>2. CASE Record
    BY <2>2 DEF Record
  <2>3. CASE Complete
    BY <2>3 DEF Complete
  <2>4. CASE CloseoutFails
    BY <2>4 DEF CloseoutFails
  <2> QED BY <1>5, <2>1, <2>2, <2>3, <2>4 DEF Settling
<1>6. CASE Ending
  <2>1. CASE Verdict \/ Crash
    BY <2>1 DEF Verdict, Crash, CommandOver
  <2>2. CASE Evaluate \/ Deliver
    BY <2>2 DEF Evaluate, Deliver
  <2>3. CASE Posthoc \/ Score
    BY <2>3 DEF Posthoc, Score
  <2> QED BY <1>6, <2>1, <2>2, <2>3 DEF Ending
<1>7. CASE UNCHANGED vars
  BY <1>7 DEF vars
<1> QED BY <1>2, <1>3, <1>4, <1>5, <1>6, <1>7, NextGroups

LEMMA InstallsKept == Spec => []InstalledInv
<1>1. Init => InstalledInv
  BY DEF Init, InstalledInv
<1>2. TypesInv /\ InstalledInv /\ [Next]_vars => InstalledInv'
  BY InstalledKept
<1> QED BY <1>1, <1>2, TypesKept, PTL DEF Spec

\* A step promotes, installs or completes, one of them at a time, and nothing
\* makes a goal incomplete again.
LEMMA OneAtATime ==
  ASSUME TypesInv, [Next]_vars
  PROVE  /\ goal = "complete" => goal' = "complete"
         /\ artifact' # artifact => UNCHANGED <<search, goal>> /\ artifact' # Seed
<1> USE DEF TypesInv, ChosenInv, Rest, config, verdict, goals, run, outputs, agent, control, locals, history
<1>1. CASE Agent
  BY <1>1, PickParts
     DEF Agent, AgentOpens, AgentIterates, AgentSelects, AgentPromotes, AgentApplies,
         AgentCompletes, AgentBlocks, AgentEnds
<1>2. CASE Starting
  BY <1>2 DEF Starting, Execute, StartAgent, PollAgent, SoftStop, Drain, Repair
<1>3. CASE Choosing
  BY <1>3 DEF Choosing, ReadGoals, Reuse, Prepare, Verify, Judge, WriteReceipt, Select,
              Promote, Recover
<1>4. CASE Settling
  BY <1>4, PickParts DEF Settling, Publish, Record, Complete, CloseoutFails
<1>5. CASE Ending
  BY <1>5 DEF Ending, Evaluate, Deliver, Posthoc, Score, Verdict, Crash
<1>6. CASE UNCHANGED vars
  BY <1>6 DEF vars
<1> QED BY <1>1, <1>2, <1>3, <1>4, <1>5, <1>6, NextGroups

LEMMA PromotionStep ==
  ASSUME TypesInv, TypesInv', InstalledInv, InstalledInv', [Next]_vars
  PROVE  [Promotion!Next]_(Promotion!vars)
<1> DEFINE chosen    == IF search = "promoted" THEN sel ELSE None
           installed == IF artifact = Seed THEN None ELSE artifact
           settled   == goal = "complete"
<1>1. /\ chosen' = (IF search' = "promoted" THEN sel' ELSE None)
      /\ installed' = (IF artifact' = Seed THEN None ELSE artifact')
      /\ settled' = (goal' = "complete")
  BY DEF Seed, None
<1>2. search = "promoted" => search' = "promoted" /\ sel' = sel /\ sel \in Picks
  BY PromotedKept DEF TypesInv, ChosenInv
<1>3. search' = "promoted" => sel' \in Picks
  BY DEF TypesInv, ChosenInv
<1>4. /\ artifact # Seed => search = "promoted" /\ artifact = sel
      /\ goal = "complete" => artifact # Seed
  BY DEF InstalledInv
<1>5. /\ artifact' # Seed => search' = "promoted" /\ artifact' = sel'
      /\ goal' = "complete" => artifact' # Seed
  BY DEF InstalledInv, Seed
<1>6. goal = "complete" => goal' = "complete"
  BY OneAtATime
<1>7. artifact' # artifact => UNCHANGED <<search, goal>> /\ artifact' # Seed
  BY OneAtATime
<1>8. CASE search # "promoted" /\ search' = "promoted"
  <2>1. chosen = None /\ chosen' \in Picks /\ UNCHANGED <<installed, settled>>
    BY <1>1, <1>3, <1>4, <1>5, <1>7, <1>8
  <2> QED BY <2>1 DEF Promotion!Next, Promotion!Choose, Promotion!None, None
<1>9. CASE search = "promoted" /\ artifact = Seed /\ artifact' # Seed
  <2>1. /\ chosen = sel /\ sel # None /\ installed = None /\ installed' = sel
        /\ UNCHANGED <<chosen, settled>>
    BY <1>1, <1>2, <1>4, <1>5, <1>7, <1>9, PickParts
  <2> QED BY <2>1 DEF Promotion!Next, Promotion!Install, Promotion!None, None
<1>10. CASE search = "promoted" /\ artifact # Seed /\ goal # "complete" /\ goal' = "complete"
  <2>1. /\ installed = sel /\ sel # None /\ ~settled /\ settled'
        /\ UNCHANGED <<chosen, installed>>
    BY <1>1, <1>2, <1>4, <1>5, <1>7, <1>10, PickParts
  <2> QED BY <2>1 DEF Promotion!Next, Promotion!Settle, Promotion!None, None
<1>11. CASE \/ search # "promoted" /\ search' # "promoted"
            \/ search = "promoted" /\ artifact' = artifact
               /\ (goal = "complete") = (goal' = "complete")
            \/ search = "promoted" /\ artifact = Seed /\ artifact' = Seed
  <2>1. UNCHANGED <<chosen, installed, settled>>
    BY <1>1, <1>2, <1>3, <1>4, <1>5, <1>6, <1>7, <1>11
  <2> QED BY <2>1 DEF Promotion!vars
<1> QED BY <1>2, <1>4, <1>5, <1>6, <1>7, <1>8, <1>9, <1>10, <1>11

\* Over crashes and repairs, a closeout installs the promotion it chose, once, and
\* completes the goal afterwards (finalize_goal_plus_search).
THEOREM CloseoutSettles == Spec => RefinesSettlement
<1>1. Init => Promotion!Init
  BY DEF Init, Promotion!Init, Promotion!None, None
<1>2. /\ TypesInv /\ TypesInv' /\ InstalledInv /\ InstalledInv' /\ [Next]_vars
      => [Promotion!Next]_(Promotion!vars)
  BY PromotionStep
<1> QED BY <1>1, <1>2, TypesKept, InstallsKept, PTL DEF Spec, RefinesSettlement, Promotion!Spec

-----------------------------------------------------------------------------
(* A finished run has scored what it delivered                             *)

\* Posthoc selection comes with the public gate of the common harness.
LEMMA PosthocMode ==
  ASSUME TypeOK
  PROVE  /\ mode.posthoc => mode.gate /\ mode.harness = "common"
         /\ mode.harness \in {"openevolve", "common"}
  BY DEF TypeOK, Modes

\* The hidden evaluator's favourite does not change after the promotion.
LEMMA HiddenBestKept ==
  ASSUME TypesInv, GateInv, [Next]_vars, search = "promoted", mode.gate
  PROVE  HiddenBest' = HiddenBest
<1>1. UNCHANGED ev
  <2> USE DEF Rest, config, verdict, goals, run, outputs, agent, control, locals, history
  <2>1. CASE Agent
    BY <2>1 DEF Agent, AgentOpens, AgentIterates, AgentSelects, AgentPromotes, AgentApplies,
                AgentCompletes, AgentBlocks, AgentEnds
  <2>2. CASE Starting
    BY <2>2 DEF Starting, Execute, StartAgent, PollAgent, SoftStop, Drain, Repair
  <2>3. CASE Choosing
    BY <2>3 DEF Choosing, ReadGoals, Reuse, Prepare, Verify, Judge, WriteReceipt, Select,
                Promote, Recover, GateInv
  <2>4. CASE Settling
    BY <2>4 DEF Settling, Publish, Record, Complete, CloseoutFails
  <2>5. CASE Ending
    BY <2>5 DEF Ending, Evaluate, Deliver, Posthoc, Score, Verdict, Crash
  <2>6. CASE UNCHANGED vars
    BY <2>6 DEF vars
  <2> QED BY <2>1, <2>2, <2>3, <2>4, <2>5, <2>6, NextGroups
<1>2. Max(Eligible)' = Max(Eligible)
  BY <1>1, SameEvidence
<1>3. Compliant(Max(Eligible))' = Compliant(Max(Eligible))
  BY <1>1, <1>2 DEF Compliant
<1> QED BY <1>2, <1>3 DEF HiddenBest

\* What is scored and delivered changes only in the last phases of a command.
LEMMA OutputsKept ==
  ASSUME [Next]_vars, ~Ending
  PROVE  \/ UNCHANGED <<scored, delivered, final, status, author, noted>>
         \/ Execute /\ UNCHANGED <<scored, delivered, final>>
<1> USE DEF Rest, config, verdict, goals, run, outputs, agent, control, locals, history
<1>1. CASE Agent
  BY <1>1 DEF Agent, AgentOpens, AgentIterates, AgentSelects, AgentPromotes, AgentApplies,
              AgentCompletes, AgentBlocks, AgentEnds
<1>2. CASE Starting
  BY <1>2 DEF Starting, Execute, StartAgent, PollAgent, SoftStop, Drain, Repair
<1>3. CASE Choosing
  BY <1>3 DEF Choosing, ReadGoals, Reuse, Prepare, Verify, Judge, WriteReceipt, Select,
              Promote, Recover
<1>4. CASE Settling
  BY <1>4 DEF Settling, Publish, Record, Complete, CloseoutFails
<1>5. CASE UNCHANGED vars
  BY <1>5 DEF vars
<1> QED BY <1>1, <1>2, <1>3, <1>4, <1>5, NextGroups

\* How a command gets to its last phases otherwise.
LEMMA LastPhases ==
  ASSUME TypesInv, InstalledInv, [Next]_vars, ~Ending
  PROVE  /\ pc' \in {"deliver", "score"} => UNCHANGED <<pc, pick, closed, cmd>>
         /\ pc' \in {"final", "posthoc"} =>
              UNCHANGED pc \/ (pc \in CloseoutPoints /\ pc' \in {Broken, Closed})
         /\ (pc' = "verdict" /\ closed') =>
              UNCHANGED <<pc, closed, cmd>> \/ (pc \in CloseoutPoints /\ pc' = Closed /\ cmd' = cmd)
<1> USE BrokenPoint, ClosedPoint
    DEF InstalledInv, CloseoutPoints, Rest,
        config, verdict, goals, run, outputs, agent, control, locals, history
<1>1. CASE Agent
  BY <1>1 DEF Agent, AgentOpens, AgentIterates, AgentSelects, AgentPromotes, AgentApplies,
              AgentCompletes, AgentBlocks, AgentEnds
<1>2. CASE Starting
  BY <1>2 DEF Starting, Execute, StartAgent, PollAgent, SoftStop, Drain, Repair
<1>3. CASE Choosing
  BY <1>3 DEF Choosing, ReadGoals, Reuse, Prepare, Verify, Judge, WriteReceipt, Select,
              Promote, Recover
<1>4. CASE Settling
  BY <1>4 DEF Settling, Publish, Record, Complete, CloseoutFails
<1>5. CASE UNCHANGED vars
  BY <1>5 DEF vars
<1> QED BY <1>1, <1>2, <1>3, <1>4, <1>5, NextGroups

LEMMA ScoredKept ==
  ASSUME TypesInv, GateInv, InstalledInv, ScoredInv, [Next]_vars PROVE ScoredInv'
<1>1. mode' = mode
  BY ModesFixed
<1>2. /\ mode.posthoc => mode.gate /\ mode.harness = "common"
      /\ mode.harness \in {"openevolve", "common"}
  BY PosthocMode DEF TypesInv
<1>3. (search = "promoted" /\ mode.posthoc) => HiddenBest' = HiddenBest
  BY <1>2, HiddenBestKept
<1>4. pc \in {"posthoc", "score"} => search = "promoted" /\ mode.posthoc
  BY DEF TypesInv, ChosenInv, ScoredInv
<1>5. /\ search = "promoted" => search' = "promoted"
      /\ artifact # Seed => artifact' = artifact
  BY PromotedKept, InstalledKept, OneAtATime DEF InstalledInv, Seed
<1>6. CASE ~Ending
  <2>1. UNCHANGED <<scored, delivered, final>>
    BY <1>6, OutputsKept
  <2>2. /\ pc' \in {"deliver", "score"} => UNCHANGED <<pc, pick, closed, cmd>>
        /\ pc' \in {"final", "posthoc"} =>
             UNCHANGED pc \/ (pc \in CloseoutPoints /\ pc' \in {Broken, Closed})
        /\ (pc' = "verdict" /\ closed') =>
             UNCHANGED <<pc, closed, cmd>>
             \/ (pc \in CloseoutPoints /\ pc' = Closed /\ cmd' = cmd)
    BY <1>6, LastPhases
  <2>3. mode'.posthoc => pc' \notin {"final", "deliver"}
    BY <1>1, <1>2, <2>2 DEF ScoredInv, Broken, Closed
  <2>4. pc' \in {"posthoc", "score"} => mode'.posthoc
    BY <1>1, <1>2, <2>2 DEF ScoredInv, Broken, Closed
  <2>5. pc' = "score" => pick' = HiddenBest' /\ delivered' = pick'
    BY <1>3, <1>4, <2>1, <2>2 DEF ScoredInv
  <2>6. (mode'.posthoc /\ final') => /\ search' = "promoted"
                                     /\ {scored', delivered'} = {HiddenBest'}
    BY <1>1, <1>3, <1>5, <2>1 DEF ScoredInv
  <2>7. (closed' /\ pc' = "deliver") => scored' = artifact'
    BY <1>5, <2>1, <2>2 DEF ScoredInv, InstalledInv
  <2>8. (closed' /\ pc' = "verdict" /\ cmd' = "execute" /\ ~mode'.posthoc) =>
          {scored', delivered'} = {artifact'}
    BY <1>1, <1>5, <2>1, <2>2 DEF ScoredInv, InstalledInv, Closed
  <2> QED BY <2>3, <2>4, <2>5, <2>6, <2>7, <2>8 DEF ScoredInv
<1>7. CASE Ending
  <2> USE DEF config, verdict, goals, run, outputs, agent, control, locals, history
  <2>1. CASE Evaluate
    <3>1. ~mode.posthoc
      BY <2>1 DEF Evaluate, ScoredInv
    <3>2. /\ UNCHANGED <<artifact, closed, cmd, delivered>>
          /\ \/ pc' = "verdict" /\ cmd = "repair"
             \/ pc' = "deliver" /\ scored' = artifact
      BY <2>1 DEF Evaluate
    <3> QED BY <1>1, <3>1, <3>2 DEF ScoredInv
  <2>2. CASE Deliver
    <3>1. ~mode.posthoc
      BY <2>2 DEF Deliver, ScoredInv
    <3>2. /\ UNCHANGED <<artifact, closed, cmd, scored>>
          /\ pc' = "verdict" /\ delivered' = artifact /\ pc = "deliver"
      BY <2>2 DEF Deliver
    <3> QED BY <1>1, <3>1, <3>2 DEF ScoredInv
  <2>3. CASE Posthoc
    <3>1. mode.posthoc /\ search' = "promoted" /\ HiddenBest' = HiddenBest
      BY <1>3, <1>4, <1>5, <2>3 DEF Posthoc
    <3>2. /\ UNCHANGED <<final, scored>>
          /\ \/ pc' = "score" /\ pick' = HiddenBest /\ delivered' = HiddenBest
             \/ pc' = "verdict" /\ UNCHANGED delivered
      BY <2>3 DEF Posthoc
    <3> QED BY <1>1, <3>1, <3>2 DEF ScoredInv
  <2>4. CASE Score
    <3>1. mode.posthoc /\ search' = "promoted" /\ HiddenBest' = HiddenBest
      BY <1>3, <1>4, <1>5, <2>4 DEF Score
    <3>2. scored' = HiddenBest /\ delivered' = HiddenBest /\ pc' = "verdict"
      BY <2>4 DEF Score, ScoredInv
    <3> QED BY <1>1, <3>1, <3>2 DEF ScoredInv
  <2>5. CASE Verdict \/ Crash
    BY <1>1, <2>5 DEF Verdict, Crash, CommandOver, ScoredInv
  <2> QED BY <1>7, <2>1, <2>2, <2>3, <2>4, <2>5 DEF Ending
<1> QED BY <1>6, <1>7

\* A verdict of "finished" by execute itself.
LEMMA FinishedByExecute ==
  ASSUME TypesInv, InstalledInv, ScoredInv, Passes, cmd = "execute", pc = "verdict"
  PROVE  {scored, delivered} = {IF mode.posthoc THEN HiddenBest ELSE sel}
<1>1. closed /\ (mode.posthoc => final)
  BY PosthocMode DEF Passes, TypesInv
<1>2. artifact = sel
  BY <1>1 DEF InstalledInv
<1> QED BY <1>1, <1>2 DEF ScoredInv

LEMMA FinishedKept ==
  ASSUME TypesInv, GateInv, InstalledInv, ScoredInv, FinishedInv, [Next]_vars
  PROVE  FinishedInv'
<1>1. mode' = mode
  BY ModesFixed
<1>2. status = "finished" =>
        /\ goal = "complete" /\ search = "promoted" /\ sel \in Picks
        /\ goal' = "complete" /\ sel' = sel
        /\ mode.posthoc => HiddenBest' = HiddenBest
  <2>1. status = "finished" => goal = "complete" /\ search = "promoted" /\ sel \in Picks
    BY DEF FinishedInv, InstalledInv, TypesInv, ChosenInv
  <2> QED BY <2>1, PromotedKept, OneAtATime, HiddenBestKept, PosthocMode DEF TypesInv
<1>3. CASE ~Ending
  <2> USE DEF Rest, config, verdict, goals, run, outputs, agent, control, locals, history
  <2>1. CASE Execute
    BY <2>1 DEF Execute, FinishedInv
  <2>2. CASE ~Execute
    <3>1. UNCHANGED <<scored, delivered, final, status, author, noted>>
      BY <1>3, <2>2, OutputsKept
    <3>2. pc' = "deliver" => pc = "deliver"
      BY <1>3, LastPhases
    <3>3. (pc' # "idle" /\ cmd' = "execute") => (pc # "idle" /\ cmd = "execute")
      <4>1. CASE Repair
        BY <4>1 DEF Repair
      <4>2. CASE Agent
        BY <4>2 DEF Agent, AgentOpens, AgentIterates, AgentSelects, AgentPromotes,
                    AgentApplies, AgentCompletes, AgentBlocks, AgentEnds
      <4>3. CASE Command
        BY <1>3, <4>3
           DEF Command, Closeout, StartAgent, PollAgent, SoftStop, Drain, ReadGoals, Reuse,
               Prepare, Verify, Judge, WriteReceipt, Select, Promote, Recover, Publish,
               Record, Complete, CloseoutFails, Ending, CloseoutPoints
      <4>4. CASE UNCHANGED vars
        BY <4>4 DEF vars
      <4> QED BY <1>3, <2>2, <4>1, <4>2, <4>3, <4>4 DEF Next, Ending
    <3> QED BY <1>1, <1>2, <3>1, <3>2, <3>3 DEF FinishedInv
  <2> QED BY <2>1, <2>2
<1>4. CASE Ending
  <2> USE DEF config, verdict, goals, run, outputs, agent, control, locals, history
  <2>1. CASE Evaluate
    <3>1. /\ UNCHANGED <<status, author, noted, cmd, delivered>> /\ pc = "final"
          /\ \/ pc' = "verdict" /\ UNCHANGED scored
             \/ pc' = "deliver" /\ (cmd = "execute" \/ scored = None)
      BY <2>1 DEF Evaluate, TypesInv, TypeOK
    <3>2. ~mode.posthoc
      BY <2>1 DEF Evaluate, ScoredInv
    <3>3. (status = "finished" /\ author = "execute") => cmd = "repair" /\ scored = sel
      <4>1. cmd \in {"execute", "repair"} /\ (cmd = "execute" => status = "running")
        BY <3>1 DEF FinishedInv, TypesInv, TypeOK
      <4>2. (status = "finished" /\ author = "execute") => {scored, delivered} = {sel}
        BY <3>2 DEF FinishedInv
      <4> QED BY <4>1, <4>2
    <3> QED BY <1>1, <1>2, <3>1, <3>2, <3>3, PickParts DEF FinishedInv
  <2>2. CASE Deliver
    BY <1>2, <2>2 DEF Deliver, FinishedInv
  <2>3. CASE Posthoc
    <3>1. mode.posthoc /\ status' = status
      BY <2>3 DEF Posthoc, ScoredInv
    <3>2. pc' # "deliver" /\ UNCHANGED <<author, noted, cmd, scored>> /\ pc # "idle"
          /\ delivered' \in {delivered, HiddenBest}
      BY <2>3 DEF Posthoc
    <3> QED BY <1>1, <1>2, <3>1, <3>2 DEF FinishedInv
  <2>4. CASE Score
    <3>1. mode.posthoc /\ scored' = HiddenBest /\ delivered' = HiddenBest
      BY <2>4 DEF Score, ScoredInv
    <3>2. pc' = "verdict" /\ UNCHANGED <<status, author, noted, cmd>> /\ pc # "idle"
      BY <2>4 DEF Score
    <3> QED BY <1>1, <1>2, <3>1, <3>2 DEF FinishedInv
  <2>5. CASE Verdict
    <3>1. /\ UNCHANGED <<goal, sel, scored, delivered, ev>> /\ pc' = "idle"
          /\ status' = "finished" => Passes
          /\ author' = cmd /\ noted' = (IF cmd = "execute" THEN killed ELSE noted)
      BY <2>5 DEF Verdict, CommandOver
    <3>2. status' = "finished" => goal' = "complete" /\ ~noted'
      BY <3>1 DEF Passes, CleanEnd, TypesInv, TypeOK
    <3>3. (status' = "finished" /\ cmd = "execute") =>
            {scored, delivered} = {IF mode.posthoc THEN HiddenBest ELSE sel}
      BY <2>5, <3>1, FinishedByExecute DEF Verdict
    <3>4. HiddenBest' = HiddenBest
      <4>1. Max(Eligible)' = Max(Eligible)
        BY <3>1, SameEvidence
      <4>2. Compliant(Max(Eligible))' = Compliant(Max(Eligible))
        BY <3>1, <4>1 DEF Compliant
      <4> QED BY <4>1, <4>2 DEF HiddenBest
    <3> QED BY <1>1, <3>1, <3>2, <3>3, <3>4 DEF FinishedInv
  <2>6. CASE Crash
    BY <1>1, <1>2, <2>6 DEF Crash, CommandOver, FinishedInv
  <2> QED BY <1>4, <2>1, <2>2, <2>3, <2>4, <2>5, <2>6 DEF Ending
<1> QED BY <1>3, <1>4

LEMMA ScoresKept == Spec => [](ScoredInv /\ FinishedInv)
<1>1. Init => ScoredInv /\ FinishedInv
  BY DEF Init, ScoredInv, FinishedInv
<1>2. /\ TypesInv /\ GateInv /\ InstalledInv /\ ScoredInv /\ FinishedInv /\ [Next]_vars
      => ScoredInv' /\ FinishedInv'
  BY ScoredKept, FinishedKept
<1> QED BY <1>1, <1>2, TypesKept, GatesKept, InstallsKept, PTL DEF Spec

\* A run that execute calls finished has its goal complete, no hard kill on record,
\* and the final evaluation of exactly what it delivered: the promoted artifact, or
\* the winner of the posthoc scoring (execute, repair_closeout).
THEOREM FinishedIsConsistent == Spec => []FinishedResult
<1>1. FinishedInv /\ InstalledInv => FinishedResult
  BY DEF FinishedInv, InstalledInv, FinishedResult
<1> QED BY <1>1, ScoresKept, InstallsKept, PTL
=============================================================================
