-------------------------- MODULE EvaluationProofs ---------------------------
(***************************************************************************)
(* Theorems about the evaluations of MCSharedState, for every value of the *)
(* bounds: the evaluator's budget, the judge of candidates, the reference  *)
(* cache and evaluate_workspace of the adapters.  A section per part gives *)
(* its inductive invariant (its conjuncts are in the part's own module)    *)
(* and shows that the part's steps keep it; the last section carries the   *)
(* parts over to Spec.                                                     *)
(***************************************************************************)
EXTENDS MCSharedState, Sequences, FiniteSetTheorems, TLAPS

-----------------------------------------------------------------------------
(* The evaluator of a task: its ledger, its lock, its history and its      *)
(* archive (EvaluatorBudget). Here v1 is limited, v2 is budget, v3 is      *)
(* lock, v4 is mode, v5 is pc, v6 is seen, v7 is index, v8 is hash, v9 is  *)
(* evaluated, v10 is artifact, v11 is agent, v12 is history, v13 is        *)
(* archive, v14 is claims, v15 is refused.                                 *)

BudgetInv ==
  /\ Budget!TypeOK /\ Budget!LockInv /\ Budget!ClaimInv /\ Budget!TicketInv /\ Budget!CallsInv
       /\ Budget!FinalInv
  /\ Budget!LedgerCounts /\ Budget!ArchiveIsHonest

\* The steps of a call up to its claim, at the ledger, and after it; those around the calls.
BudgetAsking(c) == Budget!Call(c) \/ Budget!Lock(c) \/ Budget!ReadTorn(c) \/ Budget!Refuse(c)
BudgetClaiming(c) == Budget!Claim(c) \/ Budget!Truncate(c) \/ Budget!Fill(c)
BudgetJudging(c) == Budget!Hash(c) \/ Budget!Evaluate(c) \/ Budget!Append(c) \/ Budget!Kill(c)
BudgetAround == Budget!Archive \/ Budget!Edit \/ Budget!AgentEnds

LEMMA BudgetGroups ==
  ASSUME Budget!Next
  PROVE  BudgetAround \/ \E c \in Budget!Calls : BudgetAsking(c) \/ BudgetClaiming(c)
           \/ BudgetJudging(c)
  BY DEF Budget!Next, BudgetAround, BudgetAsking, BudgetClaiming, BudgetJudging

\* The cardinality of the instance is that of the library's theorems.
LEMMA BudgetSameSize == \A S : Budget!Cardinality(S) = Cardinality(S)
  BY DEF Budget!Cardinality, Cardinality

\* A set of calls is finite, and has one element less where a call is not of it.
LEMMA BudgetCallSets ==
  /\ \A S \in SUBSET Budget!Calls : IsFiniteSet(S) /\ Cardinality(S) \in Nat
  /\ \A S \in SUBSET Budget!Calls : \A T \in SUBSET S : Cardinality(T) <= Cardinality(S)
  /\ \A S \in SUBSET Budget!Calls, c \in Budget!Calls : c \notin S =>
       Cardinality(S \cup {c}) = Cardinality(S) + 1 /\ Cardinality(S) < BudgetCalls
<1>1. IsFiniteSet(Budget!Calls) /\ Cardinality(Budget!Calls) = BudgetCalls
  BY BudgetBounds, FS_Interval DEF Budget!Calls
<1>2. \A S \in SUBSET Budget!Calls : IsFiniteSet(S)
  BY <1>1, FS_Subset
<1>3. \A S \in SUBSET Budget!Calls : Cardinality(S) \in Nat
  BY <1>2, FS_CardinalityType
<1>4. \A S \in SUBSET Budget!Calls : \A T \in SUBSET S : Cardinality(T) <= Cardinality(S)
  BY <1>2, FS_Subset
<1>5. ASSUME NEW S \in SUBSET Budget!Calls, NEW c \in Budget!Calls, c \notin S
      PROVE  Cardinality(S \cup {c}) = Cardinality(S) + 1 /\ Cardinality(S) < BudgetCalls
  <2>1. Cardinality(S \cup {c}) = IF c \in S THEN Cardinality(S) ELSE Cardinality(S) + 1
    BY <1>2, FS_AddElement
  <2>2. S \cup {c} \in SUBSET Budget!Calls
    OBVIOUS
  <2>3. Cardinality(S \cup {c}) <= Cardinality(Budget!Calls)
    BY <1>4, <2>2
  <2> QED BY <1>1, <1>3, <1>5, <2>1, <2>3
<1> QED BY <1>2, <1>3, <1>4, <1>5

LEMMA BudgetInitInv == ASSUME Budget!Init PROVE BudgetInv
<1>1. v1 \in BOOLEAN /\ v11 \in BOOLEAN
  BY Zenon DEF Budget!Init
<1>2. Budget!TypeOK
  BY <1>1, BudgetBounds DEF Budget!Init, Budget!TypeOK, Budget!Modes, Budget!Budgets,
     Budget!Unclaimed, Budget!Counts
<1>3. Budget!LockInv
  BY DEF Budget!Init, Budget!LockInv, Budget!Calls
<1>4. Budget!ClaimInv /\ Budget!TicketInv /\ Budget!FinalInv /\ Budget!ArchiveIsHonest
  BY DEF Budget!Init, Budget!ClaimInv, Budget!TicketInv, Budget!FinalInv, Budget!ArchiveIsHonest,
     Budget!Counted
<1>5. Budget!LedgerCounts
  BY BudgetBounds DEF Budget!Init, Budget!LedgerCounts, Budget!Unclaimed, Budget!Modes
<1>6. Budget!CallsInv
  <2>1. Budget!Ticketed \in SUBSET Budget!Calls
    BY DEF Budget!Ticketed
  <2>2. Budget!Given = 0
    BY DEF Budget!Init, Budget!Given, Budget!Modes
  <2> QED BY <2>1, <2>2, BudgetSameSize, BudgetCallSets DEF Budget!Init, Budget!CallsInv
<1> QED BY <1>2, <1>3, <1>4, <1>5, <1>6 DEF BudgetInv

\* A call at the ledger finds room for its ticket.
LEMMA BudgetRoomFor ==
  ASSUME BudgetInv, NEW c \in Budget!Calls, v5[c] = "read"
  PROVE  Budget!Given < BudgetCalls
<1>1. Budget!Ticketed \in SUBSET Budget!Calls /\ c \notin Budget!Ticketed
  BY DEF BudgetInv, Budget!CallsInv, Budget!Ticketed
<1>2. Budget!Given <= Cardinality(Budget!Ticketed)
  BY BudgetSameSize DEF BudgetInv, Budget!CallsInv
<1>3. Budget!Given \in Nat
  BY DEF BudgetInv, Budget!TypeOK, Budget!Given, Budget!Modes, Budget!Counts
<1>4. Cardinality(Budget!Ticketed) < BudgetCalls /\ Cardinality(Budget!Ticketed) \in Nat
  BY <1>1, BudgetCallSets
<1> QED BY <1>2, <1>3, <1>4, BudgetBounds

\* What a claim writes into its copy of the ledger.
LEMMA BudgetClaimed ==
  ASSUME BudgetInv, NEW c \in Budget!Calls, Budget!Claim(c)
  PROVE  /\ v6'[c] \in Budget!Budgets /\ v6'[c].total = Budget!Given + 1
         /\ \A m \in Budget!Modes : v6'[c][m] = v14[m] + (IF m = v4[c] THEN 1 ELSE 0)
<1>1. v2 \in Budget!Budgets /\ v4[c] \in Budget!Modes /\ c \in DOMAIN v6
  BY DEF BudgetInv, Budget!TypeOK, Budget!Claim
<1>2. /\ v2.public = v14["public"] /\ v2.final = v14["final"]
      /\ v2.total = v2.public + v2.final
  BY DEF BudgetInv, Budget!LedgerCounts, Budget!Claim
<1>3. Budget!Given < BudgetCalls /\ Budget!Given = v2.total /\ v2.public \in Nat
        /\ v2.final \in Nat
  <2>1. v5[c] = "read"
    BY DEF Budget!Claim
  <2>2. Budget!Given < BudgetCalls
    BY <2>1, BudgetRoomFor
  <2> QED BY <1>1, <1>2, <2>2 DEF Budget!Given, Budget!Budgets, Budget!Counts
<1>4. v6'[c] = [v2 EXCEPT ![v4[c]] = @ + 1, !.total = @ + 1]
  BY <1>1 DEF Budget!Claim
<1>5. CASE v4[c] = "public"
  <2>1. v6'[c] = [public |-> v2.public + 1, final |-> v2.final, total |-> v2.total + 1]
    BY <1>1, <1>4, <1>5 DEF Budget!Budgets
  <2> QED BY <1>2, <1>3, <1>5, <2>1, BudgetBounds DEF Budget!Budgets, Budget!Counts, Budget!Modes
<1>6. CASE v4[c] = "final"
  <2>1. v6'[c] = [public |-> v2.public, final |-> v2.final + 1, total |-> v2.total + 1]
    BY <1>1, <1>4, <1>6 DEF Budget!Budgets
  <2> QED BY <1>2, <1>3, <1>6, <2>1, BudgetBounds DEF Budget!Budgets, Budget!Counts, Budget!Modes
<1> QED BY <1>1, <1>5, <1>6 DEF Budget!Modes

LEMMA BudgetCallTypes ==
  ASSUME BudgetInv, NEW c \in Budget!Calls, BudgetAsking(c) \/ BudgetClaiming(c)
         \/ BudgetJudging(c)
  PROVE  Budget!TypeOK'
<1> USE DEF BudgetInv, Budget!TypeOK, Budget!Go, Budget!Ticket, Budget!Result, Budget!Work,
       Budget!Told
<1>1. CASE BudgetAsking(c)
  <2> USE BudgetBounds DEF Budget!Calls
  <2>1. CASE Budget!Call(c)
    BY <2>1 DEF Budget!Call
  <2>2. CASE Budget!Lock(c)
    BY <2>2 DEF Budget!Lock
  <2>3. CASE Budget!ReadTorn(c)
    BY <2>3 DEF Budget!ReadTorn
  <2>4. CASE Budget!Refuse(c)
    BY <2>4 DEF Budget!Refuse
  <2> QED BY <1>1, <2>1, <2>2, <2>3, <2>4 DEF BudgetAsking
<1>2. CASE Budget!Claim(c)
  <2>1. v6' \in [Budget!Calls -> Budget!Budgets] /\ v7' \in [Budget!Calls -> Budget!Counts]
    BY <1>2, BudgetClaimed DEF Budget!Claim, Budget!Budgets
  <2> QED BY <1>2, <2>1 DEF Budget!Claim
<1>3. CASE Budget!Truncate(c)
  BY <1>3 DEF Budget!Truncate
<1>4. CASE Budget!Fill(c)
  <2>1. v14' \in [Budget!Modes -> Budget!Counts]
    <3>1. v6[c][v4[c]] = v14[v4[c]] + 1 /\ v4[c] \in Budget!Modes
      BY <1>4 DEF Budget!Fill, Budget!ClaimInv
    <3>2. v6[c][v4[c]] \in Budget!Counts
      BY <3>1 DEF Budget!Budgets, Budget!Modes
    <3> QED BY <1>4, <3>1, <3>2 DEF Budget!Fill
  <2> QED BY <1>4, <2>1, BudgetBounds DEF Budget!Fill, Budget!Calls
<1>5. CASE Budget!Hash(c)
  BY <1>5 DEF Budget!Hash
<1>6. CASE Budget!Append(c)
  BY <1>6 DEF Budget!Append, Budget!Reports
<1>7. CASE Budget!Evaluate(c)
  BY <1>7 DEF Budget!Evaluate
<1>8. CASE Budget!Kill(c)
  BY <1>8, BudgetBounds DEF Budget!Kill, Budget!Calls
<1> QED BY <1>1, <1>2, <1>3, <1>4, <1>5, <1>6, <1>7, <1>8 DEF BudgetClaiming, BudgetJudging

LEMMA BudgetAroundTypes == ASSUME BudgetInv, BudgetAround PROVE Budget!TypeOK'
<1> USE DEF BudgetInv, Budget!TypeOK, Budget!Ticket, Budget!Result, Budget!Work, Budget!Told
<1>1. CASE Budget!Archive
  BY <1>1 DEF Budget!Archive, Budget!Finals
<1>2. CASE Budget!Edit
  BY <1>2, BudgetBounds DEF Budget!Edit
<1>3. CASE Budget!AgentEnds
  BY <1>3 DEF Budget!AgentEnds
<1> QED BY <1>1, <1>2, <1>3 DEF BudgetAround

LEMMA BudgetLockKept ==
  ASSUME BudgetInv, NEW c \in Budget!Calls, BudgetAsking(c) \/ BudgetClaiming(c)
         \/ BudgetJudging(c)
  PROVE  Budget!LockInv'
<1> USE DEF BudgetInv, Budget!TypeOK, Budget!LockInv, Budget!Go, Budget!Ticket, Budget!Result,
       Budget!Work, Budget!Told
<1>1. 0 \notin Budget!Calls
  BY DEF Budget!Calls
<1>2. CASE Budget!Call(c)
  BY <1>2 DEF Budget!Call
<1>3. CASE Budget!Lock(c)
  BY <1>1, <1>3 DEF Budget!Lock
<1>4. CASE Budget!ReadTorn(c)
  BY <1>1, <1>4 DEF Budget!ReadTorn
<1>5. CASE Budget!Refuse(c)
  BY <1>1, <1>5 DEF Budget!Refuse
<1>6. CASE Budget!Claim(c)
  BY <1>6 DEF Budget!Claim
<1>7. CASE Budget!Truncate(c)
  BY <1>7 DEF Budget!Truncate
<1>8. CASE Budget!Fill(c)
  BY <1>1, <1>8 DEF Budget!Fill
<1>9. CASE Budget!Hash(c) \/ Budget!Evaluate(c) \/ Budget!Append(c)
  BY <1>9 DEF Budget!Hash, Budget!Evaluate, Budget!Append
<1>10. CASE Budget!Kill(c)
  BY <1>1, <1>10 DEF Budget!Kill
<1> QED BY <1>2, <1>3, <1>4, <1>5, <1>6, <1>7, <1>8, <1>9, <1>10 DEF BudgetAsking, BudgetClaiming,
           BudgetJudging

\* The holder of the lock is alone at the ledger.
LEMMA BudgetAlone ==
  ASSUME BudgetInv, NEW c \in Budget!Calls, v5[c] \in {"read", "truncate", "fill"},
         NEW d \in Budget!Calls, d # c
  PROVE  v5[d] \notin {"read", "truncate", "fill"}
  BY DEF BudgetInv, Budget!LockInv

LEMMA BudgetClaimKept ==
  ASSUME BudgetInv, NEW c \in Budget!Calls, BudgetAsking(c) \/ BudgetClaiming(c)
         \/ BudgetJudging(c)
  PROVE  Budget!ClaimInv'
<1> USE DEF BudgetInv, Budget!TypeOK, Budget!ClaimInv, Budget!Given, Budget!Go, Budget!Ticket,
       Budget!Result, Budget!Work, Budget!Told
<1>1. CASE Budget!Call(c) \/ Budget!Lock(c) \/ Budget!ReadTorn(c)
  BY <1>1 DEF Budget!Call, Budget!Lock, Budget!ReadTorn
<1>2. CASE Budget!Refuse(c)
  BY <1>2 DEF Budget!Refuse, Budget!Exhausted
<1>3. CASE Budget!Claim(c)
  <2>1. v1 => v14[v4[c]] < (IF v4[c] = "public" THEN BudgetPublic ELSE BudgetReserve)
    <3>1. v2.public = v14["public"] /\ v2.final = v14["final"]
      BY <1>3 DEF Budget!Claim, Budget!LedgerCounts
    <3>2. ~Budget!Exhausted(v4[c])
      BY <1>3 DEF Budget!Claim
    <3>3. v14["public"] \in Nat /\ v14["final"] \in Nat /\ v4[c] \in Budget!Modes
      BY DEF Budget!Modes, Budget!Counts
    <3> QED BY <3>1, <3>2, <3>3, BudgetBounds DEF Budget!Exhausted, Budget!Modes
  <2>2. v7'[c] = Budget!Given + 1
    BY <1>3, BudgetClaimed DEF Budget!Claim
  <2>3. \A d \in Budget!Calls \ {c} : v5'[d] \notin {"truncate", "fill"}
    BY <1>3, BudgetAlone DEF Budget!Claim
  <2>4. /\ v6'[c].total = Budget!Given + 1
        /\ \A m \in Budget!Modes : v6'[c][m] = v14[m] + (IF m = v4[c] THEN 1 ELSE 0)
    BY <1>3, BudgetClaimed
  <2>5. UNCHANGED <<v14, v4, v1, v15>>
    BY <1>3 DEF Budget!Claim
  <2> QED BY <2>1, <2>2, <2>3, <2>4, <2>5
<1>4. CASE Budget!Truncate(c)
  BY <1>4 DEF Budget!Truncate
<1>5. CASE Budget!Fill(c)
  <2>1. \A d \in Budget!Calls : v5'[d] \notin {"truncate", "fill"}
    BY <1>5, BudgetAlone DEF Budget!Fill
  <2> QED BY <1>5, <2>1 DEF Budget!Fill
<1>6. CASE BudgetJudging(c)
  BY <1>6 DEF BudgetJudging, Budget!Hash, Budget!Evaluate, Budget!Append, Budget!Kill
<1> QED BY <1>1, <1>2, <1>3, <1>4, <1>5, <1>6 DEF BudgetAsking, BudgetClaiming

LEMMA BudgetTicketKept ==
  ASSUME BudgetInv, NEW c \in Budget!Calls, BudgetAsking(c) \/ BudgetClaiming(c)
         \/ BudgetJudging(c)
  PROVE  Budget!TicketInv'
<1> USE DEF BudgetInv, Budget!TypeOK, Budget!TicketInv, Budget!Counted, Budget!Given,
       Budget!Report, Budget!Go, Budget!Ticket, Budget!Result, Budget!Work, Budget!Told
<1>1. CASE BudgetAsking(c)
  BY <1>1 DEF BudgetAsking, Budget!Call, Budget!Lock, Budget!ReadTorn, Budget!Refuse
<1>2. CASE Budget!Claim(c)
  BY <1>2 DEF Budget!Claim
<1>3. CASE Budget!Truncate(c)
  BY <1>3 DEF Budget!Truncate
<1>4. CASE Budget!Fill(c)
  <2>1. Budget!Given \in Nat /\ Budget!Given' = Budget!Given + 1 /\ v7'[c] = Budget!Given + 1
    BY <1>4 DEF Budget!Fill, Budget!ClaimInv, Budget!Modes, Budget!Counts
  <2>2. \A d \in Budget!Calls : Budget!Counted(d)' => d = c \/ Budget!Counted(d)
    BY <1>4 DEF Budget!Fill
  <2>3. \A d \in Budget!Calls : Budget!Counted(d)' => v7'[d] \in 1..Budget!Given'
          /\ (v7'[d] = Budget!Given' => d = c)
    BY <1>4, <2>1, <2>2 DEF Budget!Fill, Budget!Counts
  <2>4. \A r \in v12' : \E d \in Budget!Calls : v5'[d] = "over" /\ r = Budget!Report(d)'
    BY <1>4 DEF Budget!Fill
  <2> HIDE DEF Budget!Given
  <2>5. \A d, e \in Budget!Calls : Budget!Counted(d)' /\ Budget!Counted(e)' /\ v7'[d] = v7'[e] =>
          d = e
    BY <1>4, <2>1, <2>2, <2>3 DEF Budget!Fill
  <2> QED BY <2>3, <2>4, <2>5
<1>5. CASE Budget!Hash(c)
  BY <1>5 DEF Budget!Hash
<1>6. CASE Budget!Evaluate(c)
  BY <1>6 DEF Budget!Evaluate
<1>7. CASE Budget!Append(c)
  BY <1>7 DEF Budget!Append
<1>8. CASE Budget!Kill(c)
  BY <1>8 DEF Budget!Kill
<1> QED BY <1>1, <1>2, <1>3, <1>4, <1>5, <1>6, <1>7, <1>8 DEF BudgetClaiming, BudgetJudging

LEMMA BudgetCallsKept ==
  ASSUME BudgetInv, NEW c \in Budget!Calls, BudgetAsking(c) \/ BudgetClaiming(c)
         \/ BudgetJudging(c)
  PROVE  Budget!CallsInv'
<1> USE DEF BudgetInv, Budget!TypeOK, Budget!Go, Budget!Ticket, Budget!Result, Budget!Work,
       Budget!Told
<1>1. Budget!Ticketed \in SUBSET Budget!Calls /\ Budget!Ticketed' \in SUBSET Budget!Calls
        /\ Budget!Given \in Nat
  BY DEF Budget!Ticketed, Budget!Given, Budget!Modes, Budget!Counts
<1>2. Budget!Given <= Cardinality(Budget!Ticketed)
  BY BudgetSameSize DEF Budget!CallsInv
<1>3. \A d \in Budget!Calls : v5'[d] \in {"idle", "lock", "read"} => v7'[d] = 0
  <2>1. CASE BudgetAsking(c)
    BY <2>1 DEF Budget!CallsInv, BudgetAsking, Budget!Call, Budget!Lock, Budget!ReadTorn,
       Budget!Refuse
  <2>2. CASE BudgetClaiming(c)
    BY <2>2 DEF Budget!CallsInv, BudgetClaiming, Budget!Claim, Budget!Truncate, Budget!Fill
  <2>3. CASE BudgetJudging(c)
    BY <2>3 DEF Budget!CallsInv, BudgetJudging, Budget!Hash, Budget!Evaluate, Budget!Append,
       Budget!Kill
  <2> QED BY <2>1, <2>2, <2>3
<1>4. ASSUME Budget!Ticketed \subseteq Budget!Ticketed', Budget!Given' = Budget!Given
      PROVE Budget!CallsInv'
  BY <1>1, <1>2, <1>3, <1>4, BudgetSameSize, BudgetCallSets DEF Budget!CallsInv
<1>5. CASE BudgetAsking(c)
  BY <1>4, <1>5 DEF BudgetAsking, Budget!Call, Budget!Lock, Budget!ReadTorn, Budget!Refuse,
     Budget!Ticketed, Budget!Given
<1>6. CASE Budget!Claim(c)
  BY <1>4, <1>6 DEF Budget!Claim, Budget!Ticketed, Budget!Given, Budget!CallsInv
<1>7. CASE Budget!Truncate(c)
  BY <1>4, <1>7 DEF Budget!Truncate, Budget!Ticketed, Budget!Given
<1>8. CASE BudgetJudging(c)
  BY <1>4, <1>8 DEF BudgetJudging, Budget!Hash, Budget!Evaluate, Budget!Append, Budget!Kill,
     Budget!Ticketed, Budget!Given
<1>9. CASE Budget!Fill(c)
  <2>1. v7[c] = Budget!Given + 1 /\ Budget!Given' = Budget!Given + 1
    BY <1>9 DEF Budget!Fill, Budget!ClaimInv, Budget!Given, Budget!Modes, Budget!Counts
  <2>2. Budget!Ticketed' = Budget!Ticketed \cup {c} /\ c \notin Budget!Ticketed
    BY <1>1, <1>9, <2>1 DEF Budget!Fill, Budget!Ticketed
  <2>3. Cardinality(Budget!Ticketed') = Cardinality(Budget!Ticketed) + 1
    BY <1>1, <2>2, BudgetCallSets
  <2> QED BY <1>1, <1>2, <1>3, <2>1, <2>3, BudgetSameSize, BudgetCallSets DEF Budget!CallsInv
<1> QED BY <1>5, <1>6, <1>7, <1>8, <1>9 DEF BudgetClaiming

LEMMA BudgetFinalKept ==
  ASSUME BudgetInv, NEW c \in Budget!Calls, BudgetAsking(c) \/ BudgetClaiming(c)
         \/ BudgetJudging(c)
  PROVE  Budget!FinalInv' /\ Budget!ArchiveIsHonest'
<1> USE DEF BudgetInv, Budget!TypeOK, Budget!FinalInv, Budget!ArchiveIsHonest, Budget!Go,
       Budget!Ticket, Budget!Result, Budget!Work, Budget!Told
<1>1. CASE BudgetAsking(c)
  BY <1>1 DEF BudgetAsking, Budget!Call, Budget!Lock, Budget!ReadTorn, Budget!Refuse
<1>2. CASE BudgetClaiming(c)
  <2>1. CASE Budget!Claim(c)
    BY <2>1 DEF Budget!Claim
  <2>2. CASE Budget!Truncate(c)
    BY <2>2 DEF Budget!Truncate
  <2>3. CASE Budget!Fill(c)
    BY <2>3 DEF Budget!Fill
  <2> QED BY <1>2, <2>1, <2>2, <2>3 DEF BudgetClaiming
<1>3. CASE BudgetJudging(c)
  BY <1>3 DEF BudgetJudging, Budget!Hash, Budget!Evaluate, Budget!Append, Budget!Kill
<1> QED BY <1>1, <1>2, <1>3

LEMMA BudgetLedgerKept ==
  ASSUME BudgetInv, NEW c \in Budget!Calls, BudgetAsking(c) \/ BudgetClaiming(c)
         \/ BudgetJudging(c)
  PROVE  Budget!LedgerCounts'
<1> USE DEF BudgetInv, Budget!TypeOK, Budget!LedgerCounts, Budget!Go, Budget!Ticket,
       Budget!Result, Budget!Work, Budget!Told
<1>1. CASE Budget!Call(c) \/ Budget!Lock(c) \/ Budget!ReadTorn(c) \/ Budget!Claim(c)
  <2>1. UNCHANGED <<v2, v14, v1, v15>>
    BY <1>1 DEF Budget!Call, Budget!Lock, Budget!ReadTorn, Budget!Claim
  <2> QED BY <2>1
<1>5. CASE Budget!Truncate(c)
  BY <1>5 DEF Budget!Truncate
<1>2. CASE Budget!Refuse(c)
  BY <1>2, BudgetBounds DEF Budget!Refuse, Budget!Exhausted, Budget!Modes, Budget!Counts
<1>3. CASE Budget!Fill(c)
  <2>1. /\ \A m \in Budget!Modes : v6[c][m] = v14[m] + (IF m = v4[c] THEN 1 ELSE 0)
        /\ v6[c].total = Budget!Given + 1
        /\ v1 => v14[v4[c]] < (IF v4[c] = "public" THEN BudgetPublic ELSE BudgetReserve)
    BY <1>3 DEF Budget!Fill, Budget!ClaimInv
  <2>2. v2' = v6[c] /\ v6[c] \in Budget!Budgets
    BY <1>3 DEF Budget!Fill
  <2>3. \A m \in Budget!Modes : v14'[m] = v14[m] + (IF m = v4[c] THEN 1 ELSE 0) /\ v14[m] \in Nat
    BY <1>3 DEF Budget!Fill, Budget!Counts
  <2>4. /\ v2'.public = v14'["public"] /\ v2'.final = v14'["final"]
        /\ v2'.total = v2'.public + v2'.final
    BY <2>1, <2>2, <2>3 DEF Budget!Modes, Budget!Given
  <2>5. v1 => v14'["public"] <= BudgetPublic /\ v14'["final"] <= BudgetReserve
    BY <2>1, <2>3, BudgetBounds DEF Budget!Modes
  <2>6. "final" \in v15 => v14'["final"] = BudgetReserve
    BY <2>1, <2>3, BudgetBounds DEF Budget!Modes, Budget!ClaimInv
  <2> QED BY <1>3, <2>4, <2>5, <2>6 DEF Budget!Fill
<1>4. CASE BudgetJudging(c)
  BY <1>4 DEF BudgetJudging, Budget!Hash, Budget!Evaluate, Budget!Append, Budget!Kill
<1> QED BY <1>1, <1>2, <1>3, <1>4, <1>5 DEF BudgetAsking, BudgetClaiming

LEMMA BudgetAroundInv == ASSUME BudgetInv, BudgetAround PROVE BudgetInv'
<1> USE DEF Budget!Ticket, Budget!Result, Budget!Work, Budget!Told
<1>1. UNCHANGED <<v1, v2, v3, v4, v5, v6, v7, v8, v9, v12, v14, v15>>
  BY DEF BudgetAround, Budget!Archive, Budget!Edit, Budget!AgentEnds
<1>2. Budget!LockInv' /\ Budget!ClaimInv' /\ Budget!TicketInv' /\ Budget!CallsInv'
        /\ Budget!LedgerCounts'
  BY <1>1 DEF BudgetInv, Budget!LockInv, Budget!ClaimInv, Budget!TicketInv, Budget!CallsInv,
     Budget!LedgerCounts, Budget!Counted, Budget!Given, Budget!Report, Budget!Ticketed
<1>3. Budget!FinalInv' /\ Budget!ArchiveIsHonest'
  <2> USE DEF BudgetInv, Budget!FinalInv, Budget!ArchiveIsHonest
  <2>1. CASE Budget!Archive
    <3>1. PICK r \in Budget!Finals : r.hash = v10 /\ v13' = r
      BY <2>1 DEF Budget!Archive
    <3>2. r.evaluated = v10
      BY <3>1 DEF Budget!Finals, Budget!TicketInv, Budget!Report
    <3> QED BY <2>1, <3>1, <3>2 DEF Budget!Archive
  <2>2. CASE Budget!Edit
    BY <2>2 DEF Budget!Edit
  <2>3. CASE Budget!AgentEnds
    BY <2>3 DEF Budget!AgentEnds
  <2> QED BY <2>1, <2>2, <2>3 DEF BudgetAround
<1> QED BY <1>2, <1>3, BudgetAroundTypes DEF BudgetInv

LEMMA BudgetUnchanged == ASSUME BudgetInv, UNCHANGED Budget!vars PROVE BudgetInv'
  BY DEF BudgetInv, Budget!TypeOK, Budget!LockInv, Budget!ClaimInv, Budget!TicketInv,
     Budget!CallsInv, Budget!FinalInv, Budget!LedgerCounts, Budget!ArchiveIsHonest,
     Budget!Counted, Budget!Given, Budget!Report, Budget!Ticketed, Budget!vars

LEMMA BudgetNextInv == ASSUME BudgetInv, Budget!Next \/ UNCHANGED Budget!vars PROVE BudgetInv'
<1>1. CASE UNCHANGED Budget!vars
  BY <1>1, BudgetUnchanged
<1>2. CASE BudgetAround
  BY <1>2, BudgetAroundInv
<1>3. ASSUME NEW c \in Budget!Calls, BudgetAsking(c) \/ BudgetClaiming(c) \/ BudgetJudging(c)
      PROVE BudgetInv'
  BY <1>3, BudgetCallTypes, BudgetLockKept, BudgetClaimKept, BudgetTicketKept, BudgetCallsKept,
     BudgetFinalKept, BudgetLedgerKept DEF BudgetInv
<1> QED BY <1>1, <1>2, <1>3, BudgetGroups

LEMMA BudgetSound == BudgetInv => Budget!TypeOK /\ Budget!BudgetIsSound
<1> SUFFICES ASSUME BudgetInv PROVE Budget!TicketsDiffer
  BY DEF BudgetInv, Budget!BudgetIsSound
<1>1. ASSUME NEW r \in v12, NEW s \in v12, r.index = s.index PROVE r = s
  <2>1. PICK c \in Budget!Calls : v5[c] = "over" /\ r = Budget!Report(c)
    BY DEF BudgetInv, Budget!TicketInv
  <2>2. PICK d \in Budget!Calls : v5[d] = "over" /\ s = Budget!Report(d)
    BY DEF BudgetInv, Budget!TicketInv
  <2>3. c = d
    BY <1>1, <2>1, <2>2 DEF BudgetInv, Budget!TicketInv, Budget!Counted, Budget!Report
  <2> QED BY <2>1, <2>2, <2>3
<1> QED BY <1>1 DEF Budget!TicketsDiffer

-----------------------------------------------------------------------------
(* The judge of candidates and the environment it runs in                  *)
(* (CandidateJudge). Here v1 is mode, v2 is start, v3 is env, v4 is kept,  *)
(* v5 is outer, v6 is inner, v7 is eligible, v8 is clean, v9 is pc, v10 is *)
(* asked, v11 is result, v12 is calls, v13 is seen.                        *)

JudgementInv == Judgement!TypeOK /\ Judgement!ScopeInv /\ Judgement!AskedInv

LEMMA JudgementInitInv == ASSUME Judgement!Init PROVE JudgementInv
<1>1. Judgement!TypeOK
  BY JudgementBounds DEF Judgement!Init, Judgement!TypeOK, Judgement!Nobody, Judgement!Outcomes
<1>2. Judgement!ScopeInv /\ Judgement!AskedInv
  BY DEF Judgement!Init, Judgement!ScopeInv, Judgement!AskedInv, Judgement!ChoiceIsAsked,
     Judgement!Nobody
<1> QED BY <1>1, <1>2 DEF JudgementInv

LEMMA JudgementBackendIs ==
  \/ Judgement!Backend = {}
  \/ Judgement!Backend \in {{"openai", "openai base"}, {"deepseek"}, {"vertex"}}
  BY DEF Judgement!Backend

\* The judge is asked only about several candidates whose texts may be sent.
LEMMA JudgementAskSteps ==
  ASSUME Judgement!Ask
  PROVE  /\ v7' \in 0..JudgementCandidates /\ v10' = v10 + 1 /\ v12' = 0
         /\ \/ v9' = v9 /\ \E o \in {"disabled", "no candidates", "error"} :
                 v11' = Judgement!Nobody(o)
            \/ v9' = v9 /\ v11' = Judgement!Chosen(1) /\ v7' = 1
            \/ /\ v9' = "judge" /\ v11' = Judgement!Nobody("none")
               /\ v8' /\ v7' > 1 /\ v1 # "off"
<1>1. /\ v7' \in 0..JudgementCandidates /\ v10' = v10 + 1 /\ v12' = 0
  BY DEF Judgement!Ask, Judgement!Question
<1>2. CASE v1 # "off" /\ v7' > 1 /\ v8'
  BY <1>1, <1>2 DEF Judgement!Ask, Judgement!Go
<1>3. CASE ~(v1 # "off" /\ v7' > 1 /\ v8')
  BY <1>1, <1>3 DEF Judgement!Ask
<1> QED BY <1>1, <1>2, <1>3

LEMMA JudgementNextTypes == ASSUME JudgementInv, Judgement!Next PROVE Judgement!TypeOK'
<1> USE DEF JudgementInv, Judgement!Go, Judgement!Run, Judgement!Question, Judgement!Answer
<1>1. v8' \in BOOLEAN
  BY Zenon DEF Judgement!Next, Judgement!Enter, Judgement!Spawn, Judgement!Ask, Judgement!Jev,
     Judgement!OpenScope, Judgement!Import, Judgement!Select, Judgement!Leave, Judgement!TypeOK
<1>2. v1' \in {"off", "jev", "llm"} /\ UNCHANGED <<v2, v4>>
  BY DEF Judgement!Next, Judgement!Enter, Judgement!Spawn, Judgement!Ask, Judgement!Jev,
     Judgement!OpenScope, Judgement!Import, Judgement!Select, Judgement!Leave, Judgement!TypeOK
<1>3. /\ v7' \in 0..JudgementCandidates /\ v10' \in 0..Judgements /\ v12' \in 0..1
      /\ v9' \in {"idle", "closeout", "judge", "import", "select", "leave", "over"}
  <2>1. CASE Judgement!Ask
    <3>1. v10 \in 0..Judgements /\ v10 < Judgements /\ v9 = "closeout"
      BY <2>1 DEF Judgement!Ask, Judgement!TypeOK
    <3>2. v9' = v9 \/ v9' = "judge"
      BY <2>1, JudgementAskSteps
    <3>3. v7' \in 0..JudgementCandidates /\ v10' = v10 + 1 /\ v12' = 0
      BY <2>1, JudgementAskSteps
    <3> QED BY <3>1, <3>2, <3>3, JudgementBounds
  <2>2. CASE Judgement!Enter \/ Judgement!Spawn \/ Judgement!Jev \/ Judgement!OpenScope
          \/ Judgement!Import \/ Judgement!Select \/ Judgement!Leave
    BY <2>2 DEF Judgement!Enter, Judgement!Spawn, Judgement!Jev, Judgement!OpenScope,
       Judgement!Import, Judgement!Select, Judgement!Leave, Judgement!TypeOK
  <2> QED BY <2>1, <2>2 DEF Judgement!Next
<1>4. v11' \in [is : Judgement!Outcomes, choice : 0..JudgementCandidates]
  <2>1. v11 \in [is : Judgement!Outcomes, choice : 0..JudgementCandidates]
          /\ v7 \in 0..JudgementCandidates
    BY DEF Judgement!TypeOK
  <2>2. \A o \in Judgement!Outcomes :
          Judgement!Nobody(o) \in [is : Judgement!Outcomes, choice : 0..JudgementCandidates]
    BY JudgementBounds DEF Judgement!Nobody
  <2>3. \A i \in 0..JudgementCandidates :
          Judgement!Chosen(i) \in [is : Judgement!Outcomes, choice : 0..JudgementCandidates]
    BY DEF Judgement!Chosen, Judgement!Outcomes
  <2>4. {"none", "disabled", "no candidates", "error", "unavailable",
          "raised"} \subseteq Judgement!Outcomes
    BY DEF Judgement!Outcomes
  <2>5. 1..v7 \subseteq 0..JudgementCandidates
    BY <2>1, JudgementBounds
  <2>6. CASE Judgement!Ask
    BY <2>2, <2>3, <2>4, <2>6, JudgementAskSteps
  <2>7. CASE Judgement!Jev
    BY <2>2, <2>3, <2>4, <2>5, <2>1, <2>7 DEF Judgement!Jev
  <2>8. CASE Judgement!Select
    BY <2>2, <2>3, <2>4, <2>5, <2>8 DEF Judgement!Select
  <2>9. CASE Judgement!Enter \/ Judgement!Spawn \/ Judgement!OpenScope \/ Judgement!Import
          \/ Judgement!Leave
    BY <2>1, <2>2, <2>4, <2>9 DEF Judgement!Enter, Judgement!Spawn, Judgement!OpenScope,
       Judgement!Import, Judgement!Leave
  <2> QED BY <2>6, <2>7, <2>8, <2>9 DEF Judgement!Next
<1>5. (v3' \cup v13') \subseteq Judgement!Names
        /\ (v5' = Judgement!Closed \/ v5' \subseteq Judgement!Names)
  <2> USE DEF Judgement!TypeOK, Judgement!Restore, Judgement!Providers, Judgement!Names,
         Judgement!Closed, Judgement!ScopeInv
  <2>1. CASE Judgement!Enter \/ Judgement!Spawn \/ Judgement!Ask \/ Judgement!Jev
          \/ Judgement!Leave
    BY <2>1 DEF Judgement!Enter, Judgement!Spawn, Judgement!Ask, Judgement!Jev, Judgement!Leave
  <2>2. CASE Judgement!OpenScope
    BY <2>2, JudgementBackendIs DEF Judgement!OpenScope
  <2>3. CASE Judgement!Import
    BY <2>3 DEF Judgement!Import
  <2>4. CASE Judgement!Select
    BY <2>4 DEF Judgement!Select
  <2> QED BY <2>1, <2>2, <2>3, <2>4 DEF Judgement!Next
<1>6. v6' = Judgement!Closed \/ v6' \subseteq Judgement!Providers
  <2>1. CASE Judgement!OpenScope
    BY <2>1 DEF Judgement!OpenScope, Judgement!TypeOK
  <2>2. CASE Judgement!Enter \/ Judgement!Spawn \/ Judgement!Ask \/ Judgement!Jev
          \/ Judgement!Import \/ Judgement!Select \/ Judgement!Leave
    BY <2>2 DEF Judgement!Enter, Judgement!Spawn, Judgement!Ask, Judgement!Jev, Judgement!Import,
       Judgement!Select, Judgement!Leave, Judgement!Restore, Judgement!TypeOK
  <2> QED BY <2>1, <2>2 DEF Judgement!Next
<1> QED BY <1>1, <1>2, <1>3, <1>4, <1>5, <1>6 DEF Judgement!TypeOK

LEMMA JudgementNextScopes == ASSUME JudgementInv, Judgement!Next PROVE Judgement!ScopeInv'
<1> USE DEF JudgementInv, Judgement!TypeOK, Judgement!ScopeInv, Judgement!AskedInv, Judgement!Go,
       Judgement!Run, Judgement!Question, Judgement!Answer, Judgement!Nobody, Judgement!Chosen,
       Judgement!Closed
<1>1. CASE Judgement!Enter
  BY <1>1 DEF Judgement!Enter
<1>2. CASE Judgement!Spawn
  BY <1>2 DEF Judgement!Spawn
<1>3. CASE Judgement!Ask
  BY <1>3, JudgementAskSteps DEF Judgement!Ask
<1>4. CASE Judgement!Jev
  BY <1>4 DEF Judgement!Jev
<1>5. CASE Judgement!OpenScope
  BY <1>5, JudgementBackendIs DEF Judgement!OpenScope
<1>6. CASE Judgement!Import
  BY <1>6 DEF Judgement!Import, Judgement!Restore, Judgement!Providers
<1>7. CASE Judgement!Select
  BY <1>7 DEF Judgement!Select, Judgement!Restore, Judgement!Providers
<1>8. CASE Judgement!Leave
  <2>1. UNCHANGED <<v4, v2, v13, v1, v6>> /\ v9' = "over" /\ v5' = Judgement!Closed
    BY <1>8 DEF Judgement!Leave
  <2>2. v3' = v2
    <3>1. CASE v5 = Judgement!Closed
      <4>1. v2 # Judgement!Closed
        BY DEF Judgement!Names
      <4> QED BY <1>8, <3>1, <4>1 DEF Judgement!Leave
    <3>2. CASE v5 # Judgement!Closed
      BY <1>8, <3>2 DEF Judgement!Leave
    <3> QED BY <3>1, <3>2
  <2> QED BY <1>8, <2>1, <2>2 DEF Judgement!Leave
<1> QED BY <1>1, <1>2, <1>3, <1>4, <1>5, <1>6, <1>7, <1>8 DEF Judgement!Next

LEMMA JudgementNextAsked == ASSUME JudgementInv, Judgement!Next PROVE Judgement!AskedInv'
<1>1. v7 \in Nat /\ v7' \in Nat
  BY JudgementNextTypes, JudgementBounds DEF JudgementInv, Judgement!TypeOK
<1>2. /\ v9 \in {"judge", "import", "select"} =>
           v8 /\ v7 > 1 /\ v12 = 0 /\ v11.is = "none" /\ v1 # "off"
      /\ v11.is = "selected" => v11.choice \in 1..v7 /\ (v12 = 1 <=> v7 > 1)
      /\ v12 = 1 => v8 /\ v7 > 1
  BY DEF JudgementInv, Judgement!AskedInv, Judgement!ChoiceIsAsked
<1>3. /\ \A o : Judgement!Nobody(o).is = o
      /\ \A i : Judgement!Chosen(i).is = "selected" /\ Judgement!Chosen(i).choice = i
  BY DEF Judgement!Nobody, Judgement!Chosen
<1> USE <1>1, <1>2, <1>3 DEF Judgement!AskedInv, Judgement!ChoiceIsAsked, Judgement!Go,
       Judgement!Run, Judgement!Question, Judgement!Answer
<1>4. CASE Judgement!Enter \/ Judgement!Spawn \/ Judgement!Leave
  BY <1>4 DEF Judgement!Enter, Judgement!Spawn, Judgement!Leave
<1>5. CASE Judgement!Ask
  <2>1. v8' \in BOOLEAN /\ v9 = "closeout" /\ UNCHANGED v1
    BY <1>5, Zenon DEF Judgement!Ask
  <2>2. v12' = 0
    BY <1>5, JudgementAskSteps
  <2>3. CASE v9' = v9 /\ \E o \in {"disabled", "no candidates", "error"} :
          v11' = Judgement!Nobody(o)
    <3>1. v11'.is \in {"disabled", "no candidates", "error"}
      BY <2>3
    <3>2. v11'.is # "selected" /\ v9' = "closeout"
      BY <2>1, <2>3, <3>1
    <3>3. v12' # 1
      BY <2>2
    <3> QED BY <3>2, <3>3
  <2>4. CASE v9' = v9 /\ v11' = Judgement!Chosen(1) /\ v7' = 1
    BY <2>1, <2>2, <2>4
  <2>5. CASE /\ v9' = "judge" /\ v11' = Judgement!Nobody("none")
             /\ v8' /\ v7' > 1 /\ v1 # "off"
    BY <2>1, <2>2, <2>5
  <2> QED BY <1>5, <2>3, <2>4, <2>5, JudgementAskSteps
<1>6. CASE Judgement!Jev
  BY <1>6 DEF Judgement!Jev
<1>7. CASE Judgement!OpenScope
  BY <1>7 DEF Judgement!OpenScope, JudgementInv, Judgement!ScopeInv
<1>8. CASE Judgement!Import
  BY <1>8 DEF Judgement!Import
<1>9. CASE Judgement!Select
  BY <1>9 DEF Judgement!Select
<1> QED BY <1>4, <1>5, <1>6, <1>7, <1>8, <1>9 DEF Judgement!Next

LEMMA JudgementNextInv ==
  ASSUME JudgementInv, Judgement!Next \/ UNCHANGED Judgement!vars
  PROVE  JudgementInv'
<1>1. CASE Judgement!Next
  BY <1>1, JudgementNextTypes, JudgementNextScopes, JudgementNextAsked DEF JudgementInv
<1>2. CASE UNCHANGED Judgement!vars
  BY <1>2 DEF JudgementInv, Judgement!TypeOK, Judgement!ScopeInv, Judgement!AskedInv,
     Judgement!ChoiceIsAsked, Judgement!vars
<1> QED BY <1>1, <1>2

LEMMA JudgementSound == JudgementInv => Judgement!TypeOK /\ Judgement!JudgementIsSound
  BY DEF JudgementInv, Judgement!ScopeInv, Judgement!AskedInv, Judgement!JudgementIsSound,
     Judgement!ScopesNest

-----------------------------------------------------------------------------
(* The references of TorchBench, shared by the calls (ReferenceCache).     *)
(* Here v1 is head, v2 is file, v3 is lock, v4 is call, v5 is writer, v6   *)
(* is cut.                                                                 *)

CacheInv ==
  /\ Cache!TypeOK /\ Cache!CallsInv /\ Cache!IdentityInv /\ Cache!FiledInv /\ Cache!LockedInv
  /\ Cache!UsedInv /\ Cache!TornOnlyWhenCut

\* A step of call c.
CacheStep(c) ==
  \/ Cache!Kill(c) \/ Cache!Prepare(c) \/ Cache!Identify(c) \/ Cache!Lock(c) \/ Cache!Look(c)
       \/ Cache!Archive(c)
                \/ Cache!Open(c) \/ Cache!Save(c) \/ Cache!WorkerFails(c) \/ Cache!Compare(c)

\* The cardinality of the instance is that of the library's theorems.
LEMMA CacheSameSize == \A S : Cache!Cardinality(S) = Cardinality(S)
  BY DEF Cache!Cardinality, Cardinality

LEMMA CacheNumbers ==
  /\ 1 \in Cache!Batches /\ 0 \in Cache!Commits /\ Cache!Commits \subseteq Nat
       /\ Cache!Batches \subseteq Nat
  /\ Cache!Calls \subseteq Nat \ {0} /\ (\A b \in Cache!Batches : b >= 1)
       /\ Cache!Nothing \notin Cache!Identities
  /\ \A i \in Cache!Identities : i[1] \in Cache!Commits /\ i[2] \in Cache!Batches
       /\ i = <<i[1], i[2]>>
  BY CacheBounds DEF Cache!Batches, Cache!Commits, Cache!Calls, Cache!Identities, Cache!Nothing

LEMMA CacheInitInv == ASSUME Cache!Init PROVE CacheInv
<1>1. Cache!TypeOK
  BY CacheNumbers DEF Cache!Init, Cache!TypeOK, Cache!CallRecords, Cache!Absent, Cache!Fresh,
     Cache!NoWorker
<1>2. Cache!CallsInv /\ Cache!IdentityInv /\ Cache!FiledInv /\ Cache!LockedInv /\ Cache!UsedInv
        /\ Cache!TornOnlyWhenCut
  BY CacheNumbers DEF Cache!Init, Cache!CallsInv, Cache!IdentityInv, Cache!FiledInv,
     Cache!LockedInv, Cache!UsedInv, Cache!TornOnlyWhenCut, Cache!Absent, Cache!Fresh,
     Cache!NoWorker, Cache!Running, Cache!Works, Cache!Writers, Cache!Id
<1> QED BY <1>1, <1>2 DEF CacheInv

\* The fields of a call's record.
CacheIs(r, p, l, b, t, i, m, s, u) ==
  /\ r.pc = p /\ r.last = l /\ r.batch = b /\ r.tree = t /\ r.id = i /\ r.moved = m
  /\ r.since = s /\ r.used = u

\* The record of call c after the step; the others keep theirs.
CacheBecomes(c, r) == v4'[c] = r /\ \A d \in Cache!Calls \ {c} : v4'[d] = v4[d]

LEMMA CacheGoesRecord ==
  ASSUME NEW r \in Cache!CallRecords, NEW p \in {"look", "archive", "build", "compare"}
  PROVE  /\ [r EXCEPT !.pc = p] \in Cache!CallRecords
         /\ CacheIs([r EXCEPT !.pc = p], p, r.last, r.batch, r.tree, r.id, r.moved, r.since,
              r.used)
  BY DEF Cache!CallRecords, CacheIs

LEMMA CacheBeginRecord ==
  ASSUME NEW r \in Cache!CallRecords, NEW l \in Cache!Batches, NEW h \in Cache!Commits
  PROVE  /\ [r EXCEPT !.pc = "identity", !.tree = h, !.last = l] \in Cache!CallRecords
         /\ CacheIs([r EXCEPT !.pc = "identity", !.tree = h, !.last = l],
               "identity", l, r.batch, h, r.id, r.moved, r.since, r.used)
  BY DEF Cache!CallRecords, CacheIs

LEMMA CacheIdentifyRecord ==
  ASSUME NEW r \in Cache!CallRecords, NEW i \in Cache!Identities
  PROVE  /\ [r EXCEPT !.pc = "lock", !.id = i, !.since = FALSE] \in Cache!CallRecords
         /\ CacheIs([r EXCEPT !.pc = "lock", !.id = i, !.since = FALSE],
               "lock", r.last, r.batch, r.tree, i, r.moved, FALSE, r.used)
  BY DEF Cache!CallRecords, CacheIs

LEMMA CacheValidRecord ==
  ASSUME NEW r \in Cache!CallRecords, NEW u \in Cache!Commits
  PROVE  /\ [[r EXCEPT !.used = @ \cup {u}] EXCEPT !.pc = "valid"] \in Cache!CallRecords
         /\ CacheIs([[r EXCEPT !.used = @ \cup {u}] EXCEPT !.pc = "valid"],
               "valid", r.last, r.batch, r.tree, r.id, r.moved, r.since, r.used \cup {u})
  BY DEF Cache!CallRecords, CacheIs

LEMMA CacheNextRecord ==
  ASSUME NEW r \in Cache!CallRecords, NEW u \in Cache!Commits, r.batch + 1 \in Cache!Batches
  PROVE  /\ [[r EXCEPT !.used = @ \cup {u}] EXCEPT !.batch = @ + 1,
              !.pc = "identity"] \in Cache!CallRecords
         /\ CacheIs([[r EXCEPT !.used = @ \cup {u}] EXCEPT !.batch = @ + 1, !.pc = "identity"],
               "identity", r.last, r.batch + 1, r.tree, r.id, r.moved, r.since, r.used \cup {u})
  BY DEF Cache!CallRecords, CacheIs

LEMMA CacheShiftRecord ==
  ASSUME NEW r \in Cache!CallRecords
  PROVE  /\ [r EXCEPT !.moved = TRUE, !.since = TRUE] \in Cache!CallRecords
         /\ CacheIs([r EXCEPT !.moved = TRUE, !.since = TRUE],
               r.pc, r.last, r.batch, r.tree, r.id, TRUE, TRUE, r.used)
  BY DEF Cache!CallRecords, CacheIs

\* The calls stay records, and only that of c changes.
CacheTyped(c) ==
  v4' \in [Cache!Calls -> Cache!CallRecords] /\ \A d \in Cache!Calls \ {c} : v4'[d] = v4[d]

\* What a step may make of the call.
CacheEnds(c, p) == CacheIs(v4'[c], p, 1, 1, 0, Cache!Nothing, FALSE, FALSE, {})
CacheBegins(c) ==
  \E l \in Cache!Batches :
       CacheIs(v4'[c], "identity", l, v4[c].batch, v1, Cache!Id(c), v4[c].moved,
                                   v4[c].since, v4[c].used)
CacheIdentified(c) ==
  CacheIs(v4'[c], "lock", v4[c].last, v4[c].batch, v4[c].tree, <<v1, v4[c].batch>>,
     v4[c].moved, FALSE, v4[c].used)
CacheGoesTo(c, p) ==
  CacheIs(v4'[c], p, v4[c].last, v4[c].batch, v4[c].tree, Cache!Id(c), v4[c].moved, v4[c].since,
     v4[c].used)
CachePassed(c) ==
  CacheIs(v4'[c], "valid", v4[c].last, v4[c].batch, v4[c].tree, Cache!Id(c), v4[c].moved,
     v4[c].since, v4[c].used \cup {v2[Cache!Id(c)].of})
CacheNextBatch(c) ==
  /\ v4[c].batch < v4[c].last
  /\ CacheIs(v4'[c], "identity", v4[c].last, v4[c].batch + 1, v4[c].tree, Cache!Id(c),
        v4[c].moved, v4[c].since, v4[c].used \cup {v2[Cache!Id(c)].of})
CacheShifted(c) ==
  CacheIs(v4'[c], v4[c].pc, v4[c].last, v4[c].batch, v4[c].tree, Cache!Id(c), TRUE, TRUE,
       v4[c].used)

LEMMA CacheSetDoes ==
  ASSUME Cache!TypeOK, NEW c \in Cache!Calls, NEW r \in Cache!CallRecords, Cache!Set(c, r)
  PROVE  CacheTyped(c) /\ v4'[c] = r
  BY DEF Cache!TypeOK, Cache!Set, CacheTyped

LEMMA CacheCallTyped ==
  ASSUME CacheInv, NEW c \in Cache!Calls
  PROVE  Cache!TypeOK /\ v4[c] \in Cache!CallRecords
  BY DEF CacheInv, Cache!TypeOK

LEMMA CacheOverDoes ==
  ASSUME CacheInv, NEW c \in Cache!Calls, NEW p \in {"killed", "invalid"},
         Cache!Set(c, Cache!Over(c, p))
  PROVE  CacheTyped(c) /\ CacheEnds(c, p)
<1>1. Cache!Over(c, p) \in Cache!CallRecords
  BY CacheNumbers DEF Cache!CallRecords, Cache!Over, Cache!Fresh
<1>2. CacheIs(Cache!Over(c, p), p, 1, 1, 0, Cache!Nothing, FALSE, FALSE, {})
  BY DEF CacheIs, Cache!Over, Cache!Fresh
<1> QED BY <1>1, <1>2, CacheSetDoes, CacheCallTyped DEF CacheEnds

\* A call's record is replaced by r.
LEMMA CacheReplaced ==
  ASSUME CacheInv, NEW c \in Cache!Calls, NEW r \in Cache!CallRecords, Cache!Set(c, r)
  PROVE  CacheTyped(c) /\ v4'[c] = r
  BY CacheSetDoes, CacheCallTyped

LEMMA CachePrepareDoes ==
  ASSUME CacheInv, NEW c \in Cache!Calls, Cache!Prepare(c)
  PROVE  CacheTyped(c) /\ CacheBegins(c)
<1>1. PICK l \in Cache!Batches :
        Cache!Set(c, [v4[c] EXCEPT !.pc = "identity", !.tree = v1, !.last = l])
  BY DEF Cache!Prepare
<1> DEFINE r == [v4[c] EXCEPT !.pc = "identity", !.tree = v1, !.last = l]
<1>2. v4[c] \in Cache!CallRecords /\ v1 \in Cache!Commits
  BY CacheCallTyped DEF Cache!TypeOK
<1>3. r \in Cache!CallRecords /\ CacheIs(r, "identity", l, v4[c].batch, v1, v4[c].id, v4[c].moved,
                                    v4[c].since, v4[c].used)
  BY <1>2, CacheBeginRecord
<1>4. Cache!Set(c, r)
  BY <1>1
<1> HIDE DEF r
<1>5. CacheTyped(c) /\ v4'[c] = r
  BY <1>3, <1>4, CacheReplaced
<1> QED BY <1>3, <1>5 DEF CacheBegins, Cache!Id

LEMMA CacheIdentifyDoes ==
  ASSUME CacheInv, NEW c \in Cache!Calls, Cache!Identify(c)
  PROVE  CacheTyped(c) /\ CacheIdentified(c)
<1> DEFINE i == <<v1, v4[c].batch>>
           r == [v4[c] EXCEPT !.pc = "lock", !.id = i, !.since = FALSE]
<1>1. Cache!Set(c, r)
  BY DEF Cache!Identify
<1>2. i \in Cache!Identities /\ v4[c] \in Cache!CallRecords
  BY CacheCallTyped DEF Cache!TypeOK, Cache!CallRecords, Cache!Identities
<1> HIDE DEF i
<1>3. r \in Cache!CallRecords /\ CacheIs(r, "lock", v4[c].last, v4[c].batch, v4[c].tree, i,
                                    v4[c].moved, FALSE, v4[c].used)
  BY <1>2, CacheIdentifyRecord
<1> HIDE DEF r
<1>4. CacheTyped(c) /\ v4'[c] = r
  BY <1>1, <1>3, CacheReplaced
<1> QED BY <1>3, <1>4 DEF CacheIdentified, i

\* A step that only moves a call on.
LEMMA CacheGoesOn ==
  ASSUME CacheInv, NEW c \in Cache!Calls, NEW p \in {"look", "archive", "build", "compare"},
         Cache!Set(c, [v4[c] EXCEPT !.pc = p])
  PROVE  CacheTyped(c) /\ CacheGoesTo(c, p)
<1> DEFINE r == [v4[c] EXCEPT !.pc = p]
<1>1. v4[c] \in Cache!CallRecords
  BY CacheCallTyped
<1>2. r \in Cache!CallRecords /\ CacheIs(r, p, v4[c].last, v4[c].batch, v4[c].tree, v4[c].id,
                                    v4[c].moved, v4[c].since, v4[c].used)
  BY <1>1, CacheGoesRecord
<1>3. Cache!Set(c, r)
  OBVIOUS
<1> HIDE DEF r
<1>4. CacheTyped(c) /\ v4'[c] = r
  BY <1>2, <1>3, CacheReplaced
<1> QED BY <1>2, <1>4 DEF CacheGoesTo, Cache!Id

LEMMA CacheCompareDoes ==
  ASSUME CacheInv, NEW c \in Cache!Calls, Cache!Compare(c)
  PROVE  /\ CacheTyped(c)
         /\ CacheEnds(c, "invalid")
              \/ (v2[Cache!Id(c)].is = "whole" /\ (CachePassed(c) \/ CacheNextBatch(c)))
<1>1. CASE Cache!Set(c, Cache!Over(c, "invalid"))
  <2>1. "invalid" \in {"killed", "invalid"}
    OBVIOUS
  <2> QED BY <1>1, <2>1, CacheOverDoes
<1> DEFINE u == v2[Cache!Id(c)].of
           next == [v4[c] EXCEPT !.used = @ \cup {u}]
<1>2. u \in Cache!Commits /\ v4[c] \in Cache!CallRecords
  <2>1. v4[c].pc = "compare" /\ Cache!Id(c) \in Cache!Identities
    BY DEF Cache!Compare, CacheInv, Cache!IdentityInv
  <2> QED BY <2>1, CacheCallTyped DEF Cache!TypeOK
<1>3. CASE v2[Cache!Id(c)].is = "whole" /\ Cache!Set(c, [next EXCEPT !.pc = "valid"])
  <2> DEFINE r == [next EXCEPT !.pc = "valid"]
  <2>1. Cache!Set(c, r)
    BY <1>3
  <2> HIDE DEF u
  <2>2. r \in Cache!CallRecords /\ CacheIs(r, "valid", v4[c].last, v4[c].batch, v4[c].tree,
                                      v4[c].id, v4[c].moved, v4[c].since, v4[c].used \cup {u})
    BY <1>2, CacheValidRecord
  <2> HIDE DEF r
  <2>3. CacheTyped(c) /\ v4'[c] = r
    BY <2>1, <2>2, CacheReplaced
  <2>4. CachePassed(c)
    BY <2>2, <2>3 DEF CachePassed, Cache!Id, u
  <2> QED BY <1>3, <2>3, <2>4
<1>4. CASE /\ v2[Cache!Id(c)].is = "whole" /\ v4[c].batch # v4[c].last
           /\ Cache!Set(c, [next EXCEPT !.batch = @ + 1, !.pc = "identity"])
  <2> DEFINE r == [next EXCEPT !.batch = @ + 1, !.pc = "identity"]
  <2>1. Cache!Set(c, r)
    BY <1>4
  <2>2. /\ v4[c].batch \in Cache!Batches /\ v4[c].last \in Cache!Batches
        /\ v4[c].batch <= v4[c].last
    BY <1>2 DEF CacheInv, Cache!CallsInv, Cache!CallRecords
  <2>3. v4[c].batch < v4[c].last /\ v4[c].batch + 1 \in Cache!Batches
    <3> DEFINE b == v4[c].batch
               l == v4[c].last
    <3>1. b \in Cache!Batches /\ l \in Cache!Batches /\ b <= l /\ b # l
      BY <1>4, <2>2
    <3> HIDE DEF b, l
    <3>2. b < l /\ b + 1 \in Cache!Batches
      BY <3>1, CacheBounds DEF Cache!Batches
    <3> QED BY <3>2 DEF b, l
  <2> HIDE DEF u
  <2>4. r \in Cache!CallRecords /\ CacheIs(r, "identity", v4[c].last, v4[c].batch + 1, v4[c].tree,
                                      v4[c].id, v4[c].moved, v4[c].since, v4[c].used \cup {u})
    BY <1>2, <2>3, CacheNextRecord
  <2> HIDE DEF r
  <2>5. CacheTyped(c) /\ v4'[c] = r
    BY <2>1, <2>4, CacheReplaced
  <2>6. CacheNextBatch(c)
    BY <2>3, <2>4, <2>5 DEF CacheNextBatch, Cache!Id, u
  <2> QED BY <1>4, <2>5, <2>6
<1> QED BY <1>1, <1>3, <1>4 DEF Cache!Compare

LEMMA CacheMoveDoes ==
  ASSUME CacheInv, Cache!Move
  PROVE  /\ v4' \in [Cache!Calls -> Cache!CallRecords] /\ v1' = v1 + 1 /\ v1' \in Cache!Commits
         /\ \A c \in Cache!Calls :
              IF Cache!Running(c) THEN CacheShifted(c) ELSE v4'[c] = v4[c]
<1>1. ASSUME NEW c \in Cache!Calls
      PROVE  /\ v4[c] \in Cache!CallRecords
             /\ [v4[c] EXCEPT !.moved = TRUE, !.since = TRUE] \in Cache!CallRecords
             /\ CacheIs([v4[c] EXCEPT !.moved = TRUE, !.since = TRUE], v4[c].pc, v4[c].last,
                   v4[c].batch, v4[c].tree, v4[c].id, TRUE, TRUE, v4[c].used)
  <2>1. v4[c] \in Cache!CallRecords
    BY CacheCallTyped
  <2> QED BY <2>1, CacheShiftRecord
<1>2. v4' = [c \in Cache!Calls |-> IF Cache!Running(c) THEN [v4[c] EXCEPT !.moved = TRUE,
        !.since = TRUE]
                               ELSE v4[c]]
  BY DEF Cache!Move
<1>3. v1' = v1 + 1 /\ v1' \in Cache!Commits
  <2>1. v1' = v1 + 1 /\ v1 < CacheMoves
    BY DEF Cache!Move
  <2>2. v1 \in 0..CacheMoves
    BY DEF CacheInv, Cache!TypeOK, Cache!Commits
  <2> QED BY <2>1, <2>2, CacheBounds DEF Cache!Commits
<1>4. v4' \in [Cache!Calls -> Cache!CallRecords]
  BY <1>1, <1>2
<1>5. ASSUME NEW c \in Cache!Calls
      PROVE IF Cache!Running(c) THEN CacheShifted(c) ELSE v4'[c] = v4[c]
  <2>1. CASE Cache!Running(c)
    <3>1. v4'[c] = [v4[c] EXCEPT !.moved = TRUE, !.since = TRUE]
      BY <1>2, <2>1
    <3> QED BY <1>1, <2>1, <3>1 DEF CacheShifted, Cache!Id
  <2>2. CASE ~Cache!Running(c)
    BY <1>2, <2>2
  <2> QED BY <2>1, <2>2
<1> QED BY <1>3, <1>4, <1>5

\* What each step does to the record of its call.
LEMMA CacheKillDoes ==
  ASSUME CacheInv, NEW c \in Cache!Calls, Cache!Kill(c)
  PROVE  CacheTyped(c) /\ CacheEnds(c, "killed")
  BY CacheOverDoes DEF Cache!Kill

LEMMA CacheWorkerFailsDoes ==
  ASSUME CacheInv, NEW c \in Cache!Calls, Cache!WorkerFails(c)
        PROVE CacheTyped(c) /\ CacheEnds(c, "invalid")
  BY CacheOverDoes DEF Cache!WorkerFails

LEMMA CacheLockDoes ==
  ASSUME CacheInv, NEW c \in Cache!Calls, Cache!Lock(c)
  PROVE  CacheTyped(c) /\ CacheGoesTo(c, "look")
  BY CacheGoesOn DEF Cache!Lock

LEMMA CacheLookDoes ==
  ASSUME CacheInv, NEW c \in Cache!Calls, Cache!Look(c)
  PROVE  CacheTyped(c)
           /\ CacheGoesTo(c, IF Cache!Usable(Cache!Id(c)) THEN "compare" ELSE "archive")
  BY CacheGoesOn DEF Cache!Look

LEMMA CacheArchiveDoes ==
  ASSUME CacheInv, NEW c \in Cache!Calls, Cache!Archive(c)
  PROVE  CacheTyped(c) /\ CacheGoesTo(c, "build")
  BY CacheGoesOn DEF Cache!Archive, Cache!Builds

LEMMA CacheSaveDoes ==
  ASSUME CacheInv, NEW c \in Cache!Calls, Cache!Save(c)
  PROVE  IF v4[c].pc = "build" THEN CacheTyped(c) /\ CacheGoesTo(c, "compare") ELSE v4' = v4
  BY CacheGoesOn DEF Cache!Save

LEMMA CacheNextTypes == ASSUME CacheInv, Cache!Next PROVE Cache!TypeOK'
<1>0. Cache!TypeOK /\ Cache!IdentityInv
  BY DEF CacheInv
<1> USE CacheNumbers, <1>0 DEF Cache!TypeOK, Cache!Works, Cache!Stops, Cache!Free, Cache!NoWorker
<1>1. CASE Cache!Move
  <2>1. /\ v4' \in [Cache!Calls -> Cache!CallRecords] /\ v1' = v1 + 1 /\ v1' \in Cache!Commits
        /\ \A c \in Cache!Calls : IF Cache!Running(c) THEN CacheShifted(c) ELSE v4'[c] = v4[c]
    BY <1>1, CacheMoveDoes
  <2>2. UNCHANGED <<v2, v3, v5, v6>>
    BY <1>1 DEF Cache!Move
  <2> QED BY <2>1, <2>2 DEF CacheShifted, CacheIs, Cache!Running, Cache!Id
<1>2. ASSUME NEW c \in Cache!Calls, CacheStep(c) PROVE Cache!TypeOK'
  <2> USE DEF CacheTyped, CacheIs, Cache!Running, Cache!Id
  <2>1. CASE Cache!Kill(c)
    <3>1. CacheTyped(c) /\ CacheEnds(c, "killed")
      BY <2>1, CacheKillDoes
    <3>2. v5[c].id # Cache!Nothing => v5[c].id \in Cache!Identities
      OBVIOUS
    <3>3. v6' \subseteq Cache!Identities
      BY <2>1, <3>2 DEF Cache!Kill
    <3>4. v5' \in [Cache!Calls -> [id : Cache!Identities \cup {Cache!Nothing}, of : Cache!Commits,
            moved : BOOLEAN]]
      <4>1. Cache!NoWorker \in [id : Cache!Identities \cup {Cache!Nothing}, of : Cache!Commits,
              moved : BOOLEAN]
        OBVIOUS
      <4>2. UNCHANGED v5 \/ v5' = [v5 EXCEPT ![c] = Cache!NoWorker]
        BY <2>1 DEF Cache!Kill
      <4> HIDE DEF Cache!NoWorker
      <4> QED BY <4>1, <4>2
    <3>5. v3' \in [Cache!Identities -> Cache!Calls \cup {Cache!Nobody}] /\ UNCHANGED <<v1, v2>>
      BY <2>1 DEF Cache!Kill
    <3> QED BY <3>1, <3>3, <3>4, <3>5
  <2>2. CASE Cache!Prepare(c)
    <3>1. CacheTyped(c) /\ CacheBegins(c)
      BY <2>2, CachePrepareDoes
    <3> QED BY <2>2, <3>1 DEF Cache!Prepare, CacheBegins
  <2>3. CASE Cache!Identify(c)
    <3>1. CacheTyped(c) /\ CacheIdentified(c)
      BY <2>3, CacheIdentifyDoes
    <3> QED BY <2>3, <3>1 DEF Cache!Identify, CacheIdentified
  <2>4. CASE Cache!Lock(c)
    <3>1. CacheTyped(c) /\ CacheGoesTo(c, "look")
      BY <2>4, CacheLockDoes
    <3> QED BY <2>4, <3>1 DEF Cache!Lock, CacheGoesTo
  <2>5. CASE Cache!Look(c)
    <3>1. CacheTyped(c)
            /\ CacheGoesTo(c, IF Cache!Usable(Cache!Id(c)) THEN "compare" ELSE "archive")
      BY <2>5, CacheLookDoes
    <3> QED BY <2>5, <3>1 DEF Cache!Look, CacheGoesTo
  <2>6. CASE Cache!Archive(c)
    <3>1. CacheTyped(c) /\ CacheGoesTo(c, "build")
      BY <2>6, CacheArchiveDoes
    <3> QED BY <2>6, <3>1 DEF Cache!Archive, Cache!Builds, CacheGoesTo, Cache!IdentityInv,
               Cache!CallRecords
  <2>7. CASE Cache!Open(c)
    BY <2>7 DEF Cache!Open
  <2>8. CASE Cache!Save(c)
    <3>1. IF v4[c].pc = "build" THEN CacheTyped(c) /\ CacheGoesTo(c, "compare") ELSE v4' = v4
      BY <2>8, CacheSaveDoes
    <3> QED BY <2>8, <3>1 DEF Cache!Save, CacheGoesTo
  <2>9. CASE Cache!WorkerFails(c)
    <3>1. CacheTyped(c) /\ CacheEnds(c, "invalid")
      BY <2>9, CacheWorkerFailsDoes
    <3> QED BY <2>9, <3>1 DEF Cache!WorkerFails, CacheEnds, Cache!IdentityInv
  <2>10. CASE Cache!Compare(c)
    <3>1. /\ CacheTyped(c)
          /\ CacheEnds(c, "invalid")
               \/ (v2[Cache!Id(c)].is = "whole" /\ (CachePassed(c) \/ CacheNextBatch(c)))
      BY <2>10, CacheCompareDoes
    <3> QED BY <2>10, <3>1 DEF Cache!Compare, CacheEnds, CachePassed, CacheNextBatch
  <2> QED BY <1>2, <2>1, <2>2, <2>3, <2>4, <2>5, <2>6, <2>7, <2>8, <2>9, <2>10 DEF CacheStep
<1> QED BY <1>1, <1>2 DEF Cache!Next, CacheStep

LEMMA CacheNextCalls == ASSUME CacheInv, Cache!Next PROVE Cache!CallsInv'
<1>0. Cache!TypeOK /\ Cache!CallsInv
  BY DEF CacheInv
<1> USE CacheNumbers, <1>0 DEF Cache!TypeOK, Cache!CallsInv, Cache!CallRecords
<1>1. CASE Cache!Move
  <2>1. /\ v4' \in [Cache!Calls -> Cache!CallRecords] /\ v1' = v1 + 1 /\ v1' \in Cache!Commits
        /\ \A c \in Cache!Calls : IF Cache!Running(c) THEN CacheShifted(c) ELSE v4'[c] = v4[c]
    BY <1>1, CacheMoveDoes
  <2>2. UNCHANGED <<v2, v3, v5, v6>>
    BY <1>1 DEF Cache!Move
  <2> QED BY <2>1, <2>2 DEF CacheShifted, CacheIs, Cache!Running, Cache!Id
<1>2. ASSUME NEW c \in Cache!Calls, CacheStep(c) PROVE Cache!CallsInv'
  <2> USE DEF CacheTyped, CacheIs, Cache!Running, Cache!Id
  <2>1. CASE Cache!Kill(c)
    <3>1. CacheTyped(c) /\ CacheEnds(c, "killed")
      BY <2>1, CacheKillDoes
    <3> QED BY <2>1, <3>1 DEF Cache!Kill, CacheEnds
  <2>2. CASE Cache!Prepare(c)
    <3>1. CacheTyped(c) /\ CacheBegins(c)
      BY <2>2, CachePrepareDoes
    <3> QED BY <2>2, <3>1 DEF Cache!Prepare, CacheBegins, Cache!Fresh
  <2>3. CASE Cache!Identify(c)
    <3>1. CacheTyped(c) /\ CacheIdentified(c)
      BY <2>3, CacheIdentifyDoes
    <3> QED BY <2>3, <3>1 DEF Cache!Identify, CacheIdentified
  <2>4. CASE Cache!Lock(c)
    <3>1. CacheTyped(c) /\ CacheGoesTo(c, "look")
      BY <2>4, CacheLockDoes
    <3> QED BY <2>4, <3>1 DEF Cache!Lock, CacheGoesTo
  <2>5. CASE Cache!Look(c)
    <3>1. CacheTyped(c)
            /\ CacheGoesTo(c, IF Cache!Usable(Cache!Id(c)) THEN "compare" ELSE "archive")
      BY <2>5, CacheLookDoes
    <3> QED BY <2>5, <3>1 DEF Cache!Look, CacheGoesTo
  <2>6. CASE Cache!Archive(c)
    <3>1. CacheTyped(c) /\ CacheGoesTo(c, "build")
      BY <2>6, CacheArchiveDoes
    <3> QED BY <2>6, <3>1 DEF Cache!Archive, Cache!Builds, CacheGoesTo
  <2>7. CASE Cache!Open(c)
    BY <2>7 DEF Cache!Open
  <2>8. CASE Cache!Save(c)
    <3>1. IF v4[c].pc = "build" THEN CacheTyped(c) /\ CacheGoesTo(c, "compare") ELSE v4' = v4
      BY <2>8, CacheSaveDoes
    <3> QED BY <2>8, <3>1 DEF Cache!Save, CacheGoesTo
  <2>9. CASE Cache!WorkerFails(c)
    <3>1. CacheTyped(c) /\ CacheEnds(c, "invalid")
      BY <2>9, CacheWorkerFailsDoes
    <3> QED BY <2>9, <3>1 DEF Cache!WorkerFails, CacheEnds
  <2>10. CASE Cache!Compare(c)
    <3>1. /\ CacheTyped(c)
          /\ CacheEnds(c, "invalid")
               \/ (v2[Cache!Id(c)].is = "whole" /\ (CachePassed(c) \/ CacheNextBatch(c)))
      BY <2>10, CacheCompareDoes
    <3> QED BY <2>10, <3>1 DEF Cache!Compare, CacheEnds, CachePassed, CacheNextBatch
  <2> QED BY <1>2, <2>1, <2>2, <2>3, <2>4, <2>5, <2>6, <2>7, <2>8, <2>9, <2>10 DEF CacheStep
<1> QED BY <1>1, <1>2 DEF Cache!Next, CacheStep

LEMMA CacheKeepsIdentity ==
  ASSUME Cache!IdentityInv, NEW c \in Cache!Calls,
         NEW p \in {"look", "archive", "build", "compare"},
         v4[c].pc \in {"lock", "look", "archive", "build", "compare"},
         CacheGoesTo(c, p), \A d \in Cache!Calls \ {c} : v4'[d] = v4[d], UNCHANGED v1
  PROVE  Cache!IdentityInv'
<1>1. /\ Cache!Running(c) /\ Cache!Id(c)' = Cache!Id(c)
      /\ v4'[c].tree = v4[c].tree /\ (v4'[c].since <=> v4[c].since)
      /\ (v4'[c].moved <=> v4[c].moved)
  BY DEF Cache!Running, CacheGoesTo, CacheIs, Cache!Id
<1>2. /\ Cache!Id(c) \in Cache!Identities /\ (Cache!Id(c)[1] = v1 \/ v4[c].since)
           /\ (v4[c].since => v4[c].moved)
      /\ ~v4[c].moved => v4[c].tree = v1
  BY <1>1 DEF Cache!IdentityInv
<1>3. Cache!Identities' = Cache!Identities
  BY DEF Cache!Identities
<1>4. ASSUME NEW d \in Cache!Calls \ {c}
      PROVE  /\ v4'[d] = v4[d] /\ Cache!Id(d)' = Cache!Id(d)
             /\ Cache!Running(d)' <=> Cache!Running(d)
  BY <1>4 DEF Cache!Id, Cache!Running
<1>5. ASSUME NEW d \in Cache!Calls
      PROVE  /\ v4'[d].pc \in {"lock", "look", "archive", "build", "compare"} =>
                  /\ Cache!Id(d)' \in Cache!Identities /\ (Cache!Id(d)'[1] = v1 \/ v4'[d].since)
                  /\ v4'[d].since => v4'[d].moved
             /\ Cache!Running(d)' /\ ~v4'[d].moved => v4'[d].tree = v1
  <2>1. CASE d = c
    BY <1>1, <1>2, <2>1
  <2>2. CASE d # c
    BY <1>4, <2>2 DEF Cache!IdentityInv
  <2> QED BY <2>1, <2>2
<1> QED BY <1>3, <1>5 DEF Cache!IdentityInv

LEMMA CacheNextIdentity == ASSUME CacheInv, Cache!Next PROVE Cache!IdentityInv'
<1>0. Cache!TypeOK /\ Cache!CallsInv /\ Cache!IdentityInv
  BY DEF CacheInv
<1> USE CacheNumbers, <1>0 DEF Cache!TypeOK, Cache!IdentityInv, Cache!CallRecords
<1>1. CASE Cache!Move
  <2>1. /\ v4' \in [Cache!Calls -> Cache!CallRecords] /\ v1' = v1 + 1 /\ v1' \in Cache!Commits
        /\ \A c \in Cache!Calls : IF Cache!Running(c) THEN CacheShifted(c) ELSE v4'[c] = v4[c]
    BY <1>1, CacheMoveDoes
  <2>2. UNCHANGED <<v2, v3, v5, v6>>
    BY <1>1 DEF Cache!Move
  <2> QED BY <2>1, <2>2 DEF CacheShifted, CacheIs, Cache!Running, Cache!Id
<1>2. ASSUME NEW c \in Cache!Calls, CacheStep(c) PROVE Cache!IdentityInv'
  <2> USE DEF CacheTyped, CacheIs, Cache!Running, Cache!Id
  <2>1. CASE Cache!Kill(c)
    <3>1. CacheTyped(c) /\ CacheEnds(c, "killed")
      BY <2>1, CacheKillDoes
    <3> QED BY <2>1, <3>1 DEF Cache!Kill, CacheEnds
  <2>2. CASE Cache!Prepare(c)
    <3>1. CacheTyped(c) /\ CacheBegins(c)
      BY <2>2, CachePrepareDoes
    <3> QED BY <2>2, <3>1 DEF Cache!Prepare, CacheBegins, Cache!CallsInv, Cache!Fresh
  <2>3. CASE Cache!Identify(c)
    <3>1. CacheTyped(c) /\ CacheIdentified(c)
      BY <2>3, CacheIdentifyDoes
    <3>2. /\ <<v1, v4[c].batch>> \in Cache!Identities /\ <<v1, v4[c].batch>>[1] = v1
          /\ v4[c].pc = "identity" /\ UNCHANGED v1
      BY <2>3 DEF Cache!Identify, Cache!Identities
    <3>3. /\ v4'[c].pc = "lock" /\ ~v4'[c].since /\ Cache!Id(c)' = <<v1, v4[c].batch>>
          /\ v4'[c].moved = v4[c].moved /\ v4'[c].tree = v4[c].tree
          /\ \A d \in Cache!Calls \ {c} : v4'[d] = v4[d]
      BY <3>1 DEF CacheIdentified
    <3>4. \A d \in Cache!Calls \ {c} : Cache!Id(d)' = Cache!Id(d)
            /\ (Cache!Running(d)' <=> Cache!Running(d))
      BY <3>3
    <3>5. Cache!Running(c) /\ Cache!Identities' = Cache!Identities
      BY <3>2 DEF Cache!Identities
    <3>6. /\ Cache!Id(c)' \in Cache!Identities /\ Cache!Id(c)'[1] = v1 /\ ~v4'[c].since
          /\ ~v4'[c].moved => v4'[c].tree = v1
      BY <3>2, <3>3, <3>5
    <3>7. ASSUME NEW d \in Cache!Calls
          PROVE  /\ v4'[d].pc \in {"lock", "look", "archive", "build", "compare"} =>
                      /\ Cache!Id(d)' \in Cache!Identities
                           /\ (Cache!Id(d)'[1] = v1 \/ v4'[d].since)
                      /\ v4'[d].since => v4'[d].moved
                 /\ Cache!Running(d)' /\ ~v4'[d].moved => v4'[d].tree = v1
      <4>1. CASE d = c
        BY <3>6, <4>1
      <4>2. CASE d # c
        BY <3>3, <3>4, <4>2
      <4> QED BY <4>1, <4>2
    <3> QED BY <3>2, <3>5, <3>7
  <2>4. CASE Cache!Lock(c)
    <3>1. CacheTyped(c) /\ CacheGoesTo(c, "look")
      BY <2>4, CacheLockDoes
    <3>2. v4[c].pc = "lock" /\ UNCHANGED v1
      BY <2>4 DEF Cache!Lock
    <3> QED BY <3>1, <3>2, CacheKeepsIdentity
  <2>5. CASE Cache!Look(c)
    <3>1. CacheTyped(c)
            /\ CacheGoesTo(c, IF Cache!Usable(Cache!Id(c)) THEN "compare" ELSE "archive")
      BY <2>5, CacheLookDoes
    <3>2. v4[c].pc = "look" /\ UNCHANGED v1
      BY <2>5 DEF Cache!Look
    <3> QED BY <3>1, <3>2, CacheKeepsIdentity
  <2>6. CASE Cache!Archive(c)
    <3>1. CacheTyped(c) /\ CacheGoesTo(c, "build")
      BY <2>6, CacheArchiveDoes
    <3>2. v4[c].pc = "archive" /\ UNCHANGED v1
      BY <2>6 DEF Cache!Archive, Cache!Builds
    <3> QED BY <3>1, <3>2, CacheKeepsIdentity
  <2>7. CASE Cache!Open(c)
    BY <2>7 DEF Cache!Open
  <2>8. CASE Cache!Save(c)
    <3>1. IF v4[c].pc = "build" THEN CacheTyped(c) /\ CacheGoesTo(c, "compare") ELSE v4' = v4
      BY <2>8, CacheSaveDoes
    <3>2. UNCHANGED v1
      BY <2>8 DEF Cache!Save
    <3>3. CASE v4[c].pc = "build"
      BY <3>1, <3>2, <3>3, CacheKeepsIdentity
    <3>4. CASE v4[c].pc # "build"
      BY <3>1, <3>2, <3>4
    <3> QED BY <3>3, <3>4
  <2>9. CASE Cache!WorkerFails(c)
    <3>1. CacheTyped(c) /\ CacheEnds(c, "invalid")
      BY <2>9, CacheWorkerFailsDoes
    <3> QED BY <2>9, <3>1 DEF Cache!WorkerFails, CacheEnds
  <2>10. CASE Cache!Compare(c)
    <3>1. /\ CacheTyped(c)
          /\ CacheEnds(c, "invalid")
               \/ (v2[Cache!Id(c)].is = "whole" /\ (CachePassed(c) \/ CacheNextBatch(c)))
      BY <2>10, CacheCompareDoes
    <3> QED BY <2>10, <3>1 DEF Cache!Compare, CacheEnds, CachePassed, CacheNextBatch
  <2> QED BY <1>2, <2>1, <2>2, <2>3, <2>4, <2>5, <2>6, <2>7, <2>8, <2>9, <2>10 DEF CacheStep
<1> QED BY <1>1, <1>2 DEF Cache!Next, CacheStep

LEMMA CacheNextLocked == ASSUME CacheInv, Cache!Next PROVE Cache!LockedInv'
<1>0. Cache!TypeOK /\ Cache!IdentityInv /\ Cache!FiledInv /\ Cache!LockedInv
  BY DEF CacheInv
<1> USE CacheNumbers, <1>0 DEF Cache!TypeOK, Cache!LockedInv, Cache!Works, Cache!Stops,
       Cache!NoWorker, Cache!Free, Cache!Nobody
<1>1. CASE Cache!Move
  <2>1. /\ v4' \in [Cache!Calls -> Cache!CallRecords] /\ v1' = v1 + 1 /\ v1' \in Cache!Commits
        /\ \A c \in Cache!Calls : IF Cache!Running(c) THEN CacheShifted(c) ELSE v4'[c] = v4[c]
    BY <1>1, CacheMoveDoes
  <2>2. UNCHANGED <<v2, v3, v5, v6>>
    BY <1>1 DEF Cache!Move
  <2> QED BY <2>1, <2>2 DEF CacheShifted, CacheIs, Cache!Running, Cache!Id
<1>2. ASSUME NEW c \in Cache!Calls, CacheStep(c) PROVE Cache!LockedInv'
  <2> USE DEF CacheTyped, CacheIs, Cache!Running, Cache!Id
  <2>1. CASE Cache!Kill(c)
    <3>1. CacheTyped(c) /\ CacheEnds(c, "killed")
      BY <2>1, CacheKillDoes
    <3> QED BY <2>1, <3>1 DEF Cache!Kill, CacheEnds, Cache!IdentityInv
  <2>2. CASE Cache!Prepare(c)
    <3>1. CacheTyped(c) /\ CacheBegins(c)
      BY <2>2, CachePrepareDoes
    <3> QED BY <2>2, <3>1 DEF Cache!Prepare, CacheBegins
  <2>3. CASE Cache!Identify(c)
    <3>1. CacheTyped(c) /\ CacheIdentified(c)
      BY <2>3, CacheIdentifyDoes
    <3> QED BY <2>3, <3>1 DEF Cache!Identify, CacheIdentified
  <2>4. CASE Cache!Lock(c)
    <3>1. CacheTyped(c) /\ CacheGoesTo(c, "look")
      BY <2>4, CacheLockDoes
    <3>2. /\ v4[c].pc = "lock" /\ Cache!Id(c) \in Cache!Identities /\ UNCHANGED <<v2, v5, v6>>
          /\ v3[Cache!Id(c)] = Cache!Nobody /\ v3' = [v3 EXCEPT ![Cache!Id(c)] = c]
      BY <2>4 DEF Cache!Lock, Cache!IdentityInv
    <3>3. v4'[c].pc = "look" /\ Cache!Id(c)' = Cache!Id(c) /\ \A d \in Cache!Calls \ {c} :
            v4'[d] = v4[d]
      BY <3>1 DEF CacheGoesTo
    <3> QED BY <3>2, <3>3 DEF Cache!IdentityInv
  <2>5. CASE Cache!Look(c)
    <3>1. CacheTyped(c)
            /\ CacheGoesTo(c, IF Cache!Usable(Cache!Id(c)) THEN "compare" ELSE "archive")
      BY <2>5, CacheLookDoes
    <3> QED BY <2>5, <3>1 DEF Cache!Look, CacheGoesTo, Cache!IdentityInv
  <2>6. CASE Cache!Archive(c)
    <3>1. CacheTyped(c) /\ CacheGoesTo(c, "build")
      BY <2>6, CacheArchiveDoes
    <3> QED BY <2>6, <3>1 DEF Cache!Archive, Cache!Builds, CacheGoesTo, Cache!IdentityInv
  <2>7. CASE Cache!Open(c)
    BY <2>7 DEF Cache!Open
  <2>8. CASE Cache!Save(c)
    <3>1. IF v4[c].pc = "build" THEN CacheTyped(c) /\ CacheGoesTo(c, "compare") ELSE v4' = v4
      BY <2>8, CacheSaveDoes
    <3>2. v5' = [v5 EXCEPT ![c] = Cache!NoWorker]
      BY <2>8 DEF Cache!Save
    <3>3. CASE v4[c].pc = "build"
      <4>1. v3' = [i \in Cache!Identities |-> IF v3[i] = c THEN Cache!Nobody ELSE v3[i]]
        BY <2>8, <3>3 DEF Cache!Save
      <4>2. v4'[c].pc = "compare" /\ \A d \in Cache!Calls \ {c} : v4'[d] = v4[d]
        BY <3>1, <3>3 DEF CacheGoesTo
      <4>3. \A d \in Cache!Calls \ {c} : v5'[d] = v5[d]
        BY <3>2
      <4> QED BY <4>1, <4>2, <4>3 DEF Cache!IdentityInv
    <3>4. CASE v4[c].pc # "build"
      <4>1. UNCHANGED <<v4, v3>>
        BY <2>8, <3>4 DEF Cache!Save
      <4> QED BY <3>2, <3>4, <4>1
    <3> QED BY <3>3, <3>4
  <2>9. CASE Cache!WorkerFails(c)
    <3>1. CacheTyped(c) /\ CacheEnds(c, "invalid")
      BY <2>9, CacheWorkerFailsDoes
    <3> QED BY <2>9, <3>1 DEF Cache!WorkerFails, CacheEnds, Cache!IdentityInv
  <2>10. CASE Cache!Compare(c)
    <3>1. /\ CacheTyped(c)
          /\ CacheEnds(c, "invalid")
               \/ (v2[Cache!Id(c)].is = "whole" /\ (CachePassed(c) \/ CacheNextBatch(c)))
      BY <2>10, CacheCompareDoes
    <3> QED BY <2>10, <3>1 DEF Cache!Compare, CacheEnds, CachePassed, CacheNextBatch
  <2> QED BY <1>2, <2>1, <2>2, <2>3, <2>4, <2>5, <2>6, <2>7, <2>8, <2>9, <2>10 DEF CacheStep
<1> QED BY <1>1, <1>2 DEF Cache!Next, CacheStep

LEMMA CacheNextFiled == ASSUME CacheInv, Cache!Next PROVE Cache!FiledInv'
<1>0. Cache!TypeOK /\ Cache!IdentityInv /\ Cache!FiledInv
  BY DEF CacheInv
<1> USE CacheNumbers, <1>0 DEF Cache!TypeOK, Cache!FiledInv, Cache!Works, Cache!Stops,
       Cache!NoWorker
<1>1. CASE Cache!Move
  <2>1. /\ v4' \in [Cache!Calls -> Cache!CallRecords] /\ v1' = v1 + 1 /\ v1' \in Cache!Commits
        /\ \A c \in Cache!Calls : IF Cache!Running(c) THEN CacheShifted(c) ELSE v4'[c] = v4[c]
    BY <1>1, CacheMoveDoes
  <2>2. UNCHANGED <<v2, v3, v5, v6>>
    BY <1>1 DEF Cache!Move
  <2> QED BY <2>1, <2>2 DEF CacheShifted, CacheIs, Cache!Running, Cache!Id
<1>2. ASSUME NEW c \in Cache!Calls, CacheStep(c) PROVE Cache!FiledInv'
  <2> USE DEF CacheTyped, CacheIs, Cache!Running, Cache!Id
  <2>1. CASE Cache!Kill(c)
    <3>1. CacheTyped(c) /\ CacheEnds(c, "killed")
      BY <2>1, CacheKillDoes
    <3> QED BY <2>1, <3>1 DEF Cache!Kill, CacheEnds
  <2>2. CASE Cache!Prepare(c)
    <3>1. CacheTyped(c) /\ CacheBegins(c)
      BY <2>2, CachePrepareDoes
    <3> QED BY <2>2, <3>1 DEF Cache!Prepare, CacheBegins
  <2>3. CASE Cache!Identify(c)
    <3>1. CacheTyped(c) /\ CacheIdentified(c)
      BY <2>3, CacheIdentifyDoes
    <3> QED BY <2>3, <3>1 DEF Cache!Identify, CacheIdentified
  <2>4. CASE Cache!Lock(c)
    <3>1. CacheTyped(c) /\ CacheGoesTo(c, "look")
      BY <2>4, CacheLockDoes
    <3> QED BY <2>4, <3>1 DEF Cache!Lock, CacheGoesTo
  <2>5. CASE Cache!Look(c)
    <3>1. CacheTyped(c)
            /\ CacheGoesTo(c, IF Cache!Usable(Cache!Id(c)) THEN "compare" ELSE "archive")
      BY <2>5, CacheLookDoes
    <3> QED BY <2>5, <3>1 DEF Cache!Look, CacheGoesTo
  <2>6. CASE Cache!Archive(c)
    <3>1. CacheTyped(c) /\ CacheGoesTo(c, "build")
      BY <2>6, CacheArchiveDoes
    <3> QED BY <2>6, <3>1 DEF Cache!Archive, Cache!Builds, CacheGoesTo, Cache!IdentityInv
  <2>7. CASE Cache!Open(c)
    BY <2>7 DEF Cache!Open
  <2>8. CASE Cache!Save(c)
    <3>1. IF v4[c].pc = "build" THEN CacheTyped(c) /\ CacheGoesTo(c, "compare") ELSE v4' = v4
      BY <2>8, CacheSaveDoes
    <3> QED BY <2>8, <3>1 DEF Cache!Save, CacheGoesTo
  <2>9. CASE Cache!WorkerFails(c)
    <3>1. CacheTyped(c) /\ CacheEnds(c, "invalid")
      BY <2>9, CacheWorkerFailsDoes
    <3> QED BY <2>9, <3>1 DEF Cache!WorkerFails, CacheEnds
  <2>10. CASE Cache!Compare(c)
    <3>1. /\ CacheTyped(c)
          /\ CacheEnds(c, "invalid")
               \/ (v2[Cache!Id(c)].is = "whole" /\ (CachePassed(c) \/ CacheNextBatch(c)))
      BY <2>10, CacheCompareDoes
    <3> QED BY <2>10, <3>1 DEF Cache!Compare, CacheEnds, CachePassed, CacheNextBatch
  <2> QED BY <1>2, <2>1, <2>2, <2>3, <2>4, <2>5, <2>6, <2>7, <2>8, <2>9, <2>10 DEF CacheStep
<1> QED BY <1>1, <1>2 DEF Cache!Next, CacheStep

LEMMA CacheNextUsed == ASSUME CacheInv, Cache!Next PROVE Cache!UsedInv'
<1>0. Cache!TypeOK /\ Cache!CallsInv /\ Cache!IdentityInv /\ Cache!FiledInv /\ Cache!UsedInv
  BY DEF CacheInv
<1> USE CacheNumbers, <1>0 DEF Cache!TypeOK, Cache!UsedInv
<1>1. CASE Cache!Move
  <2>1. /\ v4' \in [Cache!Calls -> Cache!CallRecords] /\ v1' = v1 + 1 /\ v1' \in Cache!Commits
        /\ \A c \in Cache!Calls : IF Cache!Running(c) THEN CacheShifted(c) ELSE v4'[c] = v4[c]
    BY <1>1, CacheMoveDoes
  <2>2. UNCHANGED <<v2, v3, v5, v6>>
    BY <1>1 DEF Cache!Move
  <2> QED BY <2>1, <2>2 DEF CacheShifted, CacheIs, Cache!Running, Cache!Id
<1>2. ASSUME NEW c \in Cache!Calls, CacheStep(c) PROVE Cache!UsedInv'
  <2> USE DEF CacheTyped, CacheIs, Cache!Running, Cache!Id
  <2>1. CASE Cache!Kill(c)
    <3>1. CacheTyped(c) /\ CacheEnds(c, "killed")
      BY <2>1, CacheKillDoes
    <3> QED BY <2>1, <3>1 DEF Cache!Kill, CacheEnds
  <2>2. CASE Cache!Prepare(c)
    <3>1. CacheTyped(c) /\ CacheBegins(c)
      BY <2>2, CachePrepareDoes
    <3> QED BY <2>2, <3>1 DEF Cache!Prepare, CacheBegins, Cache!CallsInv, Cache!Fresh
  <2>3. CASE Cache!Identify(c)
    <3>1. CacheTyped(c) /\ CacheIdentified(c)
      BY <2>3, CacheIdentifyDoes
    <3> QED BY <2>3, <3>1 DEF Cache!Identify, CacheIdentified
  <2>4. CASE Cache!Lock(c)
    <3>1. CacheTyped(c) /\ CacheGoesTo(c, "look")
      BY <2>4, CacheLockDoes
    <3> QED BY <2>4, <3>1 DEF Cache!Lock, CacheGoesTo
  <2>5. CASE Cache!Look(c)
    <3>1. CacheTyped(c)
            /\ CacheGoesTo(c, IF Cache!Usable(Cache!Id(c)) THEN "compare" ELSE "archive")
      BY <2>5, CacheLookDoes
    <3> QED BY <2>5, <3>1 DEF Cache!Look, CacheGoesTo
  <2>6. CASE Cache!Archive(c)
    <3>1. CacheTyped(c) /\ CacheGoesTo(c, "build")
      BY <2>6, CacheArchiveDoes
    <3> QED BY <2>6, <3>1 DEF Cache!Archive, Cache!Builds, CacheGoesTo
  <2>7. CASE Cache!Open(c)
    BY <2>7 DEF Cache!Open, Cache!FiledInv
  <2>8. CASE Cache!Save(c)
    <3>1. IF v4[c].pc = "build" THEN CacheTyped(c) /\ CacheGoesTo(c, "compare") ELSE v4' = v4
      BY <2>8, CacheSaveDoes
    <3>2. \A i \in Cache!Identities : v2'[i].moved = v2[i].moved
      BY <2>8 DEF Cache!Save
    <3>3. CASE v4[c].pc = "build"
      BY <3>1, <3>2, <3>3 DEF CacheGoesTo
    <3>4. CASE v4[c].pc # "build"
      BY <3>1, <3>2, <3>4
    <3> QED BY <3>3, <3>4
  <2>9. CASE Cache!WorkerFails(c)
    <3>1. CacheTyped(c) /\ CacheEnds(c, "invalid")
      BY <2>9, CacheWorkerFailsDoes
    <3> QED BY <2>9, <3>1 DEF Cache!WorkerFails, CacheEnds
  <2>10. CASE Cache!Compare(c)
    <3>1. /\ CacheTyped(c)
          /\ CacheEnds(c, "invalid")
               \/ (v2[Cache!Id(c)].is = "whole" /\ (CachePassed(c) \/ CacheNextBatch(c)))
      BY <2>10, CacheCompareDoes
    <3>2. /\ v4[c].pc = "compare" /\ UNCHANGED v2 /\ Cache!Id(c) \in Cache!Identities
          /\ ~v4[c].moved => Cache!Id(c)[1] = v4[c].tree
      BY <2>10 DEF Cache!Compare, Cache!IdentityInv, Cache!CallRecords
    <3>3. CASE CacheEnds(c, "invalid")
      BY <3>1, <3>2, <3>3 DEF CacheEnds
    <3>4. CASE v2[Cache!Id(c)].is = "whole" /\ (CachePassed(c) \/ CacheNextBatch(c))
      <4>1. /\ v4'[c].used = v4[c].used \cup {v2[Cache!Id(c)].of}
            /\ v4'[c].moved = v4[c].moved /\ v4'[c].tree = v4[c].tree
        BY <3>4 DEF CachePassed, CacheNextBatch
      <4>2. v2[Cache!Id(c)].of = Cache!Id(c)[1] \/ v2[Cache!Id(c)].moved
        BY <3>2, <3>4 DEF Cache!FiledInv
      <4> QED BY <3>1, <3>2, <4>1, <4>2
    <3> QED BY <3>1, <3>3, <3>4
  <2> QED BY <1>2, <2>1, <2>2, <2>3, <2>4, <2>5, <2>6, <2>7, <2>8, <2>9, <2>10 DEF CacheStep
<1> QED BY <1>1, <1>2 DEF Cache!Next, CacheStep

LEMMA CacheNextTorn == ASSUME CacheInv, Cache!Next PROVE Cache!TornOnlyWhenCut'
<1>0. Cache!TypeOK /\ Cache!IdentityInv /\ Cache!FiledInv /\ Cache!LockedInv
        /\ Cache!TornOnlyWhenCut
  BY DEF CacheInv
<1> USE CacheNumbers, <1>0 DEF Cache!TypeOK, Cache!TornOnlyWhenCut, Cache!Writers, Cache!Works,
       Cache!Stops, Cache!NoWorker
<1>1. CASE Cache!Move
  <2>1. /\ v4' \in [Cache!Calls -> Cache!CallRecords] /\ v1' = v1 + 1 /\ v1' \in Cache!Commits
        /\ \A c \in Cache!Calls : IF Cache!Running(c) THEN CacheShifted(c) ELSE v4'[c] = v4[c]
    BY <1>1, CacheMoveDoes
  <2>2. UNCHANGED <<v2, v3, v5, v6>>
    BY <1>1 DEF Cache!Move
  <2> QED BY <2>1, <2>2 DEF CacheShifted, CacheIs, Cache!Running, Cache!Id
<1>2. ASSUME NEW c \in Cache!Calls, CacheStep(c) PROVE Cache!TornOnlyWhenCut'
  <2> USE DEF CacheTyped, CacheIs, Cache!Running, Cache!Id
  <2>1. CASE Cache!Kill(c)
    <3>1. CacheTyped(c) /\ CacheEnds(c, "killed")
      BY <2>1, CacheKillDoes
    <3>2. \A i \in Cache!Identities : {d \in Cache!Calls : v5[d].id = i} # {}
            => {d \in Cache!Calls : v5'[d].id = i} # {} \/ i \in v6'
      BY <2>1 DEF Cache!Kill
    <3>3. UNCHANGED v2 /\ v6 \subseteq v6'
      BY <2>1 DEF Cache!Kill
    <3> QED BY <3>2, <3>3
  <2>2. CASE Cache!Prepare(c)
    <3>1. CacheTyped(c) /\ CacheBegins(c)
      BY <2>2, CachePrepareDoes
    <3> QED BY <2>2, <3>1 DEF Cache!Prepare, CacheBegins
  <2>3. CASE Cache!Identify(c)
    <3>1. CacheTyped(c) /\ CacheIdentified(c)
      BY <2>3, CacheIdentifyDoes
    <3> QED BY <2>3, <3>1 DEF Cache!Identify, CacheIdentified
  <2>4. CASE Cache!Lock(c)
    <3>1. CacheTyped(c) /\ CacheGoesTo(c, "look")
      BY <2>4, CacheLockDoes
    <3> QED BY <2>4, <3>1 DEF Cache!Lock, CacheGoesTo
  <2>5. CASE Cache!Look(c)
    <3>1. CacheTyped(c)
            /\ CacheGoesTo(c, IF Cache!Usable(Cache!Id(c)) THEN "compare" ELSE "archive")
      BY <2>5, CacheLookDoes
    <3> QED BY <2>5, <3>1 DEF Cache!Look, CacheGoesTo
  <2>6. CASE Cache!Archive(c)
    <3>1. CacheTyped(c) /\ CacheGoesTo(c, "build")
      BY <2>6, CacheArchiveDoes
    <3> QED BY <2>6, <3>1 DEF Cache!Archive, Cache!Builds, CacheGoesTo, Cache!FiledInv
  <2>7. CASE Cache!Open(c)
    BY <2>7 DEF Cache!Open
  <2>8. CASE Cache!Save(c)
    <3>1. IF v4[c].pc = "build" THEN CacheTyped(c) /\ CacheGoesTo(c, "compare") ELSE v4' = v4
      BY <2>8, CacheSaveDoes
    <3> QED BY <2>8, <3>1 DEF Cache!Save, CacheGoesTo
  <2>9. CASE Cache!WorkerFails(c)
    <3>1. CacheTyped(c) /\ CacheEnds(c, "invalid")
      BY <2>9, CacheWorkerFailsDoes
    <3> QED BY <2>9, <3>1 DEF Cache!WorkerFails, CacheEnds, Cache!FiledInv, Cache!LockedInv,
               Cache!IdentityInv
  <2>10. CASE Cache!Compare(c)
    <3>1. /\ CacheTyped(c)
          /\ CacheEnds(c, "invalid")
               \/ (v2[Cache!Id(c)].is = "whole" /\ (CachePassed(c) \/ CacheNextBatch(c)))
      BY <2>10, CacheCompareDoes
    <3> QED BY <2>10, <3>1 DEF Cache!Compare, CacheEnds, CachePassed, CacheNextBatch
  <2> QED BY <1>2, <2>1, <2>2, <2>3, <2>4, <2>5, <2>6, <2>7, <2>8, <2>9, <2>10 DEF CacheStep
<1> QED BY <1>1, <1>2 DEF Cache!Next, CacheStep

LEMMA CacheNextInv == ASSUME CacheInv, Cache!Next \/ UNCHANGED Cache!vars PROVE CacheInv'
<1>1. CASE Cache!Next
  BY <1>1, CacheNextTypes, CacheNextCalls, CacheNextIdentity, CacheNextLocked, CacheNextFiled,
     CacheNextUsed, CacheNextTorn DEF CacheInv
<1>2. CASE UNCHANGED Cache!vars
  BY <1>2 DEF CacheInv, Cache!TypeOK, Cache!CallsInv, Cache!IdentityInv, Cache!FiledInv,
     Cache!LockedInv, Cache!UsedInv, Cache!TornOnlyWhenCut, Cache!vars, Cache!Id, Cache!Running,
     Cache!Works, Cache!Writers
<1> QED BY <1>1, <1>2

LEMMA CacheSound == CacheInv => Cache!TypeOK /\ Cache!CacheIsSound
<1> SUFFICES ASSUME CacheInv PROVE Cache!CacheIsSound
  BY DEF CacheInv
<1>1. Cache!FiledUnderItsCommit
  BY DEF CacheInv, Cache!FiledInv, Cache!FiledUnderItsCommit
<1>2. Cache!SameCommit
  BY DEF CacheInv, Cache!UsedInv, Cache!SameCommit, Cache!Running
<1>3. Cache!OneBuilder
  <2> SUFFICES ASSUME NEW i \in Cache!Identities
               PROVE  Cardinality({c \in Cache!Writers(i) : v4[c].pc = "build"}) <= 1
    BY CacheSameSize DEF Cache!OneBuilder
  <2> DEFINE S == {c \in Cache!Writers(i) : v4[c].pc = "build"}
  <2>1. \A c, d \in S : c = d
    BY CacheNumbers DEF CacheInv, Cache!TypeOK, Cache!FiledInv, Cache!LockedInv, Cache!Writers,
       Cache!Works
  <2>2. CASE S = {}
    BY <2>2, CacheSameSize, FS_EmptySet
  <2>3. CASE S # {}
    <3>1. PICK c \in S : S = {c}
      BY <2>1, <2>3
    <3>2. Cardinality({c}) = 1
      BY CacheSameSize, FS_Singleton
    <3> QED BY <3>1, <3>2
  <2> QED BY <2>2, <2>3
<1> QED BY <1>1, <1>2, <1>3 DEF CacheInv, Cache!CacheIsSound

-----------------------------------------------------------------------------
(* evaluate_workspace of the adapters within the bounds b                  *)
(* (AdapterEvaluation). Here v1 is adapter, v2 is candidate, v3 is stray,  *)
(* v4 is source, v5 is container, v6 is ledger, v7 is agent, v8 is call,   *)
(* v9 is edits, v10 is moves.                                              *)

LEMMA AdapterBounded ==
  ASSUME NEW b \in AdapterBounds
  PROVE  b.names \subseteq DOMAIN Adapter(b)!Adapters /\ b.calls \in Nat /\ b.edits \in Nat
           /\ b.moves \in Nat
  BY DEF AdapterBounds, EvaluatedAdapters, Adapter!Adapters

\* What the proof uses of the adapters: one stage reads the artifact, unless every case does.
AdapterRegular(b, a) ==
  /\ a.screen \in {"paths", "form"} /\ a.hash \in {"late", "strict", "early", "copy", "none"}
  /\ a.cases \in BOOLEAN /\ a.once \in BOOLEAN /\ a.pins \subseteq {"commit", "pinned"}
  /\ Len(a.stages) \in 1..5 /\ a.stages \in Seq(SUBSET Adapter(b)!Both)
  /\ ~a.cases => \A i, j \in 1..Len(a.stages) :
                   "candidate" \in a.stages[i] /\ "candidate" \in a.stages[j] => i = j
  /\ a.hash \in {"late", "strict"} => a.screen = "paths"
  /\ a.hash = "copy" => ~a.cases
  /\ a.cases => a.hash # "none"

LEMMA AdapterRegularAdapters ==
  ASSUME NEW b \in AdapterBounds
  PROVE  /\ AdapterRegular(b, Adapter(b)!FrontierEngineering)
              /\ AdapterRegular(b, Adapter(b)!MallocLab)
                   /\ AdapterRegular(b, Adapter(b)!FrontierCS)
         /\ AdapterRegular(b, Adapter(b)!HeuriGym) /\ AdapterRegular(b, Adapter(b)!AutoLab)
              /\ AdapterRegular(b, Adapter(b)!LocalVliw) /\ AdapterRegular(b, Adapter(b)!Ale)
         /\ AdapterRegular(b, Adapter(b)!TorchBench) /\ AdapterRegular(b, Adapter(b)!ZSoftL1)
              /\ AdapterRegular(b, Adapter(b)!ZSoftDetect) /\ ~Adapter(b)!FrontierCS.cases
<1>1. AdapterRegular(b, Adapter(b)!FrontierEngineering)
  BY DEF Adapter!FrontierEngineering, AdapterRegular, Adapter!Portable, Adapter!Both
<1>2. AdapterRegular(b, Adapter(b)!MallocLab)
  BY DEF Adapter!MallocLab, AdapterRegular, Adapter!Portable, Adapter!Both
<1>3. AdapterRegular(b, Adapter(b)!FrontierCS) /\ ~Adapter(b)!FrontierCS.cases
  BY DEF Adapter!FrontierCS, AdapterRegular, Adapter!Portable, Adapter!Both,
     Adapter!EvaluateCandidate
<1>4. AdapterRegular(b, Adapter(b)!HeuriGym)
  BY DEF Adapter!HeuriGym, AdapterRegular, Adapter!Portable, Adapter!Both, Adapter!RunCases
<1>5. AdapterRegular(b, Adapter(b)!AutoLab)
  BY DEF Adapter!AutoLab, AdapterRegular, Adapter!Portable, Adapter!Both, Adapter!BuildAndRun
<1>6. AdapterRegular(b, Adapter(b)!LocalVliw)
  BY DEF Adapter!LocalVliw, AdapterRegular, Adapter!Portable, Adapter!Both
<1>7. AdapterRegular(b, Adapter(b)!Ale)
  BY DEF Adapter!Ale, AdapterRegular, Adapter!Portable, Adapter!Both
<1>8. AdapterRegular(b, Adapter(b)!TorchBench)
  BY DEF Adapter!TorchBench, AdapterRegular, Adapter!Portable, Adapter!Both, Adapter!PrepareTree
<1>9. AdapterRegular(b, Adapter(b)!ZSoftL1)
  BY DEF Adapter!ZSoftL1, AdapterRegular, Adapter!Portable, Adapter!Both
<1>10. AdapterRegular(b, Adapter(b)!ZSoftDetect)
  BY DEF Adapter!ZSoftDetect, Adapter!ZSoftL1, AdapterRegular, Adapter!Portable, Adapter!Both,
     Adapter!Snapshot
<1> QED BY <1>1, <1>2, <1>3, <1>4, <1>5, <1>6, <1>7, <1>8, <1>9, <1>10

LEMMA AdapterEveryAdapter ==
  ASSUME NEW b \in AdapterBounds,
         v1 \in DOMAIN Adapter(b)!Adapters
              PROVE AdapterRegular(b, Adapter(b)!A) /\ (v1 = "frontier_cs" => ~Adapter(b)!A.cases)
  BY AdapterRegularAdapters DEF Adapter!A, Adapter!Adapters

AdapterInv(b) ==
  /\ Adapter(b)!TypeOK /\ Adapter(b)!CountInv /\ Adapter(b)!StartInv /\ Adapter(b)!CandidateInv
       /\ Adapter(b)!SourceInv /\ Adapter(b)!FinalInv
  /\ \A c \in Adapter(b)!Calls : FALSE \notin v8[c].cases

\* A step of call c.
AdapterStep(b, c) ==
  \/ Adapter(b)!Claim(c) \/ Adapter(b)!Screen(c) \/ Adapter(b)!Pin(c) \/ Adapter(b)!Stage(c)
       \/ Adapter(b)!Fault(c) \/ Adapter(b)!JudgeEnds(c)
                     \/ Adapter(b)!Inspect(c) \/ Adapter(b)!Create(c) \/ Adapter(b)!Report(c)
                          \/ Adapter(b)!Kill(c)

LEMMA AdapterNumbers ==
  ASSUME NEW b \in AdapterBounds
  PROVE  /\ 1 \in Adapter(b)!Versions /\ Adapter(b)!None \notin Adapter(b)!Versions
              /\ Adapter(b)!Calls \subseteq Nat \ {0} /\ Adapter(b)!Versions \subseteq Nat
         /\ Adapter(b)!First \in Adapter(b)!Sources /\ Adapter(b)!Fresh \in Adapter(b)!CallRecords
  BY AdapterBounded DEF Adapter!Versions, Adapter!None, Adapter!Calls, Adapter!First,
     Adapter!Sources, Adapter!Fresh, Adapter!CallRecords

LEMMA AdapterInitInv ==
  ASSUME NEW b \in AdapterBounds,
         Adapter(b)!Init
  PROVE  AdapterInv(b)
<1>1. v1 \in DOMAIN Adapter(b)!Adapters
  BY AdapterBounded DEF Adapter!Init
<1>2. Adapter(b)!TypeOK
  BY <1>1, AdapterNumbers, AdapterBounded DEF Adapter!Init, Adapter!TypeOK
<1>3. Len(Adapter(b)!A.stages) \in 1..5
  BY <1>1, AdapterEveryAdapter DEF AdapterRegular
<1>4. \A c \in Adapter(b)!Calls : v8[c] = Adapter(b)!Fresh
  BY DEF Adapter!Init
<1> USE DEF Adapter!Fresh, Adapter!Begun, Adapter!Screened, Adapter!Judging
<1>5. Adapter(b)!CountInv
  <2>1. /\ v2.v = 1 /\ v9 = 0 /\ v10 = 0 /\ v6.total = 0 /\ v6.final = 0
        /\ \A f \in {"commit", "pinned", "rest"} : v4[f] = 0
    BY DEF Adapter!Init, Adapter!First
  <2>2. \A c \in Adapter(b)!Calls : v8[c].pc = "idle" /\ v8[c].stage = 1 /\ c \in Nat \ {0}
    BY <1>4, AdapterNumbers
  <2> QED BY <1>3, <2>1, <2>2 DEF Adapter!CountInv
<1>6. Adapter(b)!StartInv
  <2>1. \A c \in Adapter(b)!Calls : v8[c].pc = "idle"
    BY <1>4
  <2> QED BY <1>4, <2>1 DEF Adapter!StartInv
<1>7. Adapter(b)!CandidateInv /\ Adapter(b)!SourceInv /\ Adapter(b)!FinalInv
  BY <1>4 DEF Adapter!CandidateInv, Adapter!SourceInv, Adapter!FinalInv
<1>8. \A c \in Adapter(b)!Calls : FALSE \notin v8[c].cases
  <2>1. \A c \in Adapter(b)!Calls : v8[c].cases = {}
    BY <1>4
  <2> QED BY <2>1
<1> QED BY <1>2, <1>5, <1>6, <1>7, <1>8 DEF AdapterInv

LEMMA AdapterGiven ==
  ASSUME NEW b \in AdapterBounds,
         AdapterInv(b)
  PROVE  /\ AdapterRegular(b, Adapter(b)!A) /\ (v1 = "frontier_cs" => ~Adapter(b)!A.cases)
         /\ \A c \in Adapter(b)!Calls : v8[c] \in Adapter(b)!CallRecords
         /\ v8 \in [Adapter(b)!Calls -> Adapter(b)!CallRecords]
  BY AdapterEveryAdapter DEF AdapterInv, Adapter!TypeOK

LEMMA AdapterCallTyped ==
  ASSUME NEW b \in AdapterBounds,
         AdapterInv(b), NEW c \in Adapter(b)!Calls
  PROVE  v8[c] \in Adapter(b)!CallRecords
  BY AdapterGiven

\* The fields of a call's record.
AdapterIs(b, r, p, m, k, o, s, cs, ss, ca, t, mv) ==
  /\ r.pc = p /\ r.mode = m /\ r.stage = k /\ (r.ok <=> o) /\ r.sha = s /\ r.candidates = cs
  /\ r.sources = ss /\ r.cases = ca /\ (r.touched <=> t) /\ (r.moved <=> mv)

\* The calls stay records, and only that of c changes.
AdapterTyped(b, c) ==
  v8' \in [Adapter(b)!Calls -> Adapter(b)!CallRecords] /\ \A d \in Adapter(b)!Calls \ {c} :
       v8'[d] = v8[d]

LEMMA AdapterSetDoes ==
  ASSUME NEW b \in AdapterBounds,
         AdapterInv(b), NEW c \in Adapter(b)!Calls, NEW r \in Adapter(b)!CallRecords,
         Adapter(b)!Set(c, r)
  PROVE  AdapterTyped(b, c) /\ v8'[c] = r
  BY AdapterGiven DEF Adapter!Set, AdapterTyped

AdapterPcs(b) ==
  {"idle", "claimed", "screened", "container", "create", "judging", "judged", "reported", "raised",
       "killed"}

LEMMA AdapterClaimRecord ==
  ASSUME NEW b \in AdapterBounds,
         NEW r \in Adapter(b)!CallRecords, NEW p \in AdapterPcs(b), NEW m \in {"public", "final"}
  PROVE  /\ [r EXCEPT !.mode = m, !.pc = p] \in Adapter(b)!CallRecords
         /\ AdapterIs(b, [r EXCEPT !.mode = m, !.pc = p], p, m, r.stage, r.ok, r.sha, r.candidates,
              r.sources, r.cases, r.touched, r.moved)
  BY DEF Adapter!CallRecords, AdapterIs, AdapterPcs

LEMMA AdapterScreenRecord ==
  ASSUME NEW b \in AdapterBounds,
         NEW r \in Adapter(b)!CallRecords, NEW p \in AdapterPcs(b), NEW o \in BOOLEAN,
         NEW s \in Adapter(b)!Versions \cup {Adapter(b)!None}
  PROVE  /\ [r EXCEPT !.ok = o, !.touched = FALSE, !.sha = s, !.pc = p] \in Adapter(b)!CallRecords
         /\ AdapterIs(b, [r EXCEPT !.ok = o, !.touched = FALSE, !.sha = s, !.pc = p], p, r.mode,
              r.stage, o, s, r.candidates, r.sources, r.cases, FALSE, r.moved)
  BY DEF Adapter!CallRecords, AdapterIs, AdapterPcs

LEMMA AdapterPinRecord ==
  ASSUME NEW b \in AdapterBounds,
         NEW r \in Adapter(b)!CallRecords, NEW p \in AdapterPcs(b), NEW o \in BOOLEAN
  PROVE  /\ [r EXCEPT !.moved = FALSE, !.ok = o, !.pc = p] \in Adapter(b)!CallRecords
         /\ AdapterIs(b, [r EXCEPT !.moved = FALSE, !.ok = o, !.pc = p], p, r.mode, r.stage, o,
              r.sha, r.candidates, r.sources, r.cases, r.touched, FALSE)
  BY DEF Adapter!CallRecords, AdapterIs, AdapterPcs

LEMMA AdapterFaultRecord ==
  ASSUME NEW b \in AdapterBounds,
         NEW r \in Adapter(b)!CallRecords, NEW p \in AdapterPcs(b), r.stage + 1 \in 1..6
  PROVE  /\ [r EXCEPT !.ok = FALSE, !.stage = @ + 1, !.pc = p] \in Adapter(b)!CallRecords
         /\ AdapterIs(b, [r EXCEPT !.ok = FALSE, !.stage = @ + 1, !.pc = p], p, r.mode,
              r.stage + 1, FALSE, r.sha, r.candidates, r.sources, r.cases, r.touched, r.moved)
  BY DEF Adapter!CallRecords, AdapterIs, AdapterPcs

LEMMA AdapterJudgeEndsRecord ==
  ASSUME NEW b \in AdapterBounds,
         NEW r \in Adapter(b)!CallRecords, NEW p \in AdapterPcs(b)
  PROVE  /\ [r EXCEPT !.pc = p] \in Adapter(b)!CallRecords
         /\ AdapterIs(b, [r EXCEPT !.pc = p], p, r.mode, r.stage, r.ok, r.sha, r.candidates,
              r.sources, r.cases, r.touched, r.moved)
  BY DEF Adapter!CallRecords, AdapterIs, AdapterPcs

LEMMA AdapterInspectRecord ==
  ASSUME NEW b \in AdapterBounds,
         NEW r \in Adapter(b)!CallRecords, NEW p \in AdapterPcs(b), NEW o \in BOOLEAN
  PROVE  /\ [r EXCEPT !.ok = o, !.pc = p] \in Adapter(b)!CallRecords
         /\ AdapterIs(b, [r EXCEPT !.ok = o, !.pc = p], p, r.mode, r.stage, o, r.sha, r.candidates,
              r.sources, r.cases, r.touched, r.moved)
  BY DEF Adapter!CallRecords, AdapterIs, AdapterPcs

LEMMA AdapterReportRecord ==
  ASSUME NEW b \in AdapterBounds,
         NEW r \in Adapter(b)!CallRecords, NEW p \in AdapterPcs(b), NEW s \in Adapter(b)!Versions
              \cup {Adapter(b)!None}
  PROVE  /\ [r EXCEPT !.pc = p, !.sha = s] \in Adapter(b)!CallRecords
         /\ AdapterIs(b, [r EXCEPT !.pc = p, !.sha = s], p, r.mode, r.stage, r.ok, s, r.candidates,
              r.sources, r.cases, r.touched, r.moved)
  BY DEF Adapter!CallRecords, AdapterIs, AdapterPcs

LEMMA AdapterEditRecord ==
  ASSUME NEW b \in AdapterBounds,
         NEW r \in Adapter(b)!CallRecords, NEW x \in BOOLEAN
  PROVE  /\ [r EXCEPT !.touched = @ \/ x] \in Adapter(b)!CallRecords
         /\ AdapterIs(b, [r EXCEPT !.touched = @ \/ x], r.pc, r.mode, r.stage, r.ok, r.sha,
              r.candidates, r.sources, r.cases, r.touched \/ x, r.moved)
         /\ [r EXCEPT !.moved = @ \/ x] \in Adapter(b)!CallRecords
         /\ AdapterIs(b, [r EXCEPT !.moved = @ \/ x], r.pc, r.mode, r.stage, r.ok, r.sha,
              r.candidates, r.sources, r.cases, r.touched, r.moved \/ x)
  BY DEF Adapter!CallRecords, AdapterIs

LEMMA AdapterLostRecord ==
  ASSUME NEW b \in AdapterBounds,
         NEW c \in Adapter(b)!Calls, v8[c] \in Adapter(b)!CallRecords, NEW p \in AdapterPcs(b)
  PROVE  /\ Adapter(b)!Lost(c, p) \in Adapter(b)!CallRecords
         /\ AdapterIs(b, Adapter(b)!Lost(c, p), p, v8[c].mode, 1, TRUE, Adapter(b)!None, {},
              v8[c].sources, {}, FALSE, FALSE)
  BY AdapterNumbers DEF Adapter!Lost, Adapter!Fresh, Adapter!CallRecords, AdapterIs, AdapterPcs

LEMMA AdapterStageRecord ==
  ASSUME NEW b \in AdapterBounds,
         NEW r \in Adapter(b)!CallRecords, r.stage + 1 \in 1..6, NEW o \in BOOLEAN,
         NEW s \in Adapter(b)!Versions \cup {Adapter(b)!None},
         NEW cs \in SUBSET Adapter(b)!Versions,
         NEW ss \in SUBSET Adapter(b)!Sources, NEW ca \in SUBSET BOOLEAN
  PROVE  LET R == [r EXCEPT !.stage = @ + 1, !.candidates = @ \cup cs, !.sources = @ \cup ss,
                            !.cases = @ \cup ca, !.sha = s, !.ok = @ /\ o]
         IN  /\ R \in Adapter(b)!CallRecords
             /\ AdapterIs(b, R, r.pc, r.mode, r.stage + 1, r.ok /\ o, s, r.candidates \cup cs,
                   r.sources \cup ss, r.cases \cup ca, r.touched, r.moved)
  BY DEF Adapter!CallRecords, AdapterIs

\* What a step may make of the call.
AdapterClaimed(b, c, p, m) ==
  AdapterIs(b, v8'[c], p, m, v8[c].stage, v8[c].ok, v8[c].sha, v8[c].candidates, v8[c].sources,
       v8[c].cases, v8[c].touched, v8[c].moved)
AdapterChecked(b, c, p, o, s) ==
  AdapterIs(b, v8'[c], p, v8[c].mode, v8[c].stage, o, s, v8[c].candidates, v8[c].sources,
       v8[c].cases, FALSE, v8[c].moved)
AdapterCompared(b, c, p, o) ==
  AdapterIs(b, v8'[c], p, v8[c].mode, v8[c].stage, o, v8[c].sha, v8[c].candidates, v8[c].sources,
       v8[c].cases, v8[c].touched, FALSE)
AdapterFailed(b, c, p) ==
  AdapterIs(b, v8'[c], p, v8[c].mode, v8[c].stage + 1, FALSE, v8[c].sha, v8[c].candidates,
       v8[c].sources, v8[c].cases, v8[c].touched, v8[c].moved)
AdapterGoesTo(b, c, p, o) ==
  AdapterIs(b, v8'[c], p, v8[c].mode, v8[c].stage, o, v8[c].sha, v8[c].candidates, v8[c].sources,
       v8[c].cases, v8[c].touched, v8[c].moved)
AdapterReported(b, c, p, s) ==
  AdapterIs(b, v8'[c], p, v8[c].mode, v8[c].stage, v8[c].ok, s, v8[c].candidates, v8[c].sources,
       v8[c].cases, v8[c].touched, v8[c].moved)
AdapterDropped(b, c, p) ==
  AdapterIs(b, v8'[c], p, v8[c].mode, 1, TRUE, Adapter(b)!None, {}, v8[c].sources, {}, FALSE,
       FALSE)
AdapterReads(b, c, what) == what \in Adapter(b)!A.stages[v8[c].stage]
AdapterReading(b, c, p, o, s, cs, ss) ==
  AdapterIs(b, v8'[c], p, v8[c].mode, v8[c].stage + 1, o, s, v8[c].candidates \cup cs,
     v8[c].sources \cup ss, v8[c].cases \cup (IF Adapter(b)!A.cases THEN {TRUE} ELSE {}),
     v8[c].touched, v8[c].moved)

AdapterClaimEffect(b, c) ==
  /\ v8[c].pc = "idle" /\ \A d \in 1..(c - 1) : v8[d].pc # "idle"
  /\ UNCHANGED <<Adapter(b)!World, v5>> /\ AdapterTyped(b, c)
  /\ \E m \in {"public", "final"}, p \in {"claimed", "raised"} :
       /\ AdapterClaimed(b, c, p, m)
       /\ m = IF v7 = "working" THEN "public" ELSE "final"
       /\ v6' = [total |-> v6.total + 1,
                     final |-> v6.final + IF m = "final" THEN 1 ELSE 0]
       /\ p = "claimed" /\ Adapter(b)!A.once /\ m = "final" => v6'.final = 1

LEMMA AdapterClaimDoes ==
  ASSUME NEW b \in AdapterBounds,
         AdapterInv(b), NEW c \in Adapter(b)!Calls, Adapter(b)!Claim(c)
  PROVE  AdapterClaimEffect(b, c)
<1>0. v8[c] \in Adapter(b)!CallRecords
  BY AdapterCallTyped
<1>1. PICK m \in IF v7 = "working" THEN {"public"} ELSE {"final"} :
        /\ v6' = [total |-> v6.total + 1,
                      final |-> v6.final + IF m = "final" THEN 1 ELSE 0]
        /\ Adapter(b)!Set(c,
             [v8[c] EXCEPT !.mode = m,
                  !.pc = IF Adapter(b)!Refused(m) THEN "raised" ELSE "claimed"])
  BY DEF Adapter!Claim
<1> DEFINE p == IF Adapter(b)!Refused(m) THEN "raised" ELSE "claimed"
<1>2. p \in {"claimed", "raised"} /\ p \in AdapterPcs(b) /\ m \in {"public", "final"}
  BY DEF AdapterPcs
<1>3. p = "claimed" /\ Adapter(b)!A.once /\ m = "final" => v6'.final = 1
  BY DEF Adapter!Refused
<1>4. Adapter(b)!Set(c, [v8[c] EXCEPT !.mode = m, !.pc = p])
  BY <1>1
<1> HIDE DEF p
<1>5. AdapterTyped(b, c) /\ AdapterClaimed(b, c, p, m)
  <2> DEFINE r == [v8[c] EXCEPT !.mode = m, !.pc = p]
  <2>2. r \in Adapter(b)!CallRecords
          /\ AdapterIs(b, r, p, m, v8[c].stage, v8[c].ok, v8[c].sha, v8[c].candidates,
               v8[c].sources, v8[c].cases, v8[c].touched, v8[c].moved)
    BY <1>0, <1>2, AdapterClaimRecord
  <2>3. Adapter(b)!Set(c, r)
    BY <1>4
  <2> HIDE DEF r
  <2>4. AdapterTyped(b, c) /\ v8'[c] = r
    BY <2>2, <2>3, AdapterSetDoes
  <2> QED BY <2>2, <2>4 DEF AdapterClaimed
<1>6. v8[c].pc = "idle" /\ \A d \in 1..(c - 1) : v8[d].pc # "idle"
  BY DEF Adapter!Claim
<1>7. UNCHANGED <<Adapter(b)!World, v5>>
  BY DEF Adapter!Claim
<1> QED BY <1>7, <1>1, <1>2, <1>3, <1>5, <1>6 DEF AdapterClaimEffect

AdapterScreenEffect(b, c) ==
  /\ v8[c].pc = "claimed" /\ UNCHANGED <<Adapter(b)!World, v5, v6>>
  /\ AdapterTyped(b, c)
  /\ \E p \in {"screened", "judged"} :
       /\ p = "screened" => Adapter(b)!Passes
       /\ AdapterChecked(b, c, p, Adapter(b)!Passes, IF Adapter(b)!A.hash = "early"
            /\ Adapter(b)!Passes THEN v2.v ELSE Adapter(b)!None)

LEMMA AdapterScreenDoes ==
  ASSUME NEW b \in AdapterBounds,
         AdapterInv(b), NEW c \in Adapter(b)!Calls, Adapter(b)!Screen(c)
  PROVE  AdapterScreenEffect(b, c)
<1> DEFINE p == IF ~Adapter(b)!Passes \/ (v1 = "zsoft_detect" /\ v8[c].mode = "public")
                THEN "judged" ELSE "screened"
           s == IF Adapter(b)!A.hash = "early" /\ Adapter(b)!Passes THEN v2.v ELSE Adapter(b)!None
<1>1. p \in {"screened", "judged"} /\ p \in AdapterPcs(b) /\ (p = "screened" => Adapter(b)!Passes)
  BY DEF AdapterPcs
<1>2. s \in Adapter(b)!Versions \cup {Adapter(b)!None}
  BY DEF AdapterInv, Adapter!TypeOK
<1>3. Adapter(b)!Passes \in BOOLEAN
  BY DEF Adapter!Passes
<1>4. Adapter(b)!Set(c,
        [v8[c] EXCEPT !.ok = Adapter(b)!Passes, !.touched = FALSE, !.sha = s, !.pc = p])
  BY DEF Adapter!Screen
<1> HIDE DEF p, s
<1>5. AdapterTyped(b, c) /\ AdapterChecked(b, c, p, Adapter(b)!Passes, s)
  <2> DEFINE R == [v8[c] EXCEPT !.ok = Adapter(b)!Passes, !.touched = FALSE, !.sha = s, !.pc = p]
  <2>1. R \in Adapter(b)!CallRecords
    BY <1>1, <1>2, <1>3, AdapterGiven, AdapterScreenRecord
  <2>2. AdapterIs(b, R, p, v8[c].mode, v8[c].stage, Adapter(b)!Passes, s, v8[c].candidates,
          v8[c].sources,
           v8[c].cases, FALSE, v8[c].moved)
    BY <1>1, <1>2, <1>3, AdapterGiven, AdapterScreenRecord
  <2> HIDE DEF R
  <2>3. Adapter(b)!Set(c, R)
    BY <1>4 DEF R
  <2> QED BY <2>1, <2>2, <2>3, AdapterSetDoes DEF AdapterChecked
<1>6. v8[c].pc = "claimed" /\ UNCHANGED <<Adapter(b)!World, v5, v6>>
  BY DEF Adapter!Screen
<1> QED BY <1>6, <1>1, <1>5 DEF s, AdapterScreenEffect

AdapterPinEffect(b, c) ==
  /\ v8[c].pc = "screened" /\ UNCHANGED <<Adapter(b)!World, v5, v6>>
  /\ AdapterTyped(b, c)
  /\ \E p \in {"judging", "raised", "judged"} :
       AdapterCompared(b, c, p, Adapter(b)!AsPinned) /\ (p = "judging" <=> Adapter(b)!AsPinned)

LEMMA AdapterPinDoes ==
  ASSUME NEW b \in AdapterBounds,
         AdapterInv(b), NEW c \in Adapter(b)!Calls, Adapter(b)!Pin(c)
  PROVE  AdapterPinEffect(b, c)
<1> DEFINE p == IF Adapter(b)!AsPinned THEN "judging"
                ELSE IF Adapter(b)!A.refuses = "raise" THEN "raised" ELSE "judged"
<1>1. p \in {"judging", "raised", "judged"} /\ p \in AdapterPcs(b)
        /\ (p = "judging" <=> Adapter(b)!AsPinned)
  BY DEF AdapterPcs
<1>2. Adapter(b)!AsPinned \in BOOLEAN
  BY DEF Adapter!AsPinned
<1>3. Adapter(b)!Set(c, [v8[c] EXCEPT !.moved = FALSE, !.ok = Adapter(b)!AsPinned, !.pc = p])
  BY DEF Adapter!Pin
<1> HIDE DEF p
<1>4. AdapterTyped(b, c) /\ AdapterCompared(b, c, p, Adapter(b)!AsPinned)
  <2> DEFINE R == [v8[c] EXCEPT !.moved = FALSE, !.ok = Adapter(b)!AsPinned, !.pc = p]
  <2>1. R \in Adapter(b)!CallRecords
    BY <1>1, <1>2, AdapterGiven, AdapterPinRecord
  <2>2. AdapterIs(b, R, p, v8[c].mode, v8[c].stage, Adapter(b)!AsPinned, v8[c].sha,
          v8[c].candidates,
           v8[c].sources, v8[c].cases, v8[c].touched, FALSE)
    BY <1>1, <1>2, AdapterGiven, AdapterPinRecord
  <2> HIDE DEF R
  <2>3. Adapter(b)!Set(c, R)
    BY <1>3 DEF R
  <2> QED BY <2>1, <2>2, <2>3, AdapterSetDoes DEF AdapterCompared
<1>5. v8[c].pc = "screened" /\ UNCHANGED <<Adapter(b)!World, v5, v6>>
  BY DEF Adapter!Pin
<1> QED BY <1>5, <1>1, <1>4 DEF AdapterPinEffect

LEMMA AdapterStageBound ==
  ASSUME NEW b \in AdapterBounds,
         AdapterInv(b), NEW c \in Adapter(b)!Calls, v8[c].stage <= Len(Adapter(b)!A.stages)
  PROVE  /\ v8[c].stage + 1 \in 1..6 /\ v8[c].stage + 1 <= Len(Adapter(b)!A.stages) + 1
         /\ v8[c].stage \in 1..Len(Adapter(b)!A.stages)
<1>1. v8[c].stage \in 1..6 /\ Len(Adapter(b)!A.stages) \in 1..5
  BY AdapterGiven DEF AdapterRegular, Adapter!CallRecords
<1> DEFINE k == v8[c].stage
           n == Len(Adapter(b)!A.stages)
<1>2. k \in 1..6 /\ n \in 1..5 /\ k <= n
  BY <1>1
<1> HIDE DEF k, n
<1>3. k + 1 \in 1..6 /\ k + 1 <= n + 1 /\ k \in 1..n
  BY <1>2
<1> QED BY <1>3 DEF k, n

AdapterFaultEffect(b, c) ==
  /\ v8[c].pc = "judging" /\ v8[c].stage <= Len(Adapter(b)!A.stages)
       /\ UNCHANGED <<Adapter(b)!World, v5, v6>>
  /\ AdapterTyped(b, c)
  /\ \E p \in {"raised", "judging", "judged"} :
       AdapterFailed(b, c, p) /\ (p = "judging" => Adapter(b)!A.cases)

LEMMA AdapterFaultDoes ==
  ASSUME NEW b \in AdapterBounds,
         AdapterInv(b), NEW c \in Adapter(b)!Calls, Adapter(b)!Fault(c)
  PROVE  AdapterFaultEffect(b, c)
<1> DEFINE p == IF Adapter(b)!CaseChanged \/ v8[c].stage \in Adapter(b)!A.raises THEN "raised"
                ELSE IF Adapter(b)!A.cases THEN "judging" ELSE "judged"
<1>1. p \in {"raised", "judging", "judged"} /\ p \in AdapterPcs(b)
        /\ (p = "judging" => Adapter(b)!A.cases)
  BY DEF AdapterPcs
<1>2. v8[c].stage + 1 \in 1..6
  BY AdapterStageBound DEF Adapter!Fault
<1>3. Adapter(b)!Set(c, [v8[c] EXCEPT !.ok = FALSE, !.stage = @ + 1, !.pc = p])
  BY DEF Adapter!Fault
<1> HIDE DEF p
<1>4. AdapterTyped(b, c) /\ AdapterFailed(b, c, p)
  <2>1. v8[c] \in Adapter(b)!CallRecords
    BY AdapterCallTyped
  <2> DEFINE r == [v8[c] EXCEPT !.ok = FALSE, !.stage = @ + 1, !.pc = p]
  <2>2. r \in Adapter(b)!CallRecords
          /\ AdapterIs(b, r, p, v8[c].mode, v8[c].stage + 1, FALSE, v8[c].sha, v8[c].candidates,
               v8[c].sources, v8[c].cases, v8[c].touched, v8[c].moved)
    BY <1>1, <1>2, <2>1, AdapterFaultRecord
  <2>3. Adapter(b)!Set(c, r)
    BY <1>3
  <2> HIDE DEF r
  <2>4. AdapterTyped(b, c) /\ v8'[c] = r
    BY <2>2, <2>3, AdapterSetDoes
  <2> QED BY <2>2, <2>4 DEF AdapterFailed
<1>5. v8[c].pc = "judging" /\ v8[c].stage <= Len(Adapter(b)!A.stages)
        /\ UNCHANGED <<Adapter(b)!World, v5, v6>>
  BY DEF Adapter!Fault
<1> QED BY <1>5, <1>1, <1>4 DEF AdapterFaultEffect

AdapterStageEffect(b, c) ==
  /\ v8[c].pc = "judging" /\ v8[c].stage <= Len(Adapter(b)!A.stages)
       /\ UNCHANGED <<Adapter(b)!World, v5, v6>>
  /\ AdapterTyped(b, c)
  /\ \E o \in BOOLEAN, p \in {"judged", "container", "judging"} :
       /\ o => v8[c].ok
            /\ (Adapter(b)!A.screen = "paths" /\ AdapterReads(b, c, "candidate") => v2.formed)
       /\ p # "judged" /\ ~Adapter(b)!A.cases => o
       /\ p = "container" => ~Adapter(b)!A.cases
       /\ AdapterReading(b, c, p, o,
                  IF Adapter(b)!A.hash = "copy"
                       /\ AdapterReads(b, c, "candidate") THEN v2.v ELSE v8[c].sha,
                  IF AdapterReads(b, c, "candidate") THEN {v2.v} ELSE {},
                  IF AdapterReads(b, c, "source") THEN {v4} ELSE {})

LEMMA AdapterStageDoes ==
  ASSUME NEW b \in AdapterBounds,
         AdapterInv(b), NEW c \in Adapter(b)!Calls, Adapter(b)!Stage(c)
  PROVE  AdapterStageEffect(b, c)
<1> DEFINE f == Adapter(b)!A.screen = "paths" /\ AdapterReads(b, c, "candidate") => v2.formed
           s == IF Adapter(b)!A.hash = "copy"
                /\ AdapterReads(b, c, "candidate") THEN v2.v ELSE v8[c].sha
           cs == IF AdapterReads(b, c, "candidate") THEN {v2.v} ELSE {}
           ss == IF AdapterReads(b, c, "source") THEN {v4} ELSE {}
           ca == IF Adapter(b)!A.cases THEN {v3.what # "case"} ELSE {}
           R == [v8[c] EXCEPT !.stage = @ + 1, !.candidates = @ \cup cs, !.sources = @ \cup ss,
                                !.cases = @ \cup ca, !.sha = s, !.ok = @ /\ f]
<1>1. Adapter(b)!Read(c, Adapter(b)!A.stages[v8[c].stage]) = R
  BY DEF Adapter!Read, AdapterReads
<1>2. PICK g \in BOOLEAN :
        Adapter(b)!Set(c,
             [R EXCEPT !.ok = @ /\ g, !.pc = IF ~(R.ok /\ g) /\ ~Adapter(b)!A.cases THEN "judged"
                                  ELSE IF v1 = "frontier_cs" /\ R.stage = 2 THEN "container"
                                  ELSE "judging"])
  <2> HIDE DEF R
  <2> QED BY <1>1 DEF Adapter!Stage
<1> DEFINE p == IF ~(R.ok /\ g) /\ ~Adapter(b)!A.cases THEN "judged"
                ELSE IF v1 = "frontier_cs" /\ R.stage = 2 THEN "container" ELSE "judging"
<1>3. /\ p \in {"judged", "container", "judging"} /\ p \in AdapterPcs(b)
      /\ p # "judged" /\ ~Adapter(b)!A.cases => R.ok /\ g
      /\ p = "container" => ~Adapter(b)!A.cases
  BY AdapterGiven DEF AdapterPcs
<1>4. v8[c].stage + 1 \in 1..6
  BY AdapterStageBound DEF Adapter!Stage
<1>5. s \in Adapter(b)!Versions \cup {Adapter(b)!None} /\ cs \in SUBSET Adapter(b)!Versions
        /\ ss \in SUBSET Adapter(b)!Sources
  BY AdapterGiven DEF AdapterInv, Adapter!TypeOK, Adapter!CallRecords
<1>6. f \in BOOLEAN /\ ca \in SUBSET BOOLEAN
  OBVIOUS
<1>7. ca = IF Adapter(b)!A.cases THEN {TRUE} ELSE {}
  BY DEF Adapter!Stage, Adapter!CaseChanged
<1>8. Adapter(b)!Set(c, [R EXCEPT !.ok = @ /\ g, !.pc = p])
  BY <1>2
<1>9. R = [v8[c] EXCEPT !.stage = @ + 1, !.candidates = @ \cup cs, !.sources = @ \cup ss,
                          !.cases = @ \cup ca, !.sha = s, !.ok = @ /\ f]
  OBVIOUS
<1> HIDE DEF p, R, f, s, cs, ss, ca
<1>10. /\ R \in Adapter(b)!CallRecords
       /\ AdapterIs(b, R, v8[c].pc, v8[c].mode, v8[c].stage + 1, v8[c].ok /\ f, s,
             v8[c].candidates \cup cs, v8[c].sources \cup ss, v8[c].cases \cup ca,
             v8[c].touched, v8[c].moved)
  BY <1>4, <1>5, <1>6, <1>9, AdapterGiven, AdapterStageRecord
<1> DEFINE S == [R EXCEPT !.ok = @ /\ g, !.pc = p]
           o == R.ok /\ g
<1>11. o \in BOOLEAN /\ S = [R EXCEPT !.ok = o, !.pc = p]
  OBVIOUS
<1>12. S \in Adapter(b)!CallRecords
         /\ AdapterIs(b, S, p, R.mode, R.stage, o, R.sha, R.candidates, R.sources, R.cases,
                                          R.touched, R.moved)
  BY <1>3, <1>10, <1>11, AdapterInspectRecord
<1>13. Adapter(b)!Set(c, S)
  BY <1>8
<1> HIDE DEF S
<1>14. AdapterTyped(b, c) /\ v8'[c] = S
  BY <1>12, <1>13, AdapterSetDoes
<1>15. AdapterReading(b, c, p, o, s, cs, ss)
  BY <1>7, <1>10, <1>12, <1>14 DEF AdapterReading, AdapterIs
<1>16. (o => v8[c].ok /\ f) /\ (p # "judged" /\ ~Adapter(b)!A.cases => o)
  BY <1>3, <1>10 DEF AdapterIs
<1> HIDE DEF o
<1>17. v8[c].pc = "judging" /\ v8[c].stage <= Len(Adapter(b)!A.stages)
         /\ UNCHANGED <<Adapter(b)!World, v5, v6>>
  BY DEF Adapter!Stage
<1> QED BY <1>17, <1>3, <1>11, <1>14, <1>15, <1>16 DEF f, s, cs, ss, AdapterStageEffect

AdapterJudgeEndsEffect(b, c) ==
  /\ v8[c].pc = "judging" /\ UNCHANGED <<Adapter(b)!World, v5, v6>>
  /\ AdapterTyped(b, c) /\ AdapterGoesTo(b, c, "judged", v8[c].ok)

LEMMA AdapterJudgeEndsDoes ==
  ASSUME NEW b \in AdapterBounds,
         AdapterInv(b), NEW c \in Adapter(b)!Calls, Adapter(b)!JudgeEnds(c)
  PROVE  AdapterJudgeEndsEffect(b, c)
<1>1. "judged" \in AdapterPcs(b)
  BY DEF AdapterPcs
<1>2. v8[c].pc = "judging" /\ UNCHANGED <<Adapter(b)!World, v5, v6>>
  BY DEF Adapter!JudgeEnds
<1> QED BY <1>2, <1>1, AdapterGiven, AdapterJudgeEndsRecord, AdapterSetDoes DEF Adapter!JudgeEnds,
           AdapterGoesTo, AdapterJudgeEndsEffect

AdapterContainerEffect(b, c) ==
  /\ v8[c].pc \in {"container", "create"} /\ UNCHANGED <<Adapter(b)!World, v6>>
  /\ AdapterTyped(b, c) /\ v5' \in {"absent", "up", "down", "foreign"}
  /\ \E o \in BOOLEAN, p \in {"create", "judged", "judging"} :
       AdapterGoesTo(b, c, p, o) /\ (p # "judged" => o)

LEMMA AdapterContainerDoes ==
  ASSUME NEW b \in AdapterBounds,
         AdapterInv(b), NEW c \in Adapter(b)!Calls, Adapter(b)!Inspect(c) \/ Adapter(b)!Create(c)
  PROVE  AdapterContainerEffect(b, c)
<1>1. v8[c].pc \in {"container", "create"} /\ UNCHANGED <<Adapter(b)!World, v6>>
  BY DEF Adapter!Inspect, Adapter!Create
<1>2. {"create", "judged", "judging"} \subseteq AdapterPcs(b)
        /\ v5 \in {"absent", "up", "down", "foreign"}
  BY DEF AdapterPcs, AdapterInv, Adapter!TypeOK
<1>3. CASE Adapter(b)!Inspect(c)
  <2> DEFINE p == IF v5 = "absent" THEN "create"
                  ELSE IF v5 = "foreign" THEN "judged" ELSE "judging"
             o == v5 # "foreign"
  <2>1. p \in {"create", "judged", "judging"} /\ o \in BOOLEAN /\ (p # "judged" => o)
    OBVIOUS
  <2>2. /\ Adapter(b)!Set(c, [v8[c] EXCEPT !.ok = o, !.pc = p])
        /\ v8[c].pc = "container" /\ v5' \in {"absent", "up", "down", "foreign"}
    BY <1>2, <1>3 DEF Adapter!Inspect
  <2> HIDE DEF p, o
  <2> DEFINE R == [v8[c] EXCEPT !.ok = o, !.pc = p]
  <2>3. R \in Adapter(b)!CallRecords
    BY <1>2, <2>1, AdapterGiven, AdapterInspectRecord
  <2>4. AdapterIs(b, R, p, v8[c].mode, v8[c].stage, o, v8[c].sha, v8[c].candidates,
           v8[c].sources, v8[c].cases, v8[c].touched, v8[c].moved)
    BY <1>2, <2>1, AdapterGiven, AdapterInspectRecord
  <2>5. Adapter(b)!Set(c, R)
    BY <2>2
  <2> HIDE DEF R
  <2>6. AdapterTyped(b, c) /\ AdapterGoesTo(b, c, p, o)
    BY <2>3, <2>4, <2>5, AdapterSetDoes DEF AdapterGoesTo
  <2> QED BY <1>1, <2>1, <2>2, <2>6 DEF AdapterContainerEffect
<1>4. CASE Adapter(b)!Create(c)
  <2> DEFINE p == IF v5 = "absent" THEN "judging" ELSE "judged"
             o == v5 = "absent"
  <2>1. p \in {"create", "judged", "judging"} /\ o \in BOOLEAN /\ (p # "judged" => o)
    OBVIOUS
  <2>2. /\ Adapter(b)!Set(c, [v8[c] EXCEPT !.ok = o, !.pc = p])
        /\ v8[c].pc = "create" /\ v5' \in {"absent", "up", "down", "foreign"}
    BY <1>2, <1>4 DEF Adapter!Create
  <2> HIDE DEF p, o
  <2> DEFINE R == [v8[c] EXCEPT !.ok = o, !.pc = p]
  <2>3. R \in Adapter(b)!CallRecords
    BY <1>2, <2>1, AdapterGiven, AdapterInspectRecord
  <2>4. AdapterIs(b, R, p, v8[c].mode, v8[c].stage, o, v8[c].sha, v8[c].candidates,
           v8[c].sources, v8[c].cases, v8[c].touched, v8[c].moved)
    BY <1>2, <2>1, AdapterGiven, AdapterInspectRecord
  <2>5. Adapter(b)!Set(c, R)
    BY <2>2
  <2> HIDE DEF R
  <2>6. AdapterTyped(b, c) /\ AdapterGoesTo(b, c, p, o)
    BY <2>3, <2>4, <2>5, AdapterSetDoes DEF AdapterGoesTo
  <2> QED BY <1>1, <2>1, <2>2, <2>6 DEF AdapterContainerEffect
<1> QED BY <1>1, <1>3, <1>4 DEF AdapterContainerEffect

AdapterReportEffect(b, c) ==
  /\ v8[c].pc = "judged" /\ UNCHANGED <<Adapter(b)!World, v5, v6>>
  /\ AdapterTyped(b, c)
  /\ \E p \in {"raised", "reported"} :
       AdapterReported(b, c, p, IF Adapter(b)!A.hash \in {"late", "strict"} /\ p = "reported"
                      THEN IF v2.formed THEN v2.v ELSE Adapter(b)!None ELSE v8[c].sha)

LEMMA AdapterReportDoes ==
  ASSUME NEW b \in AdapterBounds,
         AdapterInv(b), NEW c \in Adapter(b)!Calls, Adapter(b)!Report(c)
  PROVE  AdapterReportEffect(b, c)
<1> DEFINE lost == Adapter(b)!A.hash = "strict" /\ ~v2.formed /\ v8[c].stage > 1
           p == IF lost THEN "raised" ELSE "reported"
           now == IF v2.formed THEN v2.v ELSE Adapter(b)!None
           s == IF Adapter(b)!A.hash \in {"late", "strict"} /\ ~lost THEN now ELSE v8[c].sha
<1>1. p \in {"raised", "reported"} /\ p \in AdapterPcs(b)
  BY DEF AdapterPcs
<1>2. s \in Adapter(b)!Versions \cup {Adapter(b)!None}
  BY AdapterGiven DEF AdapterInv, Adapter!TypeOK, Adapter!CallRecords
<1>3. Adapter(b)!Set(c, [v8[c] EXCEPT !.pc = p, !.sha = s])
  BY DEF Adapter!Report
<1>4. s = IF Adapter(b)!A.hash \in {"late", "strict"} /\ p = "reported" THEN now ELSE v8[c].sha
  OBVIOUS
<1> HIDE DEF p, s
<1>5. AdapterTyped(b, c) /\ AdapterReported(b, c, p, s)
  <2> DEFINE R == [v8[c] EXCEPT !.pc = p, !.sha = s]
  <2>1. R \in Adapter(b)!CallRecords
    BY <1>1, <1>2, AdapterGiven, AdapterReportRecord
  <2>2. AdapterIs(b, R, p, v8[c].mode, v8[c].stage, v8[c].ok, s, v8[c].candidates,
           v8[c].sources, v8[c].cases, v8[c].touched, v8[c].moved)
    BY <1>1, <1>2, AdapterGiven, AdapterReportRecord
  <2> HIDE DEF R
  <2>3. Adapter(b)!Set(c, R)
    BY <1>3 DEF R
  <2> QED BY <2>1, <2>2, <2>3, AdapterSetDoes DEF AdapterReported
<1>6. v8[c].pc = "judged" /\ UNCHANGED <<Adapter(b)!World, v5, v6>>
  BY DEF Adapter!Report
<1> QED BY <1>6, <1>1, <1>4, <1>5 DEF AdapterReportEffect

AdapterKillEffect(b, c) ==
  /\ Adapter(b)!Running(c) /\ UNCHANGED <<Adapter(b)!World, v5, v6>>
  /\ AdapterTyped(b, c) /\ AdapterDropped(b, c, "killed")

LEMMA AdapterKillDoes ==
  ASSUME NEW b \in AdapterBounds,
         AdapterInv(b), NEW c \in Adapter(b)!Calls, Adapter(b)!Kill(c)
  PROVE  AdapterKillEffect(b, c)
<1>1. "killed" \in AdapterPcs(b)
  BY DEF AdapterPcs
<1>2. Adapter(b)!Running(c) /\ UNCHANGED <<Adapter(b)!World, v5, v6>>
  BY DEF Adapter!Kill
<1> QED BY <1>2, <1>1, AdapterGiven, AdapterLostRecord, AdapterSetDoes DEF Adapter!Kill,
           AdapterDropped, AdapterKillEffect

\* Around the calls.
AdapterTouched(b, c) ==
  AdapterIs(b, v8'[c], v8[c].pc, v8[c].mode, v8[c].stage, v8[c].ok, v8[c].sha, v8[c].candidates,
     v8[c].sources, v8[c].cases, v8[c].touched \/ Adapter(b)!Running(c), v8[c].moved)
AdapterShifted(b, c) ==
  AdapterIs(b, v8'[c], v8[c].pc, v8[c].mode, v8[c].stage, v8[c].ok, v8[c].sha, v8[c].candidates,
     v8[c].sources, v8[c].cases, v8[c].touched, v8[c].moved \/ Adapter(b)!Running(c))

AdapterEditEffect(b) ==
  /\ v8' \in [Adapter(b)!Calls -> Adapter(b)!CallRecords] /\ \A c \in Adapter(b)!Calls :
       AdapterTouched(b, c)
  /\ v7 = "working" /\ v9 < b.edits /\ v9' = v9 + 1
  /\ v2' \in [v : Adapter(b)!Versions, formed : BOOLEAN] /\ v2'.v <= v9 + 2
  /\ v3' \in [what : {"none", "file", "case"}, committed : BOOLEAN]
  /\ UNCHANGED <<v1, v4, v5, v6, v7, v10>>

LEMMA AdapterEditDoes ==
  ASSUME NEW b \in AdapterBounds,
         AdapterInv(b), Adapter(b)!Edit
  PROVE  AdapterEditEffect(b)
<1>1. ASSUME NEW c \in Adapter(b)!Calls
      PROVE  /\ [v8[c] EXCEPT !.touched = @ \/ Adapter(b)!Running(c)] \in Adapter(b)!CallRecords
             /\ AdapterIs(b, [v8[c] EXCEPT !.touched = @ \/ Adapter(b)!Running(c)], v8[c].pc,
                  v8[c].mode,
                   v8[c].stage, v8[c].ok, v8[c].sha, v8[c].candidates, v8[c].sources,
                   v8[c].cases, v8[c].touched \/ Adapter(b)!Running(c), v8[c].moved)
  <2>1. Adapter(b)!Running(c) \in BOOLEAN
    BY DEF Adapter!Running
  <2> QED BY <2>1, AdapterGiven, AdapterEditRecord
<1>2. v8' = [c \in Adapter(b)!Calls |-> [v8[c] EXCEPT !.touched = @ \/ Adapter(b)!Running(c)]]
  BY DEF Adapter!Edit
<1>3. v8' \in [Adapter(b)!Calls -> Adapter(b)!CallRecords] /\ \A c \in Adapter(b)!Calls :
        AdapterTouched(b, c)
  BY <1>1, <1>2 DEF AdapterTouched
<1>4. /\ v2 \in [v : Adapter(b)!Versions, formed : BOOLEAN] /\ v2.v <= v9 + 1 /\ v9 \in Nat
      /\ v3 \in [what : {"none", "file", "case"}, committed : BOOLEAN]
  BY DEF AdapterInv, Adapter!TypeOK, Adapter!CountInv
<1>5. v7 = "working" /\ v9 < b.edits /\ v9' = v9 + 1
  BY DEF Adapter!Edit
<1>6. \/ v2' = v2
      \/ \E formed \in BOOLEAN : v2' = [v |-> v2.v + 1, formed |-> formed]
  BY DEF Adapter!Edit
<1>7. v2' \in [v : Adapter(b)!Versions, formed : BOOLEAN] /\ v2'.v <= v9 + 2
  BY <1>4, <1>5, <1>6, AdapterBounded DEF Adapter!Versions
<1>8. v3' \in [what : {"none", "file", "case"}, committed : BOOLEAN]
  <2>1. \/ v3' = v3
        \/ \E what \in {"file", "case"} : v3' = [what |-> what, committed |-> FALSE]
    BY DEF Adapter!Edit
  <2>2. \A what \in {"file", "case"} : [what |-> what, committed |-> FALSE]
          \in [what : {"none", "file", "case"}, committed : BOOLEAN]
    OBVIOUS
  <2>3. CASE v3' = v3
    BY <1>4, <2>3
  <2> QED BY <2>1, <2>2, <2>3
<1> QED BY <1>3, <1>5, <1>7, <1>8 DEF Adapter!Edit, AdapterEditEffect

AdapterMoveEffect(b) ==
  /\ v8' \in [Adapter(b)!Calls -> Adapter(b)!CallRecords] /\ \A c \in Adapter(b)!Calls :
       AdapterShifted(b, c)
  /\ v10 < b.moves /\ v10' = v10 + 1 /\ v4' \in Adapter(b)!Sources
  /\ \A f \in {"commit", "pinned", "rest"} : v4'[f] <= v10 + 1
  /\ UNCHANGED <<v1, v2, v3, v5, v6, v7, v9>>

LEMMA AdapterMoveDoes ==
  ASSUME NEW b \in AdapterBounds,
         AdapterInv(b), Adapter(b)!Move
  PROVE  AdapterMoveEffect(b)
<1>1. ASSUME NEW c \in Adapter(b)!Calls
      PROVE  /\ [v8[c] EXCEPT !.moved = @ \/ Adapter(b)!Running(c)] \in Adapter(b)!CallRecords
             /\ AdapterIs(b, [v8[c] EXCEPT !.moved = @ \/ Adapter(b)!Running(c)], v8[c].pc,
                  v8[c].mode,
                   v8[c].stage, v8[c].ok, v8[c].sha, v8[c].candidates, v8[c].sources,
                   v8[c].cases, v8[c].touched, v8[c].moved \/ Adapter(b)!Running(c))
  <2>1. Adapter(b)!Running(c) \in BOOLEAN
    BY DEF Adapter!Running
  <2> QED BY <2>1, AdapterGiven, AdapterEditRecord
<1>2. v8' = [c \in Adapter(b)!Calls |-> [v8[c] EXCEPT !.moved = @ \/ Adapter(b)!Running(c)]]
  BY DEF Adapter!Move
<1>3. v8' \in [Adapter(b)!Calls -> Adapter(b)!CallRecords] /\ \A c \in Adapter(b)!Calls :
        AdapterShifted(b, c)
  BY <1>1, <1>2 DEF AdapterShifted
<1>4. /\ v4 \in Adapter(b)!Sources /\ v10 \in 0..b.moves
      /\ \A f \in {"commit", "pinned", "rest"} : v4[f] <= v10
  BY DEF AdapterInv, Adapter!TypeOK, Adapter!CountInv
<1>5. v10 < b.moves /\ v10' = v10 + 1
  BY DEF Adapter!Move
<1>6. PICK f \in DOMAIN v4 : v4' = [v4 EXCEPT ![f] = v10 + 1]
  BY DEF Adapter!Move
<1>7. v10 + 1 \in 0..b.moves /\ v10 <= v10 + 1
  BY <1>4, <1>5, AdapterBounded
<1>8. v4' \in Adapter(b)!Sources
  BY <1>4, <1>6, <1>7 DEF Adapter!Sources
<1>9. \A g \in {"commit", "pinned", "rest"} : v4[g] \in Nat /\ v4'[g] \in {v4[g], v10 + 1}
  BY <1>4, <1>6, AdapterBounded DEF Adapter!Sources
<1>10. \A g \in {"commit", "pinned", "rest"} : v4'[g] <= v10 + 1
  BY <1>4, <1>7, <1>9
<1> QED BY <1>3, <1>5, <1>8, <1>10 DEF Adapter!Move, AdapterMoveEffect

AdapterStopEffect(b) ==
  /\ v8' \in [Adapter(b)!Calls -> Adapter(b)!CallRecords] /\ v7' = "stopped"
  /\ \A c \in Adapter(b)!Calls : v8'[c] = v8[c]
       \/ (Adapter(b)!Running(c) /\ AdapterDropped(b, c, "killed"))
  /\ UNCHANGED <<v1, v2, v3, v4, v5, v6, v9, v10>>

LEMMA AdapterStopDoes ==
  ASSUME NEW b \in AdapterBounds,
         AdapterInv(b), Adapter(b)!StopAgent
  PROVE  AdapterStopEffect(b)
<1>1. PICK gone \in SUBSET {c \in Adapter(b)!Calls : Adapter(b)!Running(c)} :
        v8' = [c \in Adapter(b)!Calls |-> IF c \in gone THEN Adapter(b)!Lost(c,
             "killed") ELSE v8[c]]
  BY DEF Adapter!StopAgent
<1>2. "killed" \in AdapterPcs(b)
  BY DEF AdapterPcs
<1>3. \A c \in Adapter(b)!Calls : /\ v8[c] \in Adapter(b)!CallRecords
        /\ Adapter(b)!Lost(c, "killed") \in Adapter(b)!CallRecords
                                  /\ AdapterIs(b, Adapter(b)!Lost(c, "killed"), "killed",
                                       v8[c].mode, 1, TRUE, Adapter(b)!None, {},
                                        v8[c].sources, {}, FALSE, FALSE)
  BY <1>2, AdapterGiven, AdapterLostRecord
<1>4. v8' \in [Adapter(b)!Calls -> Adapter(b)!CallRecords]
  BY <1>1, <1>3
<1>5. \A c \in Adapter(b)!Calls : v8'[c] = v8[c]
        \/ (Adapter(b)!Running(c) /\ AdapterDropped(b, c, "killed"))
  BY <1>1, <1>3 DEF AdapterDropped
<1> QED BY <1>4, <1>5 DEF Adapter!StopAgent, AdapterStopEffect

\* A step of a call, by what it does.
AdapterEffect(b, c) ==
  \/ AdapterClaimEffect(b, c) \/ AdapterScreenEffect(b, c) \/ AdapterPinEffect(b, c)
       \/ AdapterStageEffect(b, c) \/ AdapterFaultEffect(b, c)
  \/ AdapterJudgeEndsEffect(b, c) \/ AdapterContainerEffect(b, c) \/ AdapterReportEffect(b, c)
       \/ AdapterKillEffect(b, c)

AdapterCommitEffect(b) ==
  /\ v7 = "working" /\ v3' = [v3 EXCEPT !.committed = TRUE]
  /\ UNCHANGED <<v1, v2, v4, v5, v6, v7, v8, v9, v10>>

LEMMA AdapterStepDoes ==
  ASSUME NEW b \in AdapterBounds,
         AdapterInv(b), NEW c \in Adapter(b)!Calls, AdapterStep(b, c)
  PROVE  AdapterEffect(b, c)
  BY AdapterClaimDoes, AdapterScreenDoes, AdapterPinDoes, AdapterStageDoes, AdapterFaultDoes,
     AdapterJudgeEndsDoes, AdapterContainerDoes, AdapterReportDoes, AdapterKillDoes
     DEF AdapterStep, AdapterEffect

LEMMA AdapterNextDoes ==
  ASSUME NEW b \in AdapterBounds,
         AdapterInv(b), Adapter(b)!Next
  PROVE  /\ AdapterEditEffect(b) \/ AdapterCommitEffect(b) \/ AdapterMoveEffect(b)
              \/ AdapterStopEffect(b) \/ \E c \in Adapter(b)!Calls : AdapterEffect(b, c)
         /\ UNCHANGED v1 /\ Adapter(b)!A' = Adapter(b)!A
<1>1. CASE Adapter(b)!Edit \/ Adapter(b)!Commit \/ Adapter(b)!Move \/ Adapter(b)!StopAgent
  BY <1>1, AdapterEditDoes, AdapterMoveDoes, AdapterStopDoes DEF Adapter!Commit,
     AdapterCommitEffect, AdapterEditEffect, AdapterMoveEffect, AdapterStopEffect, Adapter!A
<1>2. ASSUME NEW c \in Adapter(b)!Calls, AdapterStep(b, c)
      PROVE AdapterEffect(b, c) /\ UNCHANGED v1 /\ Adapter(b)!A' = Adapter(b)!A
  <2>1. AdapterEffect(b, c)
    BY Zenon, <1>2, AdapterStepDoes
  <2>2. UNCHANGED v1
    BY <1>2 DEF AdapterStep, Adapter!Claim, Adapter!Screen, Adapter!Pin, Adapter!Stage,
       Adapter!Fault, Adapter!JudgeEnds, Adapter!Inspect, Adapter!Create, Adapter!Report,
       Adapter!Kill, Adapter!World
  <2> QED BY <2>1, <2>2 DEF Adapter!A
<1> QED BY <1>1, <1>2 DEF Adapter!Next, AdapterStep

LEMMA AdapterNextTypes ==
  ASSUME NEW b \in AdapterBounds,
         AdapterInv(b), Adapter(b)!Next
  PROVE  Adapter(b)!TypeOK'
<1>0. Adapter(b)!TypeOK /\ Adapter(b)!CountInv
  BY AdapterGiven DEF AdapterInv
<1>1. UNCHANGED v1 /\ Adapter(b)!A' = Adapter(b)!A
  BY AdapterNextDoes
<1> USE AdapterNumbers, <1>0, <1>1 DEF Adapter!TypeOK
<1>2. CASE AdapterEditEffect(b)
  BY <1>2, AdapterBounded DEF AdapterEditEffect, AdapterTouched, AdapterIs, Adapter!CountInv
<1>3. CASE AdapterCommitEffect(b)
  BY <1>3 DEF AdapterCommitEffect
<1>4. CASE AdapterMoveEffect(b)
  BY <1>4, AdapterBounded DEF AdapterMoveEffect, AdapterShifted, AdapterIs, Adapter!CountInv
<1>5. CASE AdapterStopEffect(b)
  BY <1>5 DEF AdapterStopEffect, AdapterDropped, AdapterIs
<1>6. ASSUME NEW c \in Adapter(b)!Calls, AdapterEffect(b, c) PROVE Adapter(b)!TypeOK'
  <2> USE DEF AdapterTyped, AdapterIs, Adapter!World
  <2>1. CASE AdapterClaimEffect(b, c)
    <3>1. PICK m \in {"public", "final"} :
            v6' = [total |-> v6.total + 1,
                       final |-> v6.final + IF m = "final" THEN 1 ELSE 0]
      BY <2>1 DEF AdapterClaimEffect
    <3>2. /\ v6.total \in Nat /\ v6.final \in Nat /\ v6.total < c /\ c <= b.calls
          /\ v6'.total = v6.total + 1 /\ v6'.final \in {v6.final, v6.final + 1}
      BY <2>1, <3>1, AdapterBounded DEF AdapterClaimEffect, Adapter!CountInv, Adapter!TypeOK,
         Adapter!Begun, Adapter!Calls
    <3>3. v6' \in [total : 0..b.calls, final : 0..b.calls]
      BY <3>1, <3>2, AdapterBounded DEF Adapter!CountInv
    <3>4. v8' \in [Adapter(b)!Calls -> Adapter(b)!CallRecords]
            /\ UNCHANGED <<Adapter(b)!World, v5>>
      BY <2>1 DEF AdapterClaimEffect
    <3> QED BY <3>3, <3>4
  <2>2. CASE AdapterScreenEffect(b, c)
    BY <2>2 DEF AdapterScreenEffect, AdapterChecked
  <2>3. CASE AdapterPinEffect(b, c)
    BY <2>3 DEF AdapterPinEffect, AdapterCompared
  <2>4. CASE AdapterStageEffect(b, c)
    BY <2>4 DEF AdapterStageEffect, AdapterReading
  <2>5. CASE AdapterFaultEffect(b, c)
    BY <2>5 DEF AdapterFaultEffect, AdapterFailed
  <2>6. CASE AdapterJudgeEndsEffect(b, c)
    BY <2>6 DEF AdapterJudgeEndsEffect, AdapterGoesTo
  <2>7. CASE AdapterContainerEffect(b, c)
    BY <2>7 DEF AdapterContainerEffect, AdapterGoesTo
  <2>8. CASE AdapterReportEffect(b, c)
    BY <2>8 DEF AdapterReportEffect, AdapterReported
  <2>9. CASE AdapterKillEffect(b, c)
    BY <2>9 DEF AdapterKillEffect, AdapterDropped
  <2> QED BY <1>6, <2>1, <2>2, <2>3, <2>4, <2>5, <2>6, <2>7, <2>8, <2>9 DEF AdapterEffect
<1> QED BY AdapterNextDoes, <1>2, <1>3, <1>4, <1>5, <1>6

LEMMA AdapterSomeStage ==
  ASSUME NEW b \in AdapterBounds,
         AdapterInv(b)
  PROVE  1 <= Len(Adapter(b)!A.stages)
<1> DEFINE n == Len(Adapter(b)!A.stages)
<1>1. n \in 1..5
  BY AdapterGiven DEF AdapterRegular
<1> HIDE DEF n
<1>2. 1 <= n
  BY <1>1
<1> QED BY <1>2 DEF n

LEMMA AdapterNextCount ==
  ASSUME NEW b \in AdapterBounds,
         AdapterInv(b), Adapter(b)!Next
  PROVE  Adapter(b)!CountInv'
<1>0. Adapter(b)!TypeOK /\ Adapter(b)!CountInv /\ Adapter(b)!StartInv
        /\ \A d \in Adapter(b)!Calls : v8[d] \in Adapter(b)!CallRecords
  BY AdapterGiven DEF AdapterInv
<1>1. UNCHANGED v1 /\ Adapter(b)!A' = Adapter(b)!A
  BY AdapterNextDoes
<1> USE AdapterNumbers, <1>0, <1>1 DEF Adapter!CountInv, Adapter!CallRecords, Adapter!Begun,
       Adapter!Running
<1>2. CASE AdapterEditEffect(b)
  BY <1>2 DEF Adapter!TypeOK, AdapterEditEffect, AdapterTouched, AdapterIs
<1>3. CASE AdapterCommitEffect(b)
  BY <1>3 DEF AdapterCommitEffect
<1>4. CASE AdapterMoveEffect(b)
  BY <1>4 DEF AdapterMoveEffect, AdapterShifted, AdapterIs
<1>5. CASE AdapterStopEffect(b)
  BY <1>5 DEF AdapterStopEffect, AdapterDropped, AdapterIs
<1>6. ASSUME NEW c \in Adapter(b)!Calls, AdapterEffect(b, c) PROVE Adapter(b)!CountInv'
  <2> USE DEF AdapterTyped, AdapterIs, Adapter!World
  <2>1. CASE AdapterClaimEffect(b, c)
    <3>1. PICK m \in {"public", "final"} :
            v6' = [total |-> v6.total + 1,
                       final |-> v6.final + IF m = "final" THEN 1 ELSE 0]
      BY <2>1 DEF AdapterClaimEffect
    <3>2. /\ v6.total \in Nat /\ v6.final \in Nat /\ v6.total < c /\ c <= b.calls
          /\ v6'.total = v6.total + 1 /\ v6'.final \in {v6.final, v6.final + 1}
      BY <2>1, <3>1, AdapterBounded DEF AdapterClaimEffect, Adapter!CountInv, Adapter!TypeOK,
         Adapter!Begun, Adapter!Calls
    <3>3. v6.total = c - 1
      <4>1. CASE c = 1
        BY <3>2, <4>1
      <4>2. CASE c # 1
        <5>1. c - 1 \in Adapter(b)!Calls /\ c - 1 \in 1..(c - 1)
          BY <4>2, AdapterBounded DEF Adapter!Calls
        <5>2. c - 1 <= v6.total
          BY <2>1, <5>1 DEF AdapterClaimEffect
        <5> QED BY <3>2, <5>1, <5>2
      <4> QED BY <4>1, <4>2
    <3>4. \A d \in Adapter(b)!Calls : Adapter(b)!Begun(d)' <=> Adapter(b)!Begun(d) \/ d = c
      BY <2>1 DEF AdapterClaimEffect, AdapterClaimed
    <3>5. \A d \in Adapter(b)!Calls : Adapter(b)!Begun(d)' <=> d <= v6'.total
      BY <3>2, <3>3, <3>4
    <3>6. v6'.final <= v6'.total
      BY <3>2
    <3>7. \A d \in Adapter(b)!Calls : v8'[d].stage <= Len(Adapter(b)!A.stages) + 1
      BY <2>1 DEF AdapterClaimEffect, AdapterClaimed
    <3>8. UNCHANGED Adapter(b)!World
      BY <2>1 DEF AdapterClaimEffect
    <3> QED BY <3>5, <3>6, <3>7, <3>8
  <2>2. CASE AdapterScreenEffect(b, c)
    <3>1. UNCHANGED <<v2, v4, v6, v9, v10>> /\ \A d \in Adapter(b)!Calls \ {c} : v8'[d] = v8[d]
      BY <2>2 DEF AdapterScreenEffect
    <3>2. v8'[c].stage = v8[c].stage /\ v8'[c].pc # "idle" /\ v8[c].pc # "idle"
      BY <2>2 DEF AdapterScreenEffect, AdapterChecked
    <3> QED BY <3>1, <3>2
  <2>3. CASE AdapterPinEffect(b, c)
    <3>1. UNCHANGED <<v2, v4, v6, v9, v10>> /\ \A d \in Adapter(b)!Calls \ {c} : v8'[d] = v8[d]
      BY <2>3 DEF AdapterPinEffect
    <3>2. v8'[c].stage = v8[c].stage /\ v8'[c].pc # "idle" /\ v8[c].pc # "idle"
      BY <2>3 DEF AdapterPinEffect, AdapterCompared
    <3> QED BY <3>1, <3>2
  <2>4. CASE AdapterStageEffect(b, c)
    <3>1. UNCHANGED <<v2, v4, v6, v9, v10>> /\ \A d \in Adapter(b)!Calls \ {c} : v8'[d] = v8[d]
      BY <2>4 DEF AdapterStageEffect
    <3>2. /\ v8'[c].stage = v8[c].stage + 1 /\ v8[c].stage <= Len(Adapter(b)!A.stages)
          /\ v8'[c].pc # "idle" /\ v8[c].pc # "idle"
      BY <2>4 DEF AdapterStageEffect, AdapterReading
    <3> QED BY <3>1, <3>2
  <2>5. CASE AdapterFaultEffect(b, c)
    <3>1. UNCHANGED <<v2, v4, v6, v9, v10>> /\ \A d \in Adapter(b)!Calls \ {c} : v8'[d] = v8[d]
      BY <2>5 DEF AdapterFaultEffect
    <3>2. /\ v8'[c].stage = v8[c].stage + 1 /\ v8[c].stage <= Len(Adapter(b)!A.stages)
          /\ v8'[c].pc # "idle" /\ v8[c].pc # "idle"
      BY <2>5 DEF AdapterFaultEffect, AdapterFailed
    <3> QED BY <3>1, <3>2
  <2>6. CASE AdapterJudgeEndsEffect(b, c)
    <3>1. UNCHANGED <<v2, v4, v6, v9, v10>> /\ \A d \in Adapter(b)!Calls \ {c} : v8'[d] = v8[d]
      BY <2>6 DEF AdapterJudgeEndsEffect
    <3>2. v8'[c].stage = v8[c].stage /\ v8'[c].pc # "idle" /\ v8[c].pc # "idle"
      BY <2>6 DEF AdapterJudgeEndsEffect, AdapterGoesTo
    <3> QED BY <3>1, <3>2
  <2>7. CASE AdapterContainerEffect(b, c)
    <3>1. UNCHANGED <<v2, v4, v6, v9, v10>> /\ \A d \in Adapter(b)!Calls \ {c} : v8'[d] = v8[d]
      BY <2>7 DEF AdapterContainerEffect
    <3>2. v8'[c].stage = v8[c].stage /\ v8'[c].pc # "idle" /\ v8[c].pc # "idle"
      BY <2>7 DEF AdapterContainerEffect, AdapterGoesTo
    <3> QED BY <3>1, <3>2
  <2>8. CASE AdapterReportEffect(b, c)
    <3>1. UNCHANGED <<v2, v4, v6, v9, v10>> /\ \A d \in Adapter(b)!Calls \ {c} : v8'[d] = v8[d]
      BY <2>8 DEF AdapterReportEffect
    <3>2. v8'[c].stage = v8[c].stage /\ v8'[c].pc # "idle" /\ v8[c].pc # "idle"
      BY <2>8 DEF AdapterReportEffect, AdapterReported
    <3> QED BY <3>1, <3>2
  <2>9. CASE AdapterKillEffect(b, c)
    <3>1. UNCHANGED <<v2, v4, v6, v9, v10>> /\ \A d \in Adapter(b)!Calls \ {c} : v8'[d] = v8[d]
      BY <2>9 DEF AdapterKillEffect
    <3>2. /\ v8'[c].stage = 1 /\ 1 <= Len(Adapter(b)!A.stages)
          /\ v8'[c].pc # "idle" /\ v8[c].pc # "idle"
      <4>1. 1 <= Len(Adapter(b)!A.stages)
        BY AdapterSomeStage
      <4>2. AdapterIs(b, v8'[c], "killed", v8[c].mode, 1, TRUE, Adapter(b)!None, {}, v8[c].sources,
              {}, FALSE, FALSE)
        BY <2>9 DEF AdapterKillEffect, AdapterDropped
      <4>3. v8[c].pc # "idle"
        BY <2>9 DEF AdapterKillEffect
      <4> QED BY <4>1, <4>2, <4>3
    <3> QED BY <3>1, <3>2
  <2> QED BY <1>6, <2>1, <2>2, <2>3, <2>4, <2>5, <2>6, <2>7, <2>8, <2>9 DEF AdapterEffect
<1> QED BY AdapterNextDoes, <1>2, <1>3, <1>4, <1>5, <1>6

LEMMA AdapterNextStart ==
  ASSUME NEW b \in AdapterBounds,
         AdapterInv(b), Adapter(b)!Next
  PROVE  Adapter(b)!StartInv'
<1>0. Adapter(b)!StartInv /\ AdapterRegular(b, Adapter(b)!A) /\ \A d \in Adapter(b)!Calls :
        v8[d] \in Adapter(b)!CallRecords
  BY AdapterGiven DEF AdapterInv
<1>1. UNCHANGED v1 /\ Adapter(b)!A' = Adapter(b)!A
  BY AdapterNextDoes
<1> USE AdapterNumbers, <1>0, <1>1 DEF Adapter!StartInv, Adapter!Judging, Adapter!Running
<1>2. CASE AdapterEditEffect(b)
  BY <1>2 DEF AdapterEditEffect, AdapterTouched, AdapterIs
<1>3. CASE AdapterCommitEffect(b)
  BY <1>3 DEF AdapterCommitEffect
<1>4. CASE AdapterMoveEffect(b)
  BY <1>4 DEF AdapterMoveEffect, AdapterShifted, AdapterIs
<1>5. CASE AdapterStopEffect(b)
  BY <1>5 DEF AdapterStopEffect, AdapterDropped, AdapterIs
<1>6. ASSUME NEW c \in Adapter(b)!Calls, AdapterEffect(b, c) PROVE Adapter(b)!StartInv'
  <2> USE DEF AdapterTyped, AdapterIs, Adapter!World
  <2>1. CASE AdapterClaimEffect(b, c)
    BY <2>1 DEF AdapterClaimEffect, AdapterClaimed
  <2>2. CASE AdapterScreenEffect(b, c)
    BY <2>2 DEF AdapterScreenEffect, AdapterChecked
  <2>3. CASE AdapterPinEffect(b, c)
    BY <2>3 DEF AdapterPinEffect, AdapterCompared
  <2>4. CASE AdapterStageEffect(b, c)
    BY <2>4 DEF AdapterStageEffect, AdapterReading
  <2>5. CASE AdapterFaultEffect(b, c)
    BY <2>5 DEF AdapterFaultEffect, AdapterFailed
  <2>6. CASE AdapterJudgeEndsEffect(b, c)
    BY <2>6 DEF AdapterJudgeEndsEffect, AdapterGoesTo
  <2>7. CASE AdapterContainerEffect(b, c)
    BY <2>7 DEF AdapterContainerEffect, AdapterGoesTo
  <2>8. CASE AdapterReportEffect(b, c)
    BY <2>8 DEF AdapterReportEffect, AdapterReported
  <2>9. CASE AdapterKillEffect(b, c)
    BY <2>9 DEF AdapterKillEffect, AdapterDropped
  <2> QED BY <1>6, <2>1, <2>2, <2>3, <2>4, <2>5, <2>6, <2>7, <2>8, <2>9 DEF AdapterEffect
<1> QED BY AdapterNextDoes, <1>2, <1>3, <1>4, <1>5, <1>6

LEMMA AdapterNextCandidate ==
  ASSUME NEW b \in AdapterBounds,
         AdapterInv(b), Adapter(b)!Next
  PROVE  Adapter(b)!CandidateInv'
<1>0. Adapter(b)!TypeOK /\ Adapter(b)!StartInv /\ Adapter(b)!CandidateInv
        /\ AdapterRegular(b, Adapter(b)!A) /\ \A d \in Adapter(b)!Calls :
             v8[d] \in Adapter(b)!CallRecords
  BY AdapterGiven DEF AdapterInv
<1>1. UNCHANGED v1 /\ Adapter(b)!A' = Adapter(b)!A
  BY AdapterNextDoes
<1> USE AdapterNumbers, <1>0, <1>1 DEF Adapter!CandidateInv, Adapter!Screened, Adapter!Running
<1>2. CASE AdapterEditEffect(b)
  BY <1>2 DEF AdapterEditEffect, AdapterTouched, AdapterIs, Adapter!CallRecords
<1>3. CASE AdapterCommitEffect(b)
  BY <1>3 DEF AdapterCommitEffect
<1>4. CASE AdapterMoveEffect(b)
  BY <1>4 DEF AdapterMoveEffect, AdapterShifted, AdapterIs
<1>5. CASE AdapterStopEffect(b)
  <2>1. UNCHANGED v2
    BY <1>5 DEF AdapterStopEffect
  <2>2. ASSUME NEW c \in Adapter(b)!Calls
        PROVE  v8'[c] = v8[c] \/ (v8'[c].pc = "killed" /\ v8'[c].candidates = {})
    BY <1>5 DEF AdapterStopEffect, AdapterDropped, AdapterIs
  <2> QED BY <2>1, <2>2
<1>6. ASSUME NEW c \in Adapter(b)!Calls, AdapterEffect(b, c) PROVE Adapter(b)!CandidateInv'
  <2> USE DEF AdapterTyped, AdapterIs, Adapter!World
  <2>1. CASE AdapterClaimEffect(b, c)
    <3>1. /\ v8'[c].pc \in {"claimed", "raised"} /\ v8'[c].candidates = {}
          /\ UNCHANGED v2 /\ \A d \in Adapter(b)!Calls \ {c} : v8'[d] = v8[d]
      BY <2>1 DEF AdapterClaimEffect, AdapterClaimed, Adapter!StartInv
    <3> QED BY <3>1
  <2>2. CASE AdapterScreenEffect(b, c)
    BY <2>2 DEF AdapterScreenEffect, AdapterChecked, Adapter!StartInv, Adapter!Passes
  <2>3. CASE AdapterPinEffect(b, c)
    <3>1. /\ v8'[c].pc \in {"judging", "raised", "judged"} /\ v8'[c].candidates = {}
          /\ (v8'[c].touched <=> v8[c].touched) /\ v8'[c].sha = v8[c].sha
          /\ v8[c].pc = "screened" /\ v8[c].ok
          /\ UNCHANGED v2 /\ \A d \in Adapter(b)!Calls \ {c} : v8'[d] = v8[d]
      BY <2>3 DEF AdapterPinEffect, AdapterCompared, Adapter!StartInv
    <3>2. ~v8[c].touched => /\ v2.formed
                            /\ Adapter(b)!A.hash = "early" => v8[c].sha = v2.v
      BY <3>1
    <3> QED BY <3>1, <3>2
  <2>4. CASE AdapterStageEffect(b, c)
    <3> DEFINE k == v8[c].stage
               new == IF AdapterReads(b, c, "candidate") THEN {v2.v} ELSE {}
    <3>0. k \in 1..6 /\ k <= Len(Adapter(b)!A.stages)
      BY <2>4 DEF AdapterStageEffect, Adapter!CallRecords
    <3>1. /\ v8[c].pc = "judging" /\ k \in 1..Len(Adapter(b)!A.stages)
          /\ UNCHANGED v2 /\ \A d \in Adapter(b)!Calls \ {c} : v8'[d] = v8[d]
      BY <2>4, <3>0 DEF AdapterStageEffect
    <3>2. /\ v8'[c].pc \in {"judged", "container", "judging"} /\ v8'[c].stage = k + 1
          /\ v8'[c].candidates = v8[c].candidates \cup new
          /\ (v8'[c].touched <=> v8[c].touched)
          /\ v8'[c].ok => v8[c].ok
          /\ v8'[c].sha = IF Adapter(b)!A.hash = "copy"
               /\ AdapterReads(b, c, "candidate") THEN v2.v ELSE v8[c].sha
      BY <2>4 DEF AdapterStageEffect, AdapterReading
    <3>3. ~Adapter(b)!A.cases /\ AdapterReads(b, c, "candidate") =>
            /\ v8[c].candidates = {}
            /\ \A j \in (k + 1)..Len(Adapter(b)!A.stages) :
                 "candidate" \notin Adapter(b)!A.stages[j]
      BY <3>1 DEF AdapterReads, AdapterRegular
    <3>4. ~Adapter(b)!A.cases => /\ \A v, w \in v8'[c].candidates : v = w
                                 /\ v8'[c].candidates # {} =>
                                      \A j \in (k + 1)..Len(Adapter(b)!A.stages) :
                                           "candidate" \notin Adapter(b)!A.stages[j]
      <4>1. CASE AdapterReads(b, c, "candidate")
        BY <3>2, <3>3, <4>1
      <4>2. CASE ~AdapterReads(b, c, "candidate")
        BY <3>1, <3>2, <4>2
      <4> QED BY <4>1, <4>2
    <3>5. ~v8[c].touched =>
            /\ v8'[c].candidates \subseteq {v2.v}
            /\ v8'[c].ok => v2.formed
            /\ Adapter(b)!A.hash = "early" /\ v8'[c].ok => v8'[c].sha = v2.v
      BY <3>1, <3>2
    <3>6. Adapter(b)!A.hash = "copy" /\ v8'[c].candidates # {} => v8'[c].candidates = {v8'[c].sha}
      <4>1. Adapter(b)!A.hash = "copy" => ~Adapter(b)!A.cases
        BY DEF AdapterRegular
      <4>2. CASE AdapterReads(b, c, "candidate")
        BY <3>2, <3>3, <4>1, <4>2
      <4>3. CASE ~AdapterReads(b, c, "candidate")
        BY <3>2, <4>3
      <4> QED BY <4>2, <4>3
    <3> HIDE DEF k, new
    <3> QED BY <3>1, <3>2, <3>4, <3>5, <3>6
  <2>5. CASE AdapterFaultEffect(b, c)
    <3> DEFINE k == v8[c].stage
    <3>0. k \in 1..6 /\ k <= Len(Adapter(b)!A.stages)
      BY <2>5 DEF AdapterFaultEffect, Adapter!CallRecords
    <3>1. /\ v8[c].pc = "judging" /\ k \in 1..Len(Adapter(b)!A.stages)
          /\ UNCHANGED v2 /\ \A d \in Adapter(b)!Calls \ {c} : v8'[d] = v8[d]
      BY <2>5, <3>0 DEF AdapterFaultEffect
    <3>2. /\ v8'[c].pc \in {"raised", "judged", "judging"} /\ v8'[c].stage = k + 1
          /\ v8'[c].candidates = v8[c].candidates /\ ~v8'[c].ok
          /\ (v8'[c].touched <=> v8[c].touched) /\ v8'[c].sha = v8[c].sha
      BY <2>5 DEF AdapterFaultEffect, AdapterFailed
    <3>3. ~Adapter(b)!A.cases => /\ \A v, w \in v8[c].candidates : v = w
                                 /\ v8[c].candidates # {} =>
                                      \A j \in (k + 1)..Len(Adapter(b)!A.stages) :
                                           "candidate" \notin Adapter(b)!A.stages[j]
      <4>1. ~Adapter(b)!A.cases => /\ \A v, w \in v8[c].candidates : v = w
                                   /\ v8[c].candidates # {} =>
                                        \A j \in k..Len(Adapter(b)!A.stages) :
                                             "candidate" \notin Adapter(b)!A.stages[j]
        OBVIOUS
      <4>2. \A j \in (k + 1)..Len(Adapter(b)!A.stages) : j \in k..Len(Adapter(b)!A.stages)
        <5> DEFINE n == Len(Adapter(b)!A.stages)
        <5>1. k \in 1..n /\ k \in 1..6
          BY <3>0, <3>1
        <5> HIDE DEF k, n
        <5>2. \A j \in (k + 1)..n : j \in k..n
          BY <5>1
        <5> QED BY <5>2 DEF n
      <4> HIDE DEF k
      <4> QED BY <4>1, <4>2
    <3>4. /\ ~v8[c].touched => v8[c].candidates \subseteq {v2.v}
          /\ Adapter(b)!A.hash = "copy" /\ v8[c].candidates # {} => v8[c].candidates = {v8[c].sha}
      BY <3>1
    <3> HIDE DEF k
    <3> QED BY <3>1, <3>2, <3>3, <3>4
  <2>6. CASE AdapterJudgeEndsEffect(b, c)
    BY <2>6 DEF AdapterJudgeEndsEffect, AdapterGoesTo
  <2>7. CASE AdapterContainerEffect(b, c)
    BY <2>7 DEF AdapterContainerEffect, AdapterGoesTo, Adapter!StartInv, Adapter!Judging
  <2>8. CASE AdapterReportEffect(b, c)
    BY <2>8 DEF AdapterReportEffect, AdapterReported, AdapterRegular
  <2>9. CASE AdapterKillEffect(b, c)
    <3>1. /\ v8'[c].pc = "killed" /\ v8'[c].candidates = {}
          /\ UNCHANGED v2 /\ \A d \in Adapter(b)!Calls \ {c} : v8'[d] = v8[d]
      BY <2>9 DEF AdapterKillEffect, AdapterDropped
    <3> QED BY <3>1
  <2> QED BY <1>6, <2>1, <2>2, <2>3, <2>4, <2>5, <2>6, <2>7, <2>8, <2>9 DEF AdapterEffect
<1> QED BY AdapterNextDoes, <1>2, <1>3, <1>4, <1>5, <1>6

LEMMA AdapterNextSource ==
  ASSUME NEW b \in AdapterBounds,
         AdapterInv(b), Adapter(b)!Next
  PROVE  Adapter(b)!SourceInv'
<1>0. Adapter(b)!TypeOK /\ Adapter(b)!StartInv /\ Adapter(b)!SourceInv
        /\ AdapterRegular(b, Adapter(b)!A)
  BY AdapterGiven DEF AdapterInv
<1>1. UNCHANGED v1 /\ Adapter(b)!A' = Adapter(b)!A
  BY AdapterNextDoes
<1> USE AdapterNumbers, <1>0, <1>1 DEF Adapter!SourceInv, Adapter!Judging, Adapter!AsPinned,
       Adapter!Running
<1>2. CASE AdapterEditEffect(b)
  BY <1>2 DEF AdapterEditEffect, AdapterTouched, AdapterIs
<1>3. CASE AdapterCommitEffect(b)
  BY <1>3 DEF AdapterCommitEffect
<1>4. CASE AdapterMoveEffect(b)
  BY <1>4 DEF AdapterMoveEffect, AdapterShifted, AdapterIs
<1>5. CASE AdapterStopEffect(b)
  BY <1>5 DEF AdapterStopEffect, AdapterDropped, AdapterIs
<1>6. ASSUME NEW c \in Adapter(b)!Calls, AdapterEffect(b, c) PROVE Adapter(b)!SourceInv'
  <2> USE DEF AdapterTyped, AdapterIs, Adapter!World
  <2>1. CASE AdapterClaimEffect(b, c)
    <3>1. /\ v8'[c].pc \in {"claimed", "raised"} /\ UNCHANGED v4
          /\ \A d \in Adapter(b)!Calls \ {c} : v8'[d] = v8[d]
      BY <2>1 DEF AdapterClaimEffect, AdapterClaimed
    <3> QED BY <3>1
  <2>2. CASE AdapterScreenEffect(b, c)
    BY <2>2 DEF AdapterScreenEffect, AdapterChecked, Adapter!StartInv
  <2>3. CASE AdapterPinEffect(b, c)
    <3>1. /\ v8'[c].sources = {} /\ UNCHANGED v4
          /\ v8'[c].pc \in {"raised", "judged"} \/ (v8'[c].pc = "judging" /\ Adapter(b)!AsPinned)
          /\ \A d \in Adapter(b)!Calls \ {c} : v8'[d] = v8[d]
      <4>1. v8'[c].sources = {} /\ UNCHANGED v4 /\ \A d \in Adapter(b)!Calls \ {c} :
              v8'[d] = v8[d]
        BY <2>3 DEF AdapterPinEffect, AdapterCompared, Adapter!StartInv
      <4> HIDE DEF Adapter!AsPinned
      <4>2. v8'[c].pc \in {"raised", "judged"} \/ (v8'[c].pc = "judging" /\ Adapter(b)!AsPinned)
        BY <2>3 DEF AdapterPinEffect, AdapterCompared
      <4> QED BY <4>1, <4>2
    <3> QED BY <3>1
  <2>4. CASE AdapterStageEffect(b, c)
    <3>1. /\ v8[c].pc = "judging" /\ v8'[c].pc \in {"judged", "container", "judging"}
          /\ UNCHANGED v4 /\ \A d \in Adapter(b)!Calls \ {c} : v8'[d] = v8[d]
      BY <2>4 DEF AdapterStageEffect, AdapterReading
    <3>2. /\ (v8'[c].moved <=> v8[c].moved)
          /\ \A s \in v8'[c].sources : s \in v8[c].sources \/ s = v4
      BY <2>4 DEF AdapterStageEffect, AdapterReading
    <3> QED BY <3>1, <3>2
  <2>5. CASE AdapterFaultEffect(b, c)
    BY <2>5 DEF AdapterFaultEffect, AdapterFailed
  <2>6. CASE AdapterJudgeEndsEffect(b, c)
    <3>1. /\ v8[c].pc = "judging" /\ v8'[c].pc = "judged" /\ UNCHANGED v4
          /\ v8'[c].sources = v8[c].sources /\ (v8'[c].moved <=> v8[c].moved)
          /\ \A d \in Adapter(b)!Calls \ {c} : v8'[d] = v8[d]
      BY <2>6 DEF AdapterJudgeEndsEffect, AdapterGoesTo
    <3> QED BY <3>1
  <2>7. CASE AdapterContainerEffect(b, c)
    BY <2>7 DEF AdapterContainerEffect, AdapterGoesTo
  <2>8. CASE AdapterReportEffect(b, c)
    BY <2>8 DEF AdapterReportEffect, AdapterReported
  <2>9. CASE AdapterKillEffect(b, c)
    BY <2>9 DEF AdapterKillEffect, AdapterDropped
  <2> QED BY <1>6, <2>1, <2>2, <2>3, <2>4, <2>5, <2>6, <2>7, <2>8, <2>9 DEF AdapterEffect
<1> QED BY AdapterNextDoes, <1>2, <1>3, <1>4, <1>5, <1>6

\* What every step but a claim does to the final calls.
AdapterFinalKept(b) ==
  /\ UNCHANGED v6 /\ v7' \in {v7, "stopped"} /\ (v7 # "working" => UNCHANGED v2)
  /\ \A d \in Adapter(b)!Calls : Adapter(b)!Begun(d)' /\ v8'[d].mode = "final" =>
       /\ Adapter(b)!Begun(d) /\ v8[d].mode = "final"
            /\ (Adapter(b)!Scores(d)' => Adapter(b)!Scores(d))
       /\ v8'[d].candidates \subseteq v8[d].candidates \cup {v2.v}

LEMMA AdapterKeepsFinal ==
  ASSUME NEW b \in AdapterBounds,
         AdapterInv(b), AdapterFinalKept(b), UNCHANGED v1, Adapter(b)!A' = Adapter(b)!A
  PROVE  Adapter(b)!FinalInv'
<1>1. Adapter(b)!FinalInv /\ v7 \in {"working", "stopped"}
  BY DEF AdapterInv, Adapter!TypeOK
<1>2. ASSUME NEW c \in Adapter(b)!Calls, Adapter(b)!Begun(c)', v8'[c].mode = "final"
      PROVE  /\ v7' = "stopped" /\ v6'.final >= 1 /\ v8'[c].candidates \subseteq {v2'.v}
             /\ (Adapter(b)!A.once /\ Adapter(b)!Scores(c))' => \A d \in Adapter(b)!Calls :
                  Adapter(b)!Scores(d)' => c = d
  <2>1. /\ Adapter(b)!Begun(c) /\ v8[c].mode = "final"
             /\ (Adapter(b)!Scores(c)' => Adapter(b)!Scores(c))
        /\ v8'[c].candidates \subseteq v8[c].candidates \cup {v2.v}
    BY <1>2 DEF AdapterFinalKept
  <2>2. /\ v7 = "stopped" /\ v6.final >= 1 /\ v8[c].candidates \subseteq {v2.v}
        /\ Adapter(b)!A.once /\ Adapter(b)!Scores(c) => \A d \in Adapter(b)!Calls :
             Adapter(b)!Scores(d) => c = d
    BY <1>1, <2>1 DEF Adapter!FinalInv
  <2>3. \A d \in Adapter(b)!Calls : Adapter(b)!Scores(d)' => Adapter(b)!Scores(d)
    BY DEF AdapterFinalKept, Adapter!Scores
  <2>4. v7' = "stopped" /\ UNCHANGED <<v2, v6>>
    BY <2>2 DEF AdapterFinalKept
  <2> QED BY <2>1, <2>2, <2>3, <2>4
<1> QED BY <1>2 DEF Adapter!FinalInv

LEMMA AdapterNextFinal ==
  ASSUME NEW b \in AdapterBounds,
         AdapterInv(b), Adapter(b)!Next
  PROVE  Adapter(b)!FinalInv'
<1>0. Adapter(b)!TypeOK /\ Adapter(b)!StartInv /\ Adapter(b)!CountInv /\ Adapter(b)!FinalInv
  BY AdapterGiven DEF AdapterInv
<1>1. UNCHANGED v1 /\ Adapter(b)!A' = Adapter(b)!A
  BY AdapterNextDoes
<1> USE AdapterNumbers, <1>0, <1>1 DEF Adapter!Begun, Adapter!Running, Adapter!Scores
<1>2. CASE AdapterEditEffect(b)
  <2>1. AdapterFinalKept(b)
    BY <1>2 DEF AdapterEditEffect, AdapterTouched, AdapterIs, AdapterFinalKept
  <2> QED BY <2>1, AdapterKeepsFinal
<1>3. CASE AdapterCommitEffect(b)
  <2>1. AdapterFinalKept(b)
    BY <1>3 DEF AdapterCommitEffect, AdapterFinalKept
  <2> QED BY <2>1, AdapterKeepsFinal
<1>4. CASE AdapterMoveEffect(b)
  <2>1. AdapterFinalKept(b)
    BY <1>4 DEF AdapterMoveEffect, AdapterShifted, AdapterIs, AdapterFinalKept
  <2> QED BY <2>1, AdapterKeepsFinal
<1>5. CASE AdapterStopEffect(b)
  <2>1. AdapterFinalKept(b)
    BY <1>5 DEF AdapterStopEffect, AdapterDropped, AdapterIs, AdapterFinalKept
  <2> QED BY <2>1, AdapterKeepsFinal
<1>6. ASSUME NEW c \in Adapter(b)!Calls, AdapterEffect(b, c) PROVE Adapter(b)!FinalInv'
  <2> USE DEF AdapterTyped, AdapterIs, Adapter!World
  <2>1. CASE AdapterClaimEffect(b, c)
    <3>1. PICK m \in {"public", "final"}, p \in {"claimed", "raised"} :
            /\ v8'[c].pc = p /\ v8'[c].mode = m /\ v8'[c].candidates = {} /\ v8'[c].sources = {}
            /\ m = IF v7 = "working" THEN "public" ELSE "final"
            /\ v6' = [total |-> v6.total + 1,
                          final |-> v6.final + IF m = "final" THEN 1 ELSE 0]
            /\ p = "claimed" /\ Adapter(b)!A.once /\ m = "final" => v6'.final = 1
      BY <2>1 DEF AdapterClaimEffect, AdapterClaimed, Adapter!StartInv
    <3>2. /\ UNCHANGED <<v2, v7>> /\ v7 \in {"working", "stopped"} /\ v6.final \in Nat
          /\ \A d \in Adapter(b)!Calls \ {c} : v8'[d] = v8[d]
      BY <2>1 DEF AdapterClaimEffect, Adapter!TypeOK
    <3>3. /\ v6'.final = v6.final + IF m = "final" THEN 1 ELSE 0
          /\ v6'.final >= v6.final /\ (m = "final" => v6'.final >= 1 /\ v7 = "stopped")
      BY <3>1, <3>2
    <3>4. ASSUME m = "final", p = "claimed", Adapter(b)!A.once
          PROVE  \A d \in Adapter(b)!Calls \ {c} : ~(v8[d].pc # "idle" /\ v8[d].mode = "final")
      BY <3>1, <3>2, <3>3, <3>4 DEF Adapter!FinalInv
    <3>5. \A d \in Adapter(b)!Calls : Adapter(b)!Running(d)' \/ v8'[d].sources # {} =>
            v8'[d].pc # "raised" \/ d # c
      BY <3>1
    <3>6. ASSUME NEW x \in Adapter(b)!Calls, NEW y \in Adapter(b)!Calls, Adapter(b)!A.once,
                 Adapter(b)!Scores(x)', Adapter(b)!Scores(y)'
          PROVE  x = y
      <4>1. CASE x # c /\ y # c
        BY <3>2, <3>6, <4>1 DEF Adapter!FinalInv
      <4>2. CASE x = c \/ y = c
        BY <3>1, <3>2, <3>4, <3>5, <3>6, <4>2
      <4> QED BY <4>1, <4>2
    <3>7. ASSUME NEW x \in Adapter(b)!Calls, v8'[x].pc # "idle", v8'[x].mode = "final"
          PROVE  v7' = "stopped" /\ v6'.final >= 1 /\ v8'[x].candidates \subseteq {v2'.v}
      BY <3>1, <3>2, <3>3, <3>7 DEF Adapter!FinalInv
    <3> QED BY <3>6, <3>7 DEF Adapter!FinalInv
  <2>2. CASE AdapterScreenEffect(b, c)
    <3>1. AdapterFinalKept(b)
      BY <2>2 DEF AdapterScreenEffect, AdapterChecked, AdapterFinalKept
    <3> QED BY <3>1, AdapterKeepsFinal
  <2>3. CASE AdapterPinEffect(b, c)
    <3>1. AdapterFinalKept(b)
      BY <2>3 DEF AdapterPinEffect, AdapterCompared, AdapterFinalKept
    <3> QED BY <3>1, AdapterKeepsFinal
  <2>4. CASE AdapterStageEffect(b, c)
    <3>1. AdapterFinalKept(b)
      BY <2>4 DEF AdapterStageEffect, AdapterReading, AdapterReads, AdapterFinalKept
    <3> QED BY <3>1, AdapterKeepsFinal
  <2>5. CASE AdapterFaultEffect(b, c)
    <3>1. AdapterFinalKept(b)
      BY <2>5 DEF AdapterFaultEffect, AdapterFailed, AdapterFinalKept
    <3> QED BY <3>1, AdapterKeepsFinal
  <2>6. CASE AdapterJudgeEndsEffect(b, c)
    <3>1. AdapterFinalKept(b)
      BY <2>6 DEF AdapterJudgeEndsEffect, AdapterGoesTo, AdapterFinalKept
    <3> QED BY <3>1, AdapterKeepsFinal
  <2>7. CASE AdapterContainerEffect(b, c)
    <3>1. AdapterFinalKept(b)
      BY <2>7 DEF AdapterContainerEffect, AdapterGoesTo, AdapterFinalKept
    <3> QED BY <3>1, AdapterKeepsFinal
  <2>8. CASE AdapterReportEffect(b, c)
    <3>1. AdapterFinalKept(b)
      BY <2>8 DEF AdapterReportEffect, AdapterReported, AdapterFinalKept
    <3> QED BY <3>1, AdapterKeepsFinal
  <2>9. CASE AdapterKillEffect(b, c)
    <3>1. AdapterFinalKept(b)
      BY <2>9 DEF AdapterKillEffect, AdapterDropped, AdapterFinalKept
    <3> QED BY <3>1, AdapterKeepsFinal
  <2> QED BY <1>6, <2>1, <2>2, <2>3, <2>4, <2>5, <2>6, <2>7, <2>8, <2>9 DEF AdapterEffect
<1> QED BY AdapterNextDoes, <1>2, <1>3, <1>4, <1>5, <1>6

LEMMA AdapterNextCases ==
  ASSUME NEW b \in AdapterBounds,
         AdapterInv(b), Adapter(b)!Next
  PROVE  \A d \in Adapter(b)!Calls : FALSE \notin v8'[d].cases
<1>0. \A d \in Adapter(b)!Calls : FALSE \notin v8[d].cases
  BY AdapterGiven DEF AdapterInv
<1>1. UNCHANGED v1 /\ Adapter(b)!A' = Adapter(b)!A
  BY AdapterNextDoes
<1> USE AdapterNumbers, <1>0, <1>1 DEF Adapter!Running
<1>2. CASE AdapterEditEffect(b)
  BY <1>2 DEF AdapterEditEffect, AdapterTouched, AdapterIs
<1>3. CASE AdapterCommitEffect(b)
  BY <1>3 DEF AdapterCommitEffect
<1>4. CASE AdapterMoveEffect(b)
  BY <1>4 DEF AdapterMoveEffect, AdapterShifted, AdapterIs
<1>5. CASE AdapterStopEffect(b)
  BY <1>5 DEF AdapterStopEffect, AdapterDropped, AdapterIs
<1>6. ASSUME NEW c \in Adapter(b)!Calls, AdapterEffect(b, c)
      PROVE \A d \in Adapter(b)!Calls : FALSE \notin v8'[d].cases
  <2> USE DEF AdapterTyped, AdapterIs, Adapter!World
  <2>1. CASE AdapterClaimEffect(b, c)
    BY <2>1 DEF AdapterClaimEffect, AdapterClaimed
  <2>2. CASE AdapterScreenEffect(b, c)
    BY <2>2 DEF AdapterScreenEffect, AdapterChecked
  <2>3. CASE AdapterPinEffect(b, c)
    BY <2>3 DEF AdapterPinEffect, AdapterCompared
  <2>4. CASE AdapterStageEffect(b, c)
    BY <2>4 DEF AdapterStageEffect, AdapterReading
  <2>5. CASE AdapterFaultEffect(b, c)
    BY <2>5 DEF AdapterFaultEffect, AdapterFailed
  <2>6. CASE AdapterJudgeEndsEffect(b, c)
    BY <2>6 DEF AdapterJudgeEndsEffect, AdapterGoesTo
  <2>7. CASE AdapterContainerEffect(b, c)
    BY <2>7 DEF AdapterContainerEffect, AdapterGoesTo
  <2>8. CASE AdapterReportEffect(b, c)
    BY <2>8 DEF AdapterReportEffect, AdapterReported
  <2>9. CASE AdapterKillEffect(b, c)
    BY <2>9 DEF AdapterKillEffect, AdapterDropped
  <2> QED BY <1>6, <2>1, <2>2, <2>3, <2>4, <2>5, <2>6, <2>7, <2>8, <2>9 DEF AdapterEffect
<1> QED BY AdapterNextDoes, <1>2, <1>3, <1>4, <1>5, <1>6

LEMMA AdapterNextInv ==
  ASSUME NEW b \in AdapterBounds,
         AdapterInv(b), Adapter(b)!Next \/ UNCHANGED Adapter(b)!vars
  PROVE  AdapterInv(b)'
<1>1. CASE Adapter(b)!Next
  BY <1>1, AdapterNextTypes, AdapterNextCount, AdapterNextStart, AdapterNextCandidate,
     AdapterNextSource, AdapterNextFinal, AdapterNextCases DEF AdapterInv
<1>2. CASE UNCHANGED Adapter(b)!vars
  <2>1. Adapter(b)!A' = Adapter(b)!A
    BY <1>2 DEF Adapter!vars, Adapter!A
  <2>2. Adapter(b)!TypeOK' /\ Adapter(b)!CountInv'
    BY <1>2, <2>1 DEF AdapterInv, Adapter!TypeOK, Adapter!CountInv, Adapter!vars, Adapter!Begun
  <2>3. Adapter(b)!StartInv' /\ Adapter(b)!CandidateInv'
    BY <1>2, <2>1 DEF AdapterInv, Adapter!StartInv, Adapter!CandidateInv, Adapter!vars,
       Adapter!Screened, Adapter!Judging
  <2>4. Adapter(b)!SourceInv' /\ Adapter(b)!FinalInv'
    BY <1>2, <2>1 DEF AdapterInv, Adapter!SourceInv, Adapter!FinalInv, Adapter!vars,
       Adapter!Judging, Adapter!AsPinned, Adapter!Begun, Adapter!Running, Adapter!Scores
  <2> QED BY <1>2, <2>2, <2>3, <2>4 DEF AdapterInv, Adapter!vars
<1> QED BY <1>1, <1>2

LEMMA AdapterSound ==
  ASSUME NEW b \in AdapterBounds
  PROVE  AdapterInv(b) => Adapter(b)!TypeOK /\ Adapter(b)!AdapterIsSound
<1> SUFFICES ASSUME AdapterInv(b) PROVE Adapter(b)!AdapterIsSound
  BY DEF AdapterInv
<1>0. \A c \in Adapter(b)!Calls : v8[c] \in Adapter(b)!CallRecords
        /\ AdapterRegular(b, Adapter(b)!A)
  BY AdapterGiven
<1> USE DEF AdapterInv, Adapter!Judged
<1>1. Adapter(b)!OneCandidate
  <2> SUFFICES ASSUME NEW c \in Adapter(b)!Calls, Adapter(b)!Judged(c), ~Adapter(b)!A.cases
               PROVE  v8[c].candidates \in {{v} : v \in Adapter(b)!Versions}
    <3>1. ASSUME NEW c \in Adapter(b)!Calls, Adapter(b)!Judged(c), Adapter(b)!A.cases,
                 ~v8[c].touched
          PROVE  v8[c].candidates \in {{v} : v \in Adapter(b)!Versions}
      <4>1. Adapter(b)!A.hash # "none" => v8[c].candidates = {v8[c].sha}
        BY <3>1 DEF Adapter!CandidateInv
      <4> QED BY <4>1, <1>0, <3>1 DEF Adapter!CallRecords, AdapterRegular
    <3> QED BY <3>1 DEF Adapter!OneCandidate
  <2>1. PICK v \in v8[c].candidates : v8[c].candidates = {v}
    BY DEF Adapter!CandidateInv
  <2> QED BY <1>0, <2>1 DEF Adapter!CallRecords
<1>2. Adapter(b)!ShaIsJudged
  BY <1>0 DEF Adapter!ShaIsJudged, Adapter!CandidateInv, Adapter!CallRecords
<1>3. Adapter(b)!PinnedIsJudged
  BY <1>0 DEF Adapter!PinnedIsJudged, Adapter!SourceInv
<1>4. Adapter(b)!CasesAreFrozen
  BY DEF Adapter!CasesAreFrozen
<1>5. Adapter(b)!FinalIsDelivered
  BY <1>0 DEF Adapter!FinalIsDelivered, Adapter!FinalInv, Adapter!Begun, Adapter!CallRecords
<1>6. Adapter(b)!OneFinal
  BY DEF Adapter!OneFinal, Adapter!FinalInv, Adapter!StartInv, Adapter!Begun, Adapter!Scores,
     Adapter!Fresh
<1>7. Adapter(b)!Counted
  BY DEF Adapter!Counted, Adapter!CountInv, Adapter!FinalInv, Adapter!Begun
<1> QED BY <1>1, <1>2, <1>3, <1>4, <1>5, <1>6, <1>7 DEF Adapter!AdapterIsSound

-----------------------------------------------------------------------------
(* From the parts to Spec: a step keeps the part, and is one of its module.  *)

LEMMA PartKept == ASSUME [Next]_vars PROVE part' = part
  BY DEF Next, vars

LEMMA BudgetStays ==
  ASSUME [Next]_vars, (part = "budget")'
  PROVE  part = "budget" /\ (Budget!Next \/ UNCHANGED Budget!vars)
  BY PartKept DEF Next, vars, Budget!vars

LEMMA JudgementStays ==
  ASSUME [Next]_vars, (part = "judgement")'
  PROVE  part = "judgement" /\ (Judgement!Next \/ UNCHANGED Judgement!vars)
  BY PartKept DEF Next, vars, Judgement!vars

LEMMA CacheStays ==
  ASSUME [Next]_vars, (part = "cache")'
  PROVE  part = "cache" /\ (Cache!Next \/ UNCHANGED Cache!vars)
  BY PartKept DEF Next, vars, Cache!vars

LEMMA AdapterStays ==
  ASSUME [Next]_vars
  PROVE  /\ (part = "adapters")' =>
              part = "adapters" /\ (Adapter(OneByOne)!Next \/ UNCHANGED Adapter(OneByOne)!vars)
         /\ (part = "calls")' =>
              part = "calls" /\ (Adapter(Together)!Next \/ UNCHANGED Adapter(Together)!vars)
  BY PartKept DEF Next, vars, Adapter!vars

EvaluationInv ==
  /\ part = "budget" => BudgetInv
  /\ part = "judgement" => JudgementInv
  /\ part = "cache" => CacheInv
  /\ part = "adapters" => AdapterInv(OneByOne)
  /\ part = "calls" => AdapterInv(Together)

LEMMA EvaluationInvariant == Spec => []EvaluationInv
<1>1. ASSUME Init PROVE EvaluationInv
  <2>1. (part = "budget" => BudgetInv) /\ (part = "judgement" => JudgementInv)
    BY <1>1, BudgetInitInv, JudgementInitInv DEF Init
  <2>2. part = "cache" => CacheInv
    BY <1>1, CacheInitInv DEF Init
  <2>3. part = "adapters" => AdapterInv(OneByOne)
    BY <1>1, AdapterInitInv, CallBounds DEF Init
  <2>4. part = "calls" => AdapterInv(Together)
    BY <1>1, AdapterInitInv, CallBounds DEF Init
  <2> QED BY <2>1, <2>2, <2>3, <2>4 DEF EvaluationInv
<1>2. ASSUME EvaluationInv, [Next]_vars PROVE EvaluationInv'
  <2>1. (part = "budget")' => BudgetInv'
    BY <1>2, BudgetStays, BudgetNextInv DEF EvaluationInv
  <2>2. (part = "judgement")' => JudgementInv'
    BY <1>2, JudgementStays, JudgementNextInv DEF EvaluationInv
  <2>3. (part = "cache")' => CacheInv'
    BY <1>2, CacheStays, CacheNextInv DEF EvaluationInv
  <2>4. (part = "adapters")' => AdapterInv(OneByOne)'
    BY <1>2, AdapterStays, AdapterNextInv, CallBounds DEF EvaluationInv
  <2>5. (part = "calls")' => AdapterInv(Together)'
    BY <1>2, AdapterStays, AdapterNextInv, CallBounds DEF EvaluationInv
  <2> QED BY <2>1, <2>2, <2>3, <2>4, <2>5 DEF EvaluationInv
<1> QED BY <1>1, <1>2, PTL DEF Spec

\* Every evaluation is counted and no two share a ticket; the archived report and the judged
\* candidate are the ones named; a report is of one candidate under the pinned checkout, and a
\* comparison of the references of its own tree, but for the edits, moves and kills that the
\* properties name (claim_evaluator_call, evaluate_workspace, candidate_judge.py, the cache
\* of the TorchBench adapter).
THEOREM EvaluationsAreSound == Spec => []EvaluationIsSound
<1>1. EvaluationInv => EvaluationIsSound
  BY BudgetSound, JudgementSound, CacheSound, AdapterSound, CallBounds
     DEF EvaluationInv, EvaluationIsSound
<1> QED BY <1>1, EvaluationInvariant, PTL
==============================================================================
