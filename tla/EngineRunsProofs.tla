--------------------------- MODULE EngineRunsProofs ---------------------------
(***************************************************************************)
(* Proofs about EngineRuns, for any number of runs and submissions: its    *)
(* type, what the records say, what an interrupt reaches, and the gate.    *)
(***************************************************************************)
EXTENDS EngineRuns, TLAPS

(* How far a run is, and what is known of it there: nothing exists before   *)
(* it is created; only workflows are started over an await; what is known   *)
(* of a run that was given up on is what it was then.                       *)
StartInv(c) ==
  /\ at[c] \in {"idle", "hooking", "launching", "creating"} =>
       run[c] = None /\ record[c] = None /\ answer[c] = None
  /\ at[c] \in {"starting", "projecting"} => IsWorkflow(c)
  /\ at[c] = "failing" => run[c] = None \/ IsWorkflow(c)
  /\ at[c] = "awaited" => ~IsTask(c)
  /\ at[c] = "open" => IsTask(c) /\ ~over

(* An answer comes after the end, a resolved one after the record too; and  *)
(* an owner that was told is not told again.                                *)
EndInv(c) ==
  /\ answer[c] \in {"resolved", "rejected"} => Ended(c)
  /\ answer[c] = "resolved" => record[c] = "finished" \/ at[c] \in {"failing", "refused"}
  /\ heard[c] # None => at[c] = "told" \/ (at[c] = "refused" /\ heard[c] = "error")
  /\ heard[c] = "passed" => ~IsNode(c)
  /\ node[c] = "finished" => at[c] = "told"
  /\ node[c] = "start_failed" => at[c] = "refused"
  /\ IsTask(c) /\ at[c] = "told" /\ ~over => Ended(c)

(* A foreground run is listened for until the signal fires, not after. *)
ListenInv(c) ==
  /\ at[c] = "awaited" /\ ~aborted => listening[c]
  /\ aborted => ~listening[c]

(* Between the gate and the end of the run nothing is open and nothing can  *)
(* be opened; every pass was given by an advisor that is known.             *)
GateInv ==
  /\ accepted # None => gated # None /\ accepted = Parse[gated]
  /\ gated # None => owner = "agent"
  /\ gated # None => \A c \in Children : at[c] \in {"idle", "refused", "told"}
  /\ gated # None /\ advised => gated \in passes
  /\ \A p \in passes : \E c \in Children : asked[c] = p /\ heard[c] = "passed"

ChildInv(c) == /\ RecordTellsTheTruth(c) /\ Reached(c)
               /\ StartInv(c) /\ EndInv(c) /\ ListenInv(c)

EngineInv == RunsTypeOK /\ (\A c \in Children : ChildInv(c)) /\ GateInv

-----------------------------------------------------------------------------
LEMMA InitEstablishesInv == Init => EngineInv
<1> SUFFICES ASSUME Init PROVE EngineInv
  OBVIOUS
<1>1. RunsTypeOK
  BY DEF Init, RunsTypeOK, KindsOf, NodeKinds, Starts, Ends, None
<1>2. ASSUME NEW c \in Children PROVE ChildInv(c)
  BY DEF Init, ChildInv, RecordTellsTheTruth, Reached, StartInv, EndInv, ListenInv,
         Ends, Ended, None
<1>3. GateInv
  BY DEF Init, GateInv, None
<1> QED
  BY <1>1, <1>2, <1>3 DEF EngineInv

(* Nothing of a run changes, nor of its owner. *)
Kept(c) ==
  /\ kind'[c] = kind[c] /\ at'[c] = at[c] /\ run'[c] = run[c]
  /\ record'[c] = record[c] /\ answer'[c] = answer[c]
  /\ listening'[c] = listening[c] /\ node'[c] = node[c] /\ heard'[c] = heard[c]

LEMMA KeptIsKept ==
  ASSUME NEW c, ChildInv(c), Kept(c), aborted' = aborted, over' = over
  PROVE  ChildInv(c)'
BY ZenonT(60) DEF ChildInv, RecordTellsTheTruth, Reached, StartInv, EndInv, ListenInv,
       Kept, Ended, Ends, None, IsNode, IsTask, IsWorkflow, NodeKinds

LEMMA ChildStepKeepsInv ==
  ASSUME EngineInv, NEW c \in Children, ChildStep(c)
  PROVE  EngineInv'
<1> USE DEF EngineInv, None, Ends, Ended
<1>1. CASE Calls(c) \/ HooksAnswer(c) \/ Launches(c)
  <2>1. PICK place \in {"hooking", "creating", "refused", "launching"} :
          at[c] \in {"idle", "hooking"} /\ Goes(c, place)
    BY <1>1 DEF Calls, HooksAnswer, Launches
  <2>2. gated = None
    <3>1. CASE Calls(c)
      BY <3>1 DEF Calls
    <3>2. CASE HooksAnswer(c)
      BY <3>2 DEF HooksAnswer, GateInv
    <3>3. CASE Launches(c)
      BY <3>3 DEF Launches, IsNode, NodeKinds, RunsTypeOK, KindsOf, GateInv
    <3> QED
      BY <1>1, <3>1, <3>2, <3>3
  <2> USE <2>1 DEF Goes, Moves, ownerVars
  <2>3. RunsTypeOK'
    BY DEF RunsTypeOK, Starts, KindsOf, NodeKinds
  <2>4. ASSUME NEW d \in Children \ {c} PROVE ChildInv(d)'
    <3>1. Kept(d)
      BY DEF RunsTypeOK, Kept
    <3> QED
      BY <3>1, KeptIsKept
  <2>5. ChildInv(c)'
    <3> USE DEF ChildInv, IsNode, IsTask, IsWorkflow, NodeKinds
    <3>1. RecordTellsTheTruth(c)'
      BY DEF RunsTypeOK, RecordTellsTheTruth, StartInv, EndInv
    <3>2. Reached(c)'
      BY DEF RunsTypeOK, Reached, StartInv, EndInv, ListenInv
    <3>3. StartInv(c)'
      BY DEF RunsTypeOK, StartInv
    <3>4. EndInv(c)'
      BY DEF RunsTypeOK, EndInv, StartInv
    <3>5. ListenInv(c)'
      BY DEF RunsTypeOK, ListenInv, StartInv
    <3> QED
      BY <3>1, <3>2, <3>3, <3>4, <3>5
  <2>6. GateInv'
    BY <2>2 DEF RunsTypeOK, GateInv, ChildInv, EndInv
  <2> QED
    BY <2>3, <2>4, <2>5, <2>6
<1>2. CASE NodeRecorded(c)
  <2> USE <1>2 DEF NodeRecorded, Moves, ownerVars
  <2>1. RunsTypeOK'
    BY DEF RunsTypeOK, Starts, KindsOf, NodeKinds
  <2>2. ASSUME NEW d \in Children \ {c} PROVE ChildInv(d)'
    <3>1. Kept(d)
      BY DEF RunsTypeOK, Kept
    <3> QED
      BY <3>1, KeptIsKept
  <2>3. ChildInv(c)'
    <3> USE DEF ChildInv, IsNode, IsTask, IsWorkflow, NodeKinds
    <3>1. RecordTellsTheTruth(c)'
      BY DEF RunsTypeOK, RecordTellsTheTruth, StartInv, EndInv
    <3>2. Reached(c)'
      BY DEF RunsTypeOK, Reached, StartInv, EndInv, ListenInv
    <3>3. StartInv(c)'
      BY DEF RunsTypeOK, StartInv
    <3>4. EndInv(c)'
      BY DEF RunsTypeOK, EndInv, StartInv
    <3>5. ListenInv(c)'
      BY DEF RunsTypeOK, ListenInv, StartInv
    <3> QED
      BY <3>1, <3>2, <3>3, <3>4, <3>5
  <2>4. GateInv'
    BY DEF RunsTypeOK, GateInv, ChildInv, EndInv
  <2> QED
    BY <2>1, <2>2, <2>3, <2>4
<1>3. CASE Refused(c)
  <2> USE <1>3 DEF Refused, Goes, Moves, ownerVars
  <2>1. RunsTypeOK'
    BY DEF RunsTypeOK, Starts, KindsOf, NodeKinds
  <2>2. ASSUME NEW d \in Children \ {c} PROVE ChildInv(d)'
    <3>1. Kept(d)
      BY DEF RunsTypeOK, Kept
    <3> QED
      BY <3>1, KeptIsKept
  <2>3. ChildInv(c)'
    <3> USE DEF ChildInv, IsNode, IsTask, IsWorkflow, NodeKinds
    <3>1. RecordTellsTheTruth(c)'
      BY DEF RunsTypeOK, RecordTellsTheTruth, StartInv, EndInv
    <3>2. Reached(c)'
      BY DEF RunsTypeOK, Reached, StartInv, EndInv, ListenInv
    <3>3. StartInv(c)'
      BY DEF RunsTypeOK, StartInv
    <3>4. EndInv(c)'
      BY DEF RunsTypeOK, EndInv, StartInv
    <3>5. ListenInv(c)'
      BY DEF RunsTypeOK, ListenInv, StartInv
    <3> QED
      BY <3>1, <3>2, <3>3, <3>4, <3>5
  <2>4. GateInv'
    BY DEF RunsTypeOK, GateInv, ChildInv, EndInv
  <2> QED
    BY <2>1, <2>2, <2>3, <2>4
<1>4. CASE BuildThrows(c)
  <2> USE <1>4 DEF BuildThrows, Creates, Moves, ownerVars
  <2>1. RunsTypeOK'
    BY DEF RunsTypeOK, Starts, KindsOf, NodeKinds
  <2>2. ASSUME NEW d \in Children \ {c} PROVE ChildInv(d)'
    <3>1. Kept(d)
      BY DEF RunsTypeOK, Kept
    <3> QED
      BY <3>1, KeptIsKept
  <2>3. ChildInv(c)'
    <3> USE DEF ChildInv, IsNode, IsTask, IsWorkflow, NodeKinds
    <3>1. RecordTellsTheTruth(c)'
      BY DEF RunsTypeOK, RecordTellsTheTruth, StartInv, EndInv
    <3>2. Reached(c)'
      BY DEF RunsTypeOK, Reached, StartInv, EndInv, ListenInv
    <3>3. StartInv(c)'
      BY DEF RunsTypeOK, StartInv
    <3>4. EndInv(c)'
      BY DEF RunsTypeOK, EndInv, StartInv
    <3>5. ListenInv(c)'
      BY DEF RunsTypeOK, ListenInv, StartInv
    <3> QED
      BY <3>1, <3>2, <3>3, <3>4, <3>5
  <2>4. GateInv'
    BY DEF RunsTypeOK, GateInv, ChildInv, EndInv
  <2> QED
    BY <2>1, <2>2, <2>3, <2>4
<1>5. CASE AgentBegins(c)
  <2> USE <1>5 DEF AgentBegins, Creates, Moves, ownerVars
  <2>1. RunsTypeOK'
    BY DEF RunsTypeOK, Starts, KindsOf, NodeKinds
  <2>2. ASSUME NEW d \in Children \ {c} PROVE ChildInv(d)'
    <3>1. Kept(d)
      BY DEF RunsTypeOK, Kept
    <3> QED
      BY <3>1, KeptIsKept
  <2>3. ChildInv(c)'
    <3> USE DEF ChildInv, IsNode, IsTask, IsWorkflow, NodeKinds
    <3>1. RecordTellsTheTruth(c)'
      BY DEF RunsTypeOK, RecordTellsTheTruth, StartInv, EndInv
    <3>2. Reached(c)'
      BY DEF RunsTypeOK, Reached, StartInv, EndInv, ListenInv
    <3>3. StartInv(c)'
      BY DEF RunsTypeOK, StartInv
    <3>4. EndInv(c)'
      BY DEF RunsTypeOK, EndInv, StartInv
    <3>5. ListenInv(c)'
      BY DEF RunsTypeOK, ListenInv, StartInv
    <3> QED
      BY <3>1, <3>2, <3>3, <3>4, <3>5
  <2>4. GateInv'
    BY DEF RunsTypeOK, GateInv, ChildInv, EndInv
  <2> QED
    BY <2>1, <2>2, <2>3, <2>4
<1>6. CASE WorkflowBegins(c)
  <2> USE <1>6 DEF WorkflowBegins, Creates, Moves, ownerVars
  <2>1. RunsTypeOK'
    BY DEF RunsTypeOK, Starts, KindsOf, NodeKinds
  <2>2. ASSUME NEW d \in Children \ {c} PROVE ChildInv(d)'
    <3>1. Kept(d)
      BY DEF RunsTypeOK, Kept
    <3> QED
      BY <3>1, KeptIsKept
  <2>3. ChildInv(c)'
    <3> USE DEF ChildInv, IsNode, IsTask, IsWorkflow, NodeKinds
    <3>1. RecordTellsTheTruth(c)'
      BY DEF RunsTypeOK, RecordTellsTheTruth, StartInv, EndInv
    <3>2. Reached(c)'
      BY DEF RunsTypeOK, Reached, StartInv, EndInv, ListenInv
    <3>3. StartInv(c)'
      BY DEF RunsTypeOK, StartInv
    <3>4. EndInv(c)'
      BY DEF RunsTypeOK, EndInv, StartInv
    <3>5. ListenInv(c)'
      BY DEF RunsTypeOK, ListenInv, StartInv
    <3> QED
      BY <3>1, <3>2, <3>3, <3>4, <3>5
  <2>4. GateInv'
    BY DEF RunsTypeOK, GateInv, ChildInv, EndInv
  <2> QED
    BY <2>1, <2>2, <2>3, <2>4
<1>7. CASE StartThrows(c)
  <2> USE <1>7 DEF StartThrows, Goes, Moves, ownerVars
  <2>1. RunsTypeOK'
    BY DEF RunsTypeOK, Starts, KindsOf, NodeKinds
  <2>2. ASSUME NEW d \in Children \ {c} PROVE ChildInv(d)'
    <3>1. Kept(d)
      BY DEF RunsTypeOK, Kept
    <3> QED
      BY <3>1, KeptIsKept
  <2>3. ChildInv(c)'
    <3> USE DEF ChildInv, IsNode, IsTask, IsWorkflow, NodeKinds
    <3>1. RecordTellsTheTruth(c)'
      BY DEF RunsTypeOK, RecordTellsTheTruth, StartInv, EndInv
    <3>2. Reached(c)'
      BY DEF RunsTypeOK, Reached, StartInv, EndInv, ListenInv
    <3>3. StartInv(c)'
      BY DEF RunsTypeOK, StartInv
    <3>4. EndInv(c)'
      BY DEF RunsTypeOK, EndInv, StartInv
    <3>5. ListenInv(c)'
      BY DEF RunsTypeOK, ListenInv, StartInv
    <3> QED
      BY <3>1, <3>2, <3>3, <3>4, <3>5
  <2>4. GateInv'
    BY DEF RunsTypeOK, GateInv, ChildInv, EndInv
  <2> QED
    BY <2>1, <2>2, <2>3, <2>4
<1>8. CASE Bridged(c)
  <2> USE <1>8 DEF Bridged, Moves, ownerVars
  <2>1. RunsTypeOK'
    BY DEF RunsTypeOK, Starts, KindsOf, NodeKinds
  <2>2. ASSUME NEW d \in Children \ {c} PROVE ChildInv(d)'
    <3>1. Kept(d)
      BY DEF RunsTypeOK, Kept
    <3> QED
      BY <3>1, KeptIsKept
  <2>3. ChildInv(c)'
    <3> USE DEF ChildInv, IsNode, IsTask, IsWorkflow, NodeKinds
    <3>1. RecordTellsTheTruth(c)'
      BY DEF RunsTypeOK, RecordTellsTheTruth, StartInv, EndInv
    <3>2. Reached(c)'
      BY DEF RunsTypeOK, Reached, StartInv, EndInv, ListenInv
    <3>3. StartInv(c)'
      BY DEF RunsTypeOK, StartInv
    <3>4. EndInv(c)'
      BY DEF RunsTypeOK, EndInv, StartInv
    <3>5. ListenInv(c)'
      BY DEF RunsTypeOK, ListenInv, StartInv
    <3> QED
      BY <3>1, <3>2, <3>3, <3>4, <3>5
  <2>4. GateInv'
    BY DEF RunsTypeOK, GateInv, ChildInv, EndInv
  <2> QED
    BY <2>1, <2>2, <2>3, <2>4
<1>9. CASE ProjectionFails(c)
  <2> USE <1>9 DEF ProjectionFails, Goes, Moves, ownerVars
  <2>1. RunsTypeOK'
    BY DEF RunsTypeOK, Starts, KindsOf, NodeKinds
  <2>2. ASSUME NEW d \in Children \ {c} PROVE ChildInv(d)'
    <3>1. Kept(d)
      BY DEF RunsTypeOK, Kept
    <3> QED
      BY <3>1, KeptIsKept
  <2>3. ChildInv(c)'
    <3> USE DEF ChildInv, IsNode, IsTask, IsWorkflow, NodeKinds
    <3>1. RecordTellsTheTruth(c)'
      BY DEF RunsTypeOK, RecordTellsTheTruth, StartInv, EndInv
    <3>2. Reached(c)'
      BY DEF RunsTypeOK, Reached, StartInv, EndInv, ListenInv
    <3>3. StartInv(c)'
      BY DEF RunsTypeOK, StartInv
    <3>4. EndInv(c)'
      BY DEF RunsTypeOK, EndInv, StartInv
    <3>5. ListenInv(c)'
      BY DEF RunsTypeOK, ListenInv, StartInv
    <3> QED
      BY <3>1, <3>2, <3>3, <3>4, <3>5
  <2>4. GateInv'
    BY DEF RunsTypeOK, GateInv, ChildInv, EndInv
  <2> QED
    BY <2>1, <2>2, <2>3, <2>4
<1>10. CASE FailStart(c)
  <2> USE <1>10 DEF FailStart, Moves, ownerVars
  <2>1. RunsTypeOK'
    BY DEF RunsTypeOK, Starts, KindsOf, NodeKinds
  <2>2. ASSUME NEW d \in Children \ {c} PROVE ChildInv(d)'
    <3>1. Kept(d)
      BY DEF RunsTypeOK, Kept
    <3> QED
      BY <3>1, KeptIsKept
  <2>3. ChildInv(c)'
    <3> USE DEF ChildInv, IsNode, IsTask, IsWorkflow, NodeKinds
    <3>1. RecordTellsTheTruth(c)'
      BY DEF RunsTypeOK, RecordTellsTheTruth, StartInv, EndInv
    <3>2. Reached(c)'
      BY DEF RunsTypeOK, Reached, StartInv, EndInv, ListenInv
    <3>3. StartInv(c)'
      BY DEF RunsTypeOK, StartInv
    <3>4. EndInv(c)'
      BY DEF RunsTypeOK, EndInv, StartInv
    <3>5. ListenInv(c)'
      BY DEF RunsTypeOK, ListenInv, StartInv
    <3> QED
      BY <3>1, <3>2, <3>3, <3>4, <3>5
  <2>4. GateInv'
    BY DEF RunsTypeOK, GateInv, ChildInv, EndInv
  <2> QED
    BY <2>1, <2>2, <2>3, <2>4
<1>11. CASE NodeFailStart(c)
  <2> USE <1>11 DEF NodeFailStart, Moves, ownerVars
  <2>1. RunsTypeOK'
    BY DEF RunsTypeOK, Starts, KindsOf, NodeKinds
  <2>2. ASSUME NEW d \in Children \ {c} PROVE ChildInv(d)'
    <3>1. Kept(d)
      BY DEF RunsTypeOK, Kept
    <3> QED
      BY <3>1, KeptIsKept
  <2>3. ChildInv(c)'
    <3> USE DEF ChildInv, IsNode, IsTask, IsWorkflow, NodeKinds
    <3>1. RecordTellsTheTruth(c)'
      BY DEF RunsTypeOK, RecordTellsTheTruth, StartInv, EndInv
    <3>2. Reached(c)'
      BY DEF RunsTypeOK, Reached, StartInv, EndInv, ListenInv
    <3>3. StartInv(c)'
      BY DEF RunsTypeOK, StartInv
    <3>4. EndInv(c)'
      BY DEF RunsTypeOK, EndInv, StartInv
    <3>5. ListenInv(c)'
      BY DEF RunsTypeOK, ListenInv, StartInv
    <3> QED
      BY <3>1, <3>2, <3>3, <3>4, <3>5
  <2>4. GateInv'
    BY DEF RunsTypeOK, GateInv, ChildInv, EndInv
  <2> QED
    BY <2>1, <2>2, <2>3, <2>4
<1>12. CASE Handed(c)
  <2> USE <1>12 DEF Handed, Registered, Stopped, Moves, ownerVars
  <2>1. RunsTypeOK'
    BY DEF RunsTypeOK, Starts, KindsOf, NodeKinds
  <2>2. ASSUME NEW d \in Children \ {c} PROVE ChildInv(d)'
    <3>1. Kept(d)
      BY DEF RunsTypeOK, Kept
    <3> QED
      BY <3>1, KeptIsKept
  <2>3. ChildInv(c)'
    <3> USE DEF ChildInv, IsNode, IsTask, IsWorkflow, NodeKinds
    <3>1. RecordTellsTheTruth(c)'
      BY DEF RunsTypeOK, RecordTellsTheTruth, StartInv, EndInv
    <3>2. Reached(c)'
      <4>1. CASE IsTask(c)
        BY <4>1 DEF RunsTypeOK, Reached
      <4>2. CASE ~IsTask(c) /\ IsNode(c)
        BY <4>2 DEF RunsTypeOK, Reached
      <4>3. CASE ~IsTask(c) /\ ~IsNode(c)
        BY <4>3 DEF RunsTypeOK, Reached, ListenInv, KindsOf
      <4> QED
        BY <4>1, <4>2, <4>3
    <3>3. StartInv(c)'
      BY DEF RunsTypeOK, StartInv
    <3>4. EndInv(c)'
      BY DEF RunsTypeOK, EndInv, StartInv
    <3>5. ListenInv(c)'
      BY DEF RunsTypeOK, ListenInv, StartInv
    <3> QED
      BY <3>1, <3>2, <3>3, <3>4, <3>5
  <2>4. GateInv'
    BY DEF RunsTypeOK, GateInv, ChildInv, EndInv
  <2> QED
    BY <2>1, <2>2, <2>3, <2>4
<1>13. CASE RunEnds(c)
  <2> USE <1>13 DEF RunEnds, Moves, ownerVars
  <2>1. RunsTypeOK'
    BY DEF RunsTypeOK, Starts, KindsOf, NodeKinds
  <2>2. ASSUME NEW d \in Children \ {c} PROVE ChildInv(d)'
    <3>1. Kept(d)
      BY DEF RunsTypeOK, Kept
    <3> QED
      BY <3>1, KeptIsKept
  <2>3. ChildInv(c)'
    <3> USE DEF ChildInv, IsNode, IsTask, IsWorkflow, NodeKinds
    <3>1. RecordTellsTheTruth(c)'
      BY DEF RunsTypeOK, RecordTellsTheTruth, StartInv, EndInv
    <3>2. Reached(c)'
      BY DEF RunsTypeOK, Reached, StartInv, EndInv, ListenInv
    <3>3. StartInv(c)'
      BY DEF RunsTypeOK, StartInv
    <3>4. EndInv(c)'
      BY DEF RunsTypeOK, EndInv, StartInv
    <3>5. ListenInv(c)'
      BY DEF RunsTypeOK, ListenInv, StartInv
    <3> QED
      BY <3>1, <3>2, <3>3, <3>4, <3>5
  <2>4. GateInv'
    BY DEF RunsTypeOK, GateInv, ChildInv, EndInv
  <2> QED
    BY <2>1, <2>2, <2>3, <2>4
<1>14. CASE FinishRecorded(c)
  <2> USE <1>14 DEF FinishRecorded, Moves, ownerVars
  <2>1. RunsTypeOK'
    BY DEF RunsTypeOK, Starts, KindsOf, NodeKinds
  <2>2. ASSUME NEW d \in Children \ {c} PROVE ChildInv(d)'
    <3>1. Kept(d)
      BY DEF RunsTypeOK, Kept
    <3> QED
      BY <3>1, KeptIsKept
  <2>3. ChildInv(c)'
    <3> USE DEF ChildInv, IsNode, IsTask, IsWorkflow, NodeKinds
    <3>1. RecordTellsTheTruth(c)'
      BY DEF RunsTypeOK, RecordTellsTheTruth, StartInv, EndInv
    <3>2. Reached(c)'
      BY DEF RunsTypeOK, Reached, StartInv, EndInv, ListenInv
    <3>3. StartInv(c)'
      BY DEF RunsTypeOK, StartInv
    <3>4. EndInv(c)'
      BY DEF RunsTypeOK, EndInv, StartInv
    <3>5. ListenInv(c)'
      BY DEF RunsTypeOK, ListenInv, StartInv
    <3> QED
      BY <3>1, <3>2, <3>3, <3>4, <3>5
  <2>4. GateInv'
    BY DEF RunsTypeOK, GateInv, ChildInv, EndInv
  <2> QED
    BY <2>1, <2>2, <2>3, <2>4
<1>15. CASE ToolHears(c)
  <2> USE <1>15 DEF ToolHears, Moves, ownerVars
  <2>0. Ended(c)
    BY DEF ChildInv, EndInv
  <2>1. RunsTypeOK'
    <3>1. heard' \in [Children -> {None, "error", "rejected", "passed"} \cup Ends]
      BY <2>0 DEF RunsTypeOK
    <3>2. passes' \subseteq Payloads
      BY DEF RunsTypeOK
    <3> QED
      BY <3>1, <3>2 DEF RunsTypeOK, Starts, KindsOf, NodeKinds
  <2>2. ASSUME NEW d \in Children \ {c} PROVE ChildInv(d)'
    <3>1. Kept(d)
      BY DEF RunsTypeOK, Kept
    <3> QED
      BY <3>1, KeptIsKept
  <2>3. ChildInv(c)'
    <3> USE DEF ChildInv, IsNode, IsTask, IsWorkflow, NodeKinds
    <3>1. RecordTellsTheTruth(c)'
      BY DEF RunsTypeOK, RecordTellsTheTruth, StartInv, EndInv
    <3>2. Reached(c)'
      BY DEF RunsTypeOK, Reached, StartInv, EndInv, ListenInv
    <3>3. StartInv(c)'
      BY DEF RunsTypeOK, StartInv
    <3>4. EndInv(c)'
      BY DEF RunsTypeOK, EndInv, StartInv
    <3>5. ListenInv(c)'
      BY DEF RunsTypeOK, ListenInv, StartInv
    <3> QED
      BY <3>1, <3>2, <3>3, <3>4, <3>5
  <2>4. GateInv'
    BY DEF RunsTypeOK, GateInv, ChildInv, EndInv
  <2> QED
    BY <2>1, <2>2, <2>3, <2>4
<1>16. CASE NodeHears(c)
  <2> USE <1>16 DEF NodeHears, Moves, ownerVars
  <2>0. Ended(c)
    BY DEF ChildInv, EndInv
  <2>1. RunsTypeOK'
    <3>1. heard' \in [Children -> {None, "error", "rejected", "passed"} \cup Ends]
      BY <2>0 DEF RunsTypeOK
    <3>2. node' \in [Children -> {None, "running", "start_failed", "finished"}]
      BY DEF RunsTypeOK
    <3> QED
      BY <3>1, <3>2 DEF RunsTypeOK, Starts, KindsOf, NodeKinds
  <2>2. ASSUME NEW d \in Children \ {c} PROVE ChildInv(d)'
    <3>1. Kept(d)
      BY DEF RunsTypeOK, Kept
    <3> QED
      BY <3>1, KeptIsKept
  <2>3. ChildInv(c)'
    <3> USE DEF ChildInv, IsNode, IsTask, IsWorkflow, NodeKinds
    <3>1. RecordTellsTheTruth(c)'
      BY ZenonT(30) DEF RunsTypeOK, RecordTellsTheTruth, StartInv, EndInv
    <3>2. Reached(c)'
      BY DEF RunsTypeOK, Reached, StartInv, EndInv, ListenInv
    <3>3. StartInv(c)'
      BY DEF RunsTypeOK, StartInv
    <3>4. EndInv(c)'
      <4>1. heard'[c] # "passed" /\ at'[c] = "told"
           /\ (node'[c] = "start_failed" => node[c] = "start_failed")
        BY <2>0 DEF RunsTypeOK, EndInv
      <4> QED
        BY <4>1, <2>0 DEF RunsTypeOK, EndInv
    <3>5. ListenInv(c)'
      BY DEF RunsTypeOK, ListenInv, StartInv
    <3> QED
      BY <3>1, <3>2, <3>3, <3>4, <3>5
  <2>4. GateInv'
    BY DEF RunsTypeOK, GateInv, ChildInv, EndInv
  <2> QED
    BY <2>1, <2>2, <2>3, <2>4
<1> QED
  BY <1>1, <1>2, <1>3, <1>4, <1>5, <1>6, <1>7, <1>8, <1>9,
     <1>10, <1>11, <1>12, <1>13, <1>14, <1>15, <1>16
     DEF ChildStep, CreateAgentThrows, CreateWorkflowThrows

LEMMA OwnerStepKeepsInv ==
  ASSUME EngineInv, Interrupt \/ OwnerEnds \/ Submits \/ (\E p \in Payloads : Gate(p))
  PROVE  EngineInv'
<1> USE DEF EngineInv
<1>1. CASE Interrupt
  <2> USE <1>1 DEF Interrupt, Stopped
  <2>1. RunsTypeOK'
    BY DEF RunsTypeOK, KindsOf
  <2>2. ASSUME NEW c \in Children PROVE ChildInv(c)'
    <3>1. RecordTellsTheTruth(c)'
      BY DEF RunsTypeOK, ChildInv, RecordTellsTheTruth, Ended, Ends, None, IsNode, IsWorkflow
    <3>2. Reached(c)' /\ ListenInv(c)'
      BY DEF RunsTypeOK, ChildInv, Reached, ListenInv, IsTask
    <3>3. StartInv(c)' /\ EndInv(c)'
      BY DEF RunsTypeOK, ChildInv, StartInv, EndInv, Ended, Ends, None,
             IsNode, IsTask, IsWorkflow
    <3> QED
      BY <3>1, <3>2, <3>3 DEF ChildInv
  <2>3. GateInv'
    BY DEF GateInv, None
  <2> QED
    BY <2>1, <2>2, <2>3
<1>2. CASE OwnerEnds
  <2> USE <1>2 DEF OwnerEnds, Stopped, OpenTasks
  <2>1. RunsTypeOK'
    <3>1. at' \in [Children -> Starts]
      BY DEF RunsTypeOK, Starts
    <3>2. run' \in [Children -> {None, "running", "stopping"} \cup Ends]
      BY DEF RunsTypeOK
    <3> QED
      BY <3>1, <3>2 DEF RunsTypeOK, KindsOf
  <2>2. ASSUME NEW c \in Children PROVE ChildInv(c)'
    <3>1. RecordTellsTheTruth(c)'
      BY DEF RunsTypeOK, ChildInv, RecordTellsTheTruth, StartInv, EndInv, Ended, Ends, None,
             IsNode, IsWorkflow
    <3>2. Reached(c)' /\ ListenInv(c)'
      BY DEF RunsTypeOK, ChildInv, Reached, ListenInv, EndInv, Ended, Ends, IsTask
    <3>3. StartInv(c)' /\ EndInv(c)'
      BY DEF RunsTypeOK, ChildInv, StartInv, EndInv, Ended, Ends, None,
             IsNode, IsTask, IsWorkflow
    <3> QED
      BY <3>1, <3>2, <3>3 DEF ChildInv
  <2>3. GateInv'
    BY DEF RunsTypeOK, GateInv, None
  <2> QED
    BY <2>1, <2>2, <2>3
<1>3. ASSUME Submits \/ (\E p \in Payloads : Gate(p)) PROVE EngineInv'
  <2> USE <1>3 DEF Submits, Gate, childVars
  <2>1. RunsTypeOK'
    <3>1. CASE Submits
      BY <3>1, ParseAssumption DEF RunsTypeOK, KindsOf
    <3>2. ASSUME NEW p \in Payloads, Gate(p) PROVE RunsTypeOK'
      BY <3>2 DEF RunsTypeOK, KindsOf
    <3> QED
      BY <3>1, <3>2
  <2>2. ASSUME NEW c \in Children PROVE ChildInv(c)'
    <3>1. Kept(c)
      BY DEF Kept
    <3> QED
      BY <3>1, KeptIsKept
  <2>3. GateInv'
    <3>1. CASE Submits
      BY <3>1 DEF GateInv, None
    <3>2. ASSUME NEW p \in Payloads, Gate(p) PROVE GateInv'
      <4>1. ASSUME NEW c \in Children PROVE at[c] \in {"idle", "refused", "told"}
        BY <3>2 DEF RunsTypeOK, Starts, Calling, OpenTasks
      <4> QED
        BY <3>2, <4>1 DEF GateInv, HasPass
    <3> QED
      BY <3>1, <3>2
  <2> QED
    BY <2>1, <2>2, <2>3
<1> QED
  BY <1>1, <1>2, <1>3

LEMMA StutterKeepsInv == EngineInv /\ UNCHANGED vars => EngineInv'
<1> SUFFICES ASSUME EngineInv, UNCHANGED vars PROVE EngineInv'
  OBVIOUS
<1> USE DEF EngineInv, vars, childVars, ownerVars
<1>1. RunsTypeOK'
  BY DEF RunsTypeOK, KindsOf
<1>2. ASSUME NEW c \in Children PROVE ChildInv(c)'
  <2>1. Kept(c)
    BY DEF Kept
  <2> QED
    BY <2>1, KeptIsKept
<1>3. GateInv'
  BY DEF GateInv
<1> QED
  BY <1>1, <1>2, <1>3

(* The inductive invariant of the engine's runs. *)
THEOREM EngineInvariant == Spec => []EngineInv
<1>1. EngineInv /\ [Next]_vars => EngineInv'
  BY ChildStepKeepsInv, OwnerStepKeepsInv, StutterKeepsInv DEF Next
<1> QED
  BY <1>1, InitEstablishesInv, PTL DEF Spec

(* The runs of an owner and their records have the types of their fields. *)
THEOREM RunsTypeCorrect == Spec => []RunsTypeOK
BY EngineInvariant, PTL DEF EngineInv

(* Whichever writes fail, an owner is told what the record says (the        *)
(* bridges of agent-run-store.ts and agentic-workflow-run-store.ts).        *)
THEOREM RecordsTellTheTruthHolds == Spec => []RecordsTellTheTruth
<1>1. EngineInv => RecordsTellTheTruth
  BY DEF EngineInv, ChildInv, RecordsTellTheTruth
<1> QED
  BY <1>1, EngineInvariant, PTL

(* An interrupt, and the end of the owner, reach every run that was handed  *)
(* over, however late its start returned.                                   *)
THEOREM InterruptReachesAllHolds == Spec => []InterruptReachesAll
<1>1. EngineInv => InterruptReachesAll
  BY DEF EngineInv, ChildInv, InterruptReachesAll
<1> QED
  BY <1>1, EngineInvariant, PTL

(* What is accepted of an advised agent was passed by an advisor of its own,*)
(* with no task open (outcome-advisory.ts).                                 *)
THEOREM AcceptedAsAdvisedHolds == Spec => []AcceptedAsAdvised
<1>1. EngineInv => AcceptedAsAdvised
  <2> SUFFICES ASSUME EngineInv, accepted # None PROVE AcceptedAsAdvised
    BY DEF AcceptedAsAdvised
  <2>1. \A c \in Children : at[c] \in {"idle", "refused", "told"}
    BY DEF EngineInv, GateInv
  <2>2. advised => \E c \in Children :
          heard[c] = "passed" /\ asked[c] = gated /\ Parse[asked[c]] = accepted
    BY DEF EngineInv, GateInv
  <2> QED
    BY <2>1, <2>2 DEF AcceptedAsAdvised, OpenTasks
<1> QED
  BY <1>1, EngineInvariant, PTL
=============================================================================
