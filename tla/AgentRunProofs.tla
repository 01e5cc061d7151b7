--------------------------- MODULE AgentRunProofs ---------------------------
(***************************************************************************)
(* Proofs about one agent run and the background-task registry it owns,    *)
(* for any number of tasks, user messages, notifications, turns and        *)
(* terminal calls, in both termination modes.                              *)
(***************************************************************************)
EXTENDS AgentRun, TLAPS

-----------------------------------------------------------------------------
(***************************************************************************)
(* The registry, for any set of tasks.  Its step lemmas are stated for     *)
(* RegistryStep, which is weaker than TasksNext: disposeAll() may happen   *)
(* at any time and more than once, so that the second half of the module   *)
(* can use them for a registry that is driven by a run.                    *)
(***************************************************************************)
RegistryStep ==
  \/ \E t \in Tasks : Register(t) \/ CancelBegin(t) \/ TaskStep(t)
  \/ DisposeAll

(* TasksNext only takes registry steps. *)
LEMMA NextIsRegistryStep == TasksNext => RegistryStep
BY DEF TasksNext, RegistryStep

(* Type correctness is kept by every operation. *)
LEMMA TasksTypeStep ==
  TasksTypeOK /\ [RegistryStep]_taskVars => TasksTypeOK'
<1> SUFFICES ASSUME TasksTypeOK, [RegistryStep]_taskVars
             PROVE  TasksTypeOK'
  OBVIOUS
<1> USE DEF TasksTypeOK
<1>1. ASSUME NEW t \in Tasks, Register(t) PROVE TasksTypeOK'
  BY <1>1 DEF Register
<1>2. ASSUME NEW t \in Tasks, CancelBegin(t) PROVE TasksTypeOK'
  BY <1>2 DEF CancelBegin, Cause, Paths
<1>3. ASSUME NEW t \in Tasks, StopOrphan(t) PROVE TasksTypeOK'
  BY <1>3 DEF StopOrphan
<1>4. ASSUME NEW t \in Tasks, Settle(t) PROVE TasksTypeOK'
  BY <1>4 DEF Settle, BeginComplete, Cause, Paths
<1>5. ASSUME NEW t \in Tasks, LateHandlerReturn(t) PROVE TasksTypeOK'
  BY <1>5 DEF LateHandlerReturn
<1>6. ASSUME NEW t \in Tasks, NEW c \in Cause, TeardownDone(t, c)
      PROVE  TasksTypeOK'
  BY <1>6 DEF TeardownDone, BeginComplete, Paths
<1>7. ASSUME NEW t \in Tasks, NEW c \in Cause, HandlerDone(t, c)
      PROVE  TasksTypeOK'
  BY <1>7 DEF HandlerDone, EndComplete, Paths
<1>8. ASSUME NEW t \in Tasks, NEW c \in Cause, HandlerTimeout(t, c)
      PROVE  TasksTypeOK'
  BY <1>8 DEF HandlerTimeout, EndComplete, Paths
<1>9. ASSUME DisposeAll PROVE TasksTypeOK'
  BY <1>9 DEF DisposeAll, Disposable, Cause, Paths
<1>10. CASE UNCHANGED taskVars
  BY <1>10 DEF taskVars
<1>11. CASE RegistryStep
  BY <1>1, <1>2, <1>3, <1>4, <1>5, <1>6, <1>7, <1>8, <1>9, <1>11
     DEF RegistryStep, TaskStep
<1> QED BY <1>10, <1>11

(* The registry's state always has its types. *)
THEOREM TasksTypeCorrect == TasksSafety => []TasksTypeOK
<1>1. TasksInit => TasksTypeOK
  <2>1. NoPath \in [Cause -> Paths]
    BY DEF NoPath, Paths
  <2>2. [t \in Tasks |-> NoPath] \in [Tasks -> [Cause -> Paths]]
    BY <2>1
  <2>3. [t \in Tasks |-> 0] \in [Tasks -> Nat]
    OBVIOUS
  <2>4. ASSUME TasksInit PROVE path \in [Tasks -> [Cause -> Paths]]
    BY <2>2, <2>4 DEF TasksInit
  <2>5. ASSUME TasksInit PROVE invoked \in [Tasks -> Nat]
    BY <2>3, <2>5 DEF TasksInit
  <2>6. ASSUME TasksInit PROVE changes \in Nat
    BY <2>6 DEF TasksInit
  <2>7. ASSUME TasksInit PROVE disposed \in BOOLEAN
    BY <2>7 DEF TasksInit
  <2> QED BY <2>4, <2>5, <2>6, <2>7, Zenon DEF TasksInit, TasksTypeOK
<1>2. TasksTypeOK /\ [TasksNext]_taskVars => TasksTypeOK'
  BY TasksTypeStep, NextIsRegistryStep
<1> QED BY <1>1, <1>2, PTL DEF TasksSafety

-----------------------------------------------------------------------------
(* Every operation keeps the life cycle of every task: a task is taken over *)
(* only while its settling flag is clear, so no path of it has started, and *)
(* a path that has started moves on alone.                                  *)
LEMMA TasksInvStep ==
  TasksTypeOK /\ TasksInv /\ [RegistryStep]_taskVars => TasksInv'
<1> SUFFICES ASSUME TasksTypeOK, TasksInv, [RegistryStep]_taskVars
             PROVE  TasksInv'
  OBVIOUS
<1> USE DEF TasksTypeOK, TasksInv, LifeCycle, DisposedIsClosing, Started,
            Active, Over
<1>1. ASSUME NEW t \in Tasks, Register(t) PROVE TasksInv'
  BY <1>1 DEF Register
<1>2. ASSUME NEW t \in Tasks, CancelBegin(t) PROVE TasksInv'
  BY <1>2 DEF CancelBegin, MayCancel, Cause
<1>3. ASSUME NEW t \in Tasks, StopOrphan(t) PROVE TasksInv'
  BY <1>3 DEF StopOrphan
<1>4. ASSUME NEW t \in Tasks, Settle(t) PROVE TasksInv'
  BY <1>4 DEF Settle, MaySettle, BeginComplete, Cause
<1>5. ASSUME NEW t \in Tasks, LateHandlerReturn(t) PROVE TasksInv'
  BY <1>5 DEF LateHandlerReturn
<1>6. ASSUME NEW t \in Tasks, NEW c \in Cause, TeardownDone(t, c)
      PROVE  TasksInv'
  <2>1. path[t][c] = "teardown" /\ invoked[t] = 0 /\ t \in settling
    BY <1>6 DEF TeardownDone
  <2>2. ASSUME NEW u \in Tasks, u # t PROVE LifeCycle(u)'
    BY <1>6, <2>2 DEF TeardownDone, BeginComplete
  <2>3. LifeCycle(t)'
    <3>1. CASE t \in Silent
      <4>1. /\ path'[t] = [path[t] EXCEPT ![c] = "ended"]
            /\ inHandler' = inHandler /\ t \notin inHandler
            /\ invoked' = invoked /\ settling' = settling /\ asked' = asked
            /\ entries' = entries \ {t}
        BY <1>6, <2>1, <3>1 DEF TeardownDone, BeginComplete
      <4>2. path[t] \in [Cause -> Paths]
        OBVIOUS
      <4> QED BY <2>1, <3>1, <4>1, <4>2
    <3>2. CASE t \notin Silent
      <4>1. /\ path'[t] = [path[t] EXCEPT ![c] = "handling"]
            /\ invoked'[t] = 1
            /\ entries' = entries /\ settling' = settling /\ asked' = asked
        BY <1>6, <2>1, <3>2 DEF TeardownDone, BeginComplete
      <4>2. path[t] \in [Cause -> Paths]
        OBVIOUS
      <4> QED BY <2>1, <3>2, <4>1, <4>2
    <3> QED BY <3>1, <3>2
  <2>4. DisposedIsClosing'
    BY <1>6 DEF TeardownDone, BeginComplete
  <2> QED BY <2>2, <2>3, <2>4
<1>7. ASSUME NEW t \in Tasks, NEW c \in Cause, HandlerDone(t, c)
      PROVE  TasksInv'
  BY <1>7 DEF HandlerDone, EndComplete
<1>8. ASSUME NEW t \in Tasks, NEW c \in Cause, HandlerTimeout(t, c)
      PROVE  TasksInv'
  BY <1>8 DEF HandlerTimeout, EndComplete
<1>9. ASSUME DisposeAll PROVE TasksInv'
  BY <1>9 DEF DisposeAll, Disposable, Cause
<1>10. CASE UNCHANGED taskVars
  BY <1>10 DEF taskVars
<1>11. CASE RegistryStep
  BY <1>1, <1>2, <1>3, <1>4, <1>5, <1>6, <1>7, <1>8, <1>9, <1>11
     DEF RegistryStep, TaskStep
<1> QED BY <1>10, <1>11

(* The life cycle holds throughout. *)
THEOREM LifeCycleHolds == TasksSafety => [](TasksTypeOK /\ TasksInv)
<1>1. TasksInit => TasksInv
  BY DEF TasksInit, TasksInv, LifeCycle, DisposedIsClosing, Started, Active,
         Over, NoPath
<1>2. TasksTypeOK /\ TasksInv /\ [TasksNext]_taskVars => TasksInv'
  BY TasksInvStep, NextIsRegistryStep
<1> QED BY <1>1, <1>2, TasksTypeCorrect, PTL DEF TasksSafety

(* A task is completed by one cause only. *)
THEOREM OneCompletionPathHolds == TasksSafety => []OneCompletionPath
<1>1. TasksTypeOK /\ TasksInv => OneCompletionPath
  BY DEF TasksInv, LifeCycle, OneCompletionPath
<1> QED BY <1>1, LifeCycleHolds, PTL

(* Exactly one call of onCompletion for a removed task that owes one.       *)
THEOREM CompletionOwedHolds == TasksSafety => []CompletionOwed
<1>1. ASSUME TasksTypeOK, TasksInv PROVE CompletionOwed
  <2> SUFFICES ASSUME NEW t \in Tasks
               PROVE  /\ invoked[t] <= 1
                      /\ Removed(t) => invoked[t] = (IF t \in Silent THEN 0 ELSE 1)
                      /\ t \in Silent => invoked[t] = 0
    BY DEF CompletionOwed
  <2>1. LifeCycle(t)
    BY <1>1 DEF TasksInv
  <2>2. CASE ~Started(t)
    BY <2>1, <2>2 DEF LifeCycle, Removed
  <2>3. CASE Started(t)
    <3>1. PICK c \in Cause : path[t][c] # "none"
      BY <2>3 DEF Started
    <3>2. path[t][c] \in {"teardown", "handling", "ended", "expired"}
      BY <1>1, <3>1 DEF TasksTypeOK, Paths
    <3> QED BY <2>1, <3>2 DEF LifeCycle, Removed, Active, Over
  <2> QED BY <2>2, <2>3
<1> QED BY <1>1, LifeCycleHolds, PTL

(* The settling flag of an open entry and its owner come from the life cycle. *)
LEMMA OwnedBySomeone ==
  ASSUME TasksTypeOK, TasksInv
  PROVE  SettlingHasOwner
<1> SUFFICES ASSUME NEW t \in entries
             PROVE  t \in settling <=> \E c \in Cause : Active(t, c)
  BY DEF SettlingHasOwner
<1>1. t \in Tasks /\ LifeCycle(t)
  BY DEF TasksInv, TasksTypeOK
<1>2. ASSUME NEW c \in Cause, path[t][c] # "none" PROVE Active(t, c)
  BY <1>1, <1>2 DEF LifeCycle, TasksTypeOK, Paths, Active, Over
<1> QED BY <1>1, <1>2 DEF LifeCycle, Started, Active

(* An entry is marked settling exactly when one of the callers has it.      *)
THEOREM SettlingHasOwnerHolds == TasksSafety => []SettlingHasOwner
<1>1. TasksTypeOK /\ TasksInv => SettlingHasOwner
  BY OwnedBySomeone
<1> QED BY <1>1, LifeCycleHolds, PTL

(* After disposal every open entry is being torn down.                      *)
THEOREM DisposedIsClosingHolds == TasksSafety => []DisposedIsClosing
BY LifeCycleHolds, PTL DEF TasksInv

(* cancel(tag) addresses one task: register() refuses a tag as long as the  *)
(* entry that carries it is there, settling or not                          *)
(* (background-task-supervisor.ts:72, 116).                                 *)
THEOREM TagsUniqueHolds == TasksSafety => []TagsUnique
<1>1. TasksInit => TagsUnique
  BY DEF TasksInit, TagsUnique
<1>2. ASSUME TagsUnique, [RegistryStep]_taskVars PROVE TagsUnique'
  <2>1. ASSUME NEW t \in Tasks, Register(t) PROVE TagsUnique'
    BY <1>2, <2>1 DEF Register, TagActive, TagsUnique
  <2>2. ASSUME NEW t \in Tasks, CancelBegin(t) \/ StopOrphan(t) \/ LateHandlerReturn(t)
        PROVE  entries' = entries
    BY <2>2 DEF CancelBegin, StopOrphan, LateHandlerReturn
  <2>3. ASSUME NEW t \in Tasks, Settle(t) PROVE entries' \subseteq entries
    BY <2>3 DEF Settle, BeginComplete
  <2>4. ASSUME NEW t \in Tasks, NEW c \in Cause,
               TeardownDone(t, c) \/ HandlerDone(t, c) \/ HandlerTimeout(t, c)
        PROVE  entries' \subseteq entries
    BY <2>4 DEF TeardownDone, BeginComplete, HandlerDone, HandlerTimeout, EndComplete
  <2>5. ASSUME DisposeAll \/ UNCHANGED taskVars PROVE entries' = entries
    BY <2>5 DEF DisposeAll, taskVars
  <2>6. ASSUME entries' \subseteq entries PROVE TagsUnique'
    BY <1>2, <2>6 DEF TagsUnique
  <2> QED BY <1>2, <2>1, <2>2, <2>3, <2>4, <2>5, <2>6 DEF RegistryStep, TaskStep
<1> QED BY <1>1, <1>2, NextIsRegistryStep, PTL DEF TasksSafety

(* Together they are the one life of every task                             *)
(* (background-task-supervisor.ts:72, 181-237).                             *)
THEOREM TaskLifecycleHolds == TasksSafety => []TaskLifecycle
BY OneCompletionPathHolds, CompletionOwedHolds, SettlingHasOwnerHolds,
   DisposedIsClosingHolds, TagsUniqueHolds, PTL DEF TaskLifecycle

-----------------------------------------------------------------------------
(* The registry implements the ledger (safety part).                        *)

(* An operation that disturbs the stage of one task updates it there only.  *)
LEMMA StageUpdate ==
  ASSUME NEW t \in Tasks, NEW new, StageOf(t)' = new,
         \A u \in Tasks : u # t => StageOf(u)' = StageOf(u)
  PROVE  [u \in Tasks |-> StageOf(u)'] =
           [[u \in Tasks |-> StageOf(u)] EXCEPT ![t] = new]
OBVIOUS

(* Registering opens the task in the ledger, or is invisible there.         *)
LEMMA RegisterOpens ==
  ASSUME TasksTypeOK, TasksInv, NEW t \in Tasks, Register(t)
  PROVE  [Ledger!LedgerNext]_(Ledger!ledgerVars)
<1> USE DEF TasksTypeOK, TasksInv
<1>1. LifeCycle(t) /\ ~Started(t) /\ invoked[t] = 0 /\ t \notin entries
  BY DEF Register, LifeCycle
<1>2. \A u \in Tasks : u # t => StageOf(u)' = StageOf(u)
  BY DEF Register, StageOf, Started
<1>3. disposed' = disposed
  BY DEF Register
<1>4. StageOf(t) = "absent"
  BY <1>1 DEF StageOf
<1>5. CASE t \in entries'
  <2>1. ~disposed
    BY <1>1, <1>5 DEF Register
  <2>2. StageOf(t)' = "open"
    BY <1>1, <1>5 DEF Register, StageOf
  <2>3. Ledger!OpenTask(t)
    BY <1>2, <1>3, <1>4, <2>1, <2>2, StageUpdate DEF Ledger!OpenTask
  <2> QED BY <2>3 DEF Ledger!LedgerNext
<1>6. CASE t \notin entries'
  <2>1. StageOf(t)' = "absent"
    BY <1>1, <1>6 DEF Register, StageOf, Started
  <2>2. \A u \in Tasks : StageOf(u)' = StageOf(u)
    BY <1>2, <1>4, <2>1
  <2> QED BY <1>3, <2>2 DEF Ledger!ledgerVars
<1> QED BY <1>5, <1>6

(* Beginning the completion of an open, untold task reports it, or closes   *)
(* it if it is silent.                                                      *)
LEMMA BeginCompleteReports ==
  ASSUME TasksTypeOK, NEW t \in Tasks, NEW c \in Cause, BeginComplete(t, c),
         t \in entries, invoked[t] = 0, disposed' = disposed
  PROVE  [Ledger!LedgerNext]_(Ledger!ledgerVars)
<1> USE DEF TasksTypeOK
<1>1. \A u \in Tasks : u # t => StageOf(u)' = StageOf(u)
  BY DEF BeginComplete, StageOf, Started
<1>2. StageOf(t) = "open"
  BY DEF StageOf
<1>3. CASE t \in Silent
  <2>1. path'[t][c] = "ended" /\ t \notin entries'
    BY <1>3 DEF BeginComplete
  <2>2. StageOf(t)' = "closed"
    BY <2>1 DEF StageOf, Started
  <2>3. Ledger!CloseTask(t)
    BY <1>1, <1>2, <1>3, <2>2, StageUpdate DEF Ledger!CloseTask
  <2> QED BY <2>3 DEF Ledger!LedgerNext
<1>4. CASE t \notin Silent
  <2>1. invoked'[t] = 1 /\ t \in entries'
    BY <1>4 DEF BeginComplete
  <2>2. StageOf(t)' = "reported"
    BY <2>1 DEF StageOf
  <2>3. Ledger!ReportTask(t)
    BY <1>1, <1>2, <1>4, <2>2, StageUpdate DEF Ledger!ReportTask
  <2> QED BY <2>3 DEF Ledger!LedgerNext
<1> QED BY <1>3, <1>4

(* Ending the completion of a reported task closes it.                      *)
LEMMA EndCompleteCloses ==
  ASSUME TasksTypeOK, TasksInv, NEW t \in Tasks, NEW c \in Cause,
         path[t][c] = "handling",
         NEW how \in {"ended", "expired"}, EndComplete(t, c, how),
         invoked' = invoked, disposed' = disposed
  PROVE  [Ledger!LedgerNext]_(Ledger!ledgerVars)
<1> USE DEF TasksTypeOK, TasksInv
<1>1. \A u \in Tasks : u # t => StageOf(u)' = StageOf(u)
  BY DEF EndComplete, StageOf, Started
<1>2. t \in entries /\ t \notin Silent /\ invoked[t] = 1
  BY DEF LifeCycle, Active
<1>3. StageOf(t) = "reported"
  BY <1>2 DEF StageOf
<1>4. path'[t][c] = how /\ t \notin entries'
  BY DEF EndComplete
<1>5. StageOf(t)' = "closed"
  BY <1>4 DEF StageOf, Started
<1>6. Ledger!CloseTask(t)
  BY <1>1, <1>2, <1>3, <1>5, StageUpdate DEF Ledger!CloseTask
<1> QED BY <1>6 DEF Ledger!LedgerNext

(* Operations the ledger does not see leave every stage as it is.           *)
LEMMA StagesUnchanged ==
  ASSUME \A t \in Tasks : StageOf(t)' = StageOf(t), disposed' = disposed
  PROVE  UNCHANGED Ledger!ledgerVars
BY DEF Ledger!ledgerVars

(* Every operation of the registry is a step of the ledger, or a stutter.   *)
LEMMA RegistryStepIsLedgerStep ==
  TasksTypeOK /\ TasksInv /\ [RegistryStep]_taskVars
    => [Ledger!LedgerNext]_(Ledger!ledgerVars)
<1> SUFFICES ASSUME TasksTypeOK, TasksInv, [RegistryStep]_taskVars
             PROVE  [Ledger!LedgerNext]_(Ledger!ledgerVars)
  OBVIOUS
<1> DEFINE Step == [Ledger!LedgerNext]_(Ledger!ledgerVars)
<1>1. ASSUME NEW t \in Tasks, Register(t) PROVE Step
  BY <1>1, RegisterOpens
<1>2. ASSUME NEW t \in Tasks, CancelBegin(t) PROVE Step
  <2>1. \A u \in Tasks : u # t => StageOf(u)' = StageOf(u)
    BY <1>2 DEF CancelBegin, StageOf, Started, TasksTypeOK
  <2>2. StageOf(t)' = StageOf(t)
    BY <1>2 DEF CancelBegin, MayCancel, StageOf
  <2>3. disposed' = disposed
    BY <1>2 DEF CancelBegin
  <2> QED BY <2>1, <2>2, <2>3, StagesUnchanged
<1>3. ASSUME NEW t \in Tasks, StopOrphan(t) PROVE Step
  BY <1>3, StagesUnchanged DEF StopOrphan, StageOf, Started
<1>4. ASSUME NEW t \in Tasks, Settle(t) PROVE Step
  <2>1. CASE MaySettle(t)
    <3>1. t \in entries /\ invoked[t] = 0
      BY <2>1 DEF MaySettle, TasksInv, LifeCycle
    <3>2. BeginComplete(t, "done") /\ disposed' = disposed
      BY <1>4, <2>1 DEF Settle
    <3> QED BY <3>1, <3>2, BeginCompleteReports DEF Cause
  <2>2. CASE ~MaySettle(t)
    BY <1>4, <2>2, StagesUnchanged DEF Settle, StageOf, Started
  <2> QED BY <2>1, <2>2
<1>5. ASSUME NEW t \in Tasks, LateHandlerReturn(t) PROVE Step
  BY <1>5, StagesUnchanged DEF LateHandlerReturn, StageOf, Started
<1>6. ASSUME NEW t \in Tasks, NEW c \in Cause, TeardownDone(t, c) PROVE Step
  <2>1. t \in entries /\ invoked[t] = 0
    BY <1>6 DEF TeardownDone, TasksInv, LifeCycle, Active
  <2> QED BY <1>6, <2>1, BeginCompleteReports DEF TeardownDone
<1>7. ASSUME NEW t \in Tasks, NEW c \in Cause, HandlerDone(t, c) PROVE Step
  BY <1>7, EndCompleteCloses DEF HandlerDone
<1>8. ASSUME NEW t \in Tasks, NEW c \in Cause, HandlerTimeout(t, c) PROVE Step
  BY <1>8, EndCompleteCloses DEF HandlerTimeout
<1>9. ASSUME DisposeAll PROVE Step
  <2>1. ASSUME NEW t \in Tasks PROVE StageOf(t)' = StageOf(t)
    <3>1. CASE t \in entries
      BY <1>9, <3>1 DEF DisposeAll, StageOf
    <3>2. CASE t \notin entries
      BY <1>9, <3>2 DEF DisposeAll, Disposable, StageOf, Started
    <3> QED BY <3>1, <3>2
  <2>2. Ledger!Seal
    BY <1>9, <2>1 DEF DisposeAll, Ledger!Seal
  <2> QED BY <2>2 DEF Ledger!LedgerNext
<1>10. CASE UNCHANGED taskVars
  BY <1>10, StagesUnchanged DEF taskVars, StageOf, Started
<1>11. CASE RegistryStep
  BY <1>1, <1>2, <1>3, <1>4, <1>5, <1>6, <1>7, <1>8, <1>9, <1>11
     DEF RegistryStep, TaskStep
<1> QED BY <1>10, <1>11

(* The registry starts as an empty ledger.                                  *)
LEMMA TasksInitIsLedgerInit == TasksInit => Ledger!LedgerInit
BY DEF TasksInit, NoPath, StageOf, Started, Ledger!LedgerInit

(* The registry implements the ledger: a task is opened once, reported once *)
(* and closed for good, and nothing is opened after disposal.               *)
THEOREM ImplementsLedgerSafety == TasksSafety => Ledger!LedgerSafety
<1>1. TasksTypeOK /\ TasksInv /\ [TasksNext]_taskVars
        => [Ledger!LedgerNext]_(Ledger!ledgerVars)
  BY RegistryStepIsLedgerStep, NextIsRegistryStep
<1> QED BY <1>1, TasksInitIsLedgerInit, LifeCycleHolds, PTL
        DEF TasksSafety, Ledger!LedgerSafety

-----------------------------------------------------------------------------
(***************************************************************************)
(* The run.                                                                *)
(***************************************************************************)
(* The run drives its registry by registry steps only. *)
LEMMA RunStepIsRegistryStep == [Next]_vars => [RegistryStep]_taskVars
<1> SUFFICES ASSUME [Next]_vars PROVE [RegistryStep]_taskVars
  OBVIOUS
<1> USE DEF KeepRunning, Finish
<1>1. CASE LoopStep
  <2>1. ASSUME NEW ordinary \in BOOLEAN, NEW calls \in 0..MaxTerminal,
               ToolTurn(ordinary, calls)
        PROVE  [RegistryStep]_taskVars
    BY <2>1 DEF ToolTurn
  <2>2. CASE BatchHookDone
    BY <2>2 DEF BatchHookDone
  <2>3. CASE OrdinaryDone
    BY <2>3 DEF OrdinaryDone
  <2>4. CASE OrdinaryAbandoned
    BY <2>4 DEF OrdinaryAbandoned
  <2>5. CASE TerminalCall
    BY <2>5 DEF TerminalCall
  <2>6. CASE PreHookDone
    BY <2>6 DEF PreHookDone
  <2>7. CASE PostHookDenies
    BY <2>7 DEF PostHookDenies
  <2>8. CASE BeginSubmit
    BY <2>8 DEF BeginSubmit
  <2>9. CASE SubmitRejected
    BY <2>9 DEF SubmitRejected
  <2>10. CASE SubmitAccepted
    BY <2>10 DEF SubmitAccepted
  <2>11. CASE VerdictSettles
    BY <2>11 DEF VerdictSettles
  <2>12. CASE BatchContinues
    BY <2>12 DEF BatchContinues
  <2>13. CASE RestHookDone
    BY <2>13 DEF RestHookDone
  <2>14. CASE Wake
    BY <2>14 DEF Wake
  <2>15. CASE Park
    BY <2>15 DEF Park
  <2>16. CASE StartTurn
    BY <2>16 DEF StartTurn
  <2>17. CASE BareText
    BY <2>17 DEF BareText
  <2>18. CASE BoundaryCancelled
    BY <2>18 DEF BoundaryCancelled, RegistryStep
  <2>19. CASE BoundaryCompletes
    BY <2>19 DEF BoundaryCompletes, RegistryStep
  <2>20. CASE TurnBudgetSpent
    BY <2>20 DEF TurnBudgetSpent, RegistryStep
  <2>21. CASE TurnFails
    BY <2>21 DEF TurnFails, RegistryStep
  <2>22. CASE TextExit
    BY <2>22 DEF TextExit, RegistryStep
  <2>23. CASE BatchEndsRun
    BY <2>23 DEF BatchEndsRun, RegistryStep
  <2> QED
    BY <2>1, <2>2, <2>3, <2>4, <2>5, <2>6, <2>7, <2>8, <2>9, <2>10, <2>11, <2>12, <2>13, <2>14, <2>15, <2>16, <2>17, <2>18, <2>19, <2>20, <2>21, <2>22, <2>23,
       <1>1 DEF LoopStep, LoopAlone
<1>2. CASE HostStep
  BY <1>2 DEF HostStep, Steer, Publish, Interrupt, StragglersEnd
<1>3. CASE \E t \in Tasks : ToolRegisters(t) \/ Background(t)
  BY <1>3 DEF ToolRegisters, Background, RegistryStep
<1>4. CASE UNCHANGED vars
  BY <1>4 DEF vars
<1> QED BY <1>1, <1>2, <1>3, <1>4 DEF Next

-----------------------------------------------------------------------------
(* Every step keeps the types; a turn commits within the budget because it  *)
(* was started within it.                                                   *)
LEMMA RunTypeStep ==
  TypeOK /\ BudgetKept /\ [Next]_vars => TypeOK'
<1> SUFFICES ASSUME TypeOK, BudgetKept, [Next]_vars
             PROVE  TypeOK'
  OBVIOUS
<1> USE TurnsAssumption DEF RunTypeOK, KeepRunning, Awaits, SteerFates, NoteFates,
            Outcomes
<1>0. TasksTypeOK'
  BY RunStepIsRegistryStep, TasksTypeStep DEF TypeOK
<1>1. RunTypeOK /\ changes \in Nat
  BY DEF TypeOK, TasksTypeOK
<1>2. ASSUME BoundaryCancelled PROVE RunTypeOK'
  BY <1>1, <1>2 DEF BoundaryCancelled, Finish, Move
<1>3. ASSUME BoundaryCompletes PROVE RunTypeOK'
  BY <1>1, <1>3 DEF BoundaryCompletes, Finish, Move
<1>4. ASSUME Park PROVE RunTypeOK'
  BY <1>1, <1>4 DEF Park
<1>5. ASSUME TurnBudgetSpent PROVE RunTypeOK'
  BY <1>1, <1>5 DEF TurnBudgetSpent, Finish, Move, DrainedSteers, DrainedNotes
<1>6. ASSUME StartTurn PROVE RunTypeOK'
  BY <1>1, <1>6 DEF StartTurn, BudgetLeft, Move, DrainedSteers, DrainedNotes, MustPrompt
<1>7. ASSUME Wake PROVE RunTypeOK'
  BY <1>1, <1>7 DEF Wake
<1>8. ASSUME TurnFails PROVE RunTypeOK'
  BY <1>1, <1>8 DEF TurnFails, Finish, Move
<1>9. ASSUME TextExit PROVE RunTypeOK'
  BY <1>1, <1>9 DEF TextExit, CommitTurn, Move, SeenSteers, Finish, BudgetKept
<1>10. ASSUME BareText PROVE RunTypeOK'
  BY <1>1, <1>10 DEF BareText, CommitTurn, Move, SeenSteers, BudgetKept
<1>11. ASSUME RestHookDone PROVE RunTypeOK'
  BY <1>1, <1>11 DEF RestHookDone
<1>12. ASSUME BatchHookDone PROVE RunTypeOK'
  BY <1>1, <1>12 DEF BatchHookDone
<1>13. ASSUME OrdinaryDone PROVE RunTypeOK'
  BY <1>1, <1>13 DEF OrdinaryDone
<1>14. ASSUME OrdinaryAbandoned PROVE RunTypeOK'
  BY <1>1, <1>14 DEF OrdinaryAbandoned
<1>15. ASSUME TerminalCall PROVE RunTypeOK'
  BY <1>1, <1>15 DEF TerminalCall
<1>16. ASSUME PreHookDone PROVE RunTypeOK'
  BY <1>1, <1>16 DEF PreHookDone
<1>17. ASSUME PostHookDenies PROVE RunTypeOK'
  BY <1>1, <1>17 DEF PostHookDenies
<1>18. ASSUME BeginSubmit PROVE RunTypeOK'
  BY <1>1, <1>18 DEF BeginSubmit
<1>19. ASSUME SubmitRejected PROVE RunTypeOK'
  BY <1>1, <1>19 DEF SubmitRejected
<1>20. ASSUME SubmitAccepted PROVE RunTypeOK'
  BY <1>1, <1>20 DEF SubmitAccepted
<1>21. ASSUME VerdictSettles PROVE RunTypeOK'
  BY <1>1, <1>21 DEF VerdictSettles
<1>22. ASSUME BatchEndsRun PROVE RunTypeOK'
  BY <1>1, <1>22 DEF BatchEndsRun, BatchSettled, Finish, Move
<1>23. ASSUME BatchContinues PROVE RunTypeOK'
  BY <1>1, <1>23 DEF BatchContinues, BatchSettled, NoBatch
<1>24. ASSUME Interrupt PROVE RunTypeOK'
  BY <1>1, <1>24 DEF Interrupt
<1>25. ASSUME StragglersEnd PROVE RunTypeOK'
  BY <1>1, <1>25, ZenonT(30) DEF StragglersEnd
<1>26. ASSUME NEW ordinary \in BOOLEAN, NEW calls \in 0..MaxTerminal,
            ToolTurn(ordinary, calls)
      PROVE  RunTypeOK'
  BY <1>1, <1>26 DEF ToolTurn, CommitTurn, SeenSteers, Move, BudgetKept
<1>27. ASSUME NEW s \in Steers, Steer(s) PROVE RunTypeOK'
  BY <1>1, <1>27 DEF Steer
<1>28. ASSUME NEW m \in Notes, Publish(m) PROVE RunTypeOK'
  BY <1>1, <1>28 DEF Publish
<1>29. ASSUME UNCHANGED runVars PROVE RunTypeOK'
  BY <1>1, <1>29 DEF runVars
<1>30. RunTypeOK'
  BY <1>2, <1>3, <1>4, <1>5, <1>6, <1>7, <1>8, <1>9, <1>10, <1>11, <1>12, <1>13, <1>14, <1>15, <1>16, <1>17, <1>18, <1>19, <1>20, <1>21, <1>22, <1>23, <1>24, <1>25, <1>26, <1>27, <1>28, <1>29
     DEF Next, LoopStep, LoopAlone, HostStep, ToolRegisters, Background, vars
<1> QED BY <1>0, <1>30 DEF TypeOK

-----------------------------------------------------------------------------
(* The loop's control: which await the loop is at, the latch, the batch and *)
(* the outcome constrain each other.                                        *)
Control == /\ EndsTogether
           /\ BudgetKept
           /\ ToolsAreAccounted
           /\ SubmissionShape
           /\ TextHasNoTerminal

(* A task step can only end by itself what disposal did not take over, and  *)
(* never undoes the disposal.                                               *)
LEMMA TaskStepsKeepDisposal ==
  ASSUME NEW t \in Tasks, Register(t) \/ CancelBegin(t) \/ TaskStep(t)
  PROVE  disposed' = disposed
BY DEF Register, CancelBegin, TaskStep, StopOrphan, Settle, LateHandlerReturn,
       TeardownDone, HandlerDone, HandlerTimeout

(* Every step keeps the control invariant. *)
LEMMA ControlStep ==
  TypeOK /\ Control /\ [Next]_vars => Control'
<1> SUFFICES ASSUME TypeOK, Control, [Next]_vars
             PROVE  Control'
  OBVIOUS
<1> USE DEF Control, EndsTogether, BudgetKept, ToolsAreAccounted,
            SubmissionShape, TextHasNoTerminal, KeepRunning, finished
<1>1. /\ batch \in [ordinary : BOOLEAN, calls : 0..MaxTerminal, result : BOOLEAN]
      /\ MaxTerminal \in Nat
      /\ aborted \in BOOLEAN /\ finishing \in BOOLEAN
      /\ accepted \in BOOLEAN /\ executing \in BOOLEAN
      /\ disposed \in BOOLEAN
  BY TurnsAssumption DEF TypeOK, RunTypeOK, TasksTypeOK
<1>2. ASSUME BoundaryCancelled PROVE Control'
  BY <1>1, <1>2 DEF BoundaryCancelled, Finish, DisposeAll, taskVars
<1>3. ASSUME BoundaryCompletes PROVE Control'
  BY <1>1, <1>3 DEF BoundaryCompletes, Finish, DisposeAll, taskVars
<1>4. ASSUME Park PROVE Control'
  BY <1>1, <1>4 DEF Park, taskVars
<1>5. ASSUME TurnBudgetSpent PROVE Control'
  BY <1>1, <1>5 DEF TurnBudgetSpent, Finish, DisposeAll, taskVars
<1>6. ASSUME StartTurn PROVE Control'
  BY <1>1, <1>6 DEF StartTurn, BudgetLeft, MustPrompt, taskVars
<1>7. ASSUME Wake PROVE Control'
  BY <1>1, <1>7 DEF Wake, taskVars
<1>8. ASSUME TurnFails PROVE Control'
  BY <1>1, <1>8 DEF TurnFails, Finish, DisposeAll, taskVars
<1>9. ASSUME TextExit PROVE Control'
  BY <1>1, <1>9 DEF TextExit, CommitTurn, Finish, DisposeAll, taskVars
<1>10. ASSUME BareText PROVE Control'
  BY <1>1, <1>10 DEF BareText, CommitTurn, taskVars
<1>11. ASSUME RestHookDone PROVE Control'
  BY <1>1, <1>11 DEF RestHookDone, taskVars
<1>12. ASSUME BatchHookDone PROVE Control'
  BY <1>1, <1>12 DEF BatchHookDone, taskVars
<1>13. ASSUME OrdinaryDone PROVE Control'
  BY <1>1, <1>13 DEF OrdinaryDone, taskVars
<1>14. ASSUME OrdinaryAbandoned PROVE Control'
  BY <1>1, <1>14 DEF OrdinaryAbandoned, taskVars
<1>15. ASSUME TerminalCall PROVE Control'
  BY <1>1, <1>15 DEF TerminalCall, taskVars
<1>16. ASSUME PreHookDone PROVE Control'
  BY <1>1, <1>16 DEF PreHookDone, Blocked, taskVars
<1>17. ASSUME PostHookDenies PROVE Control'
  BY <1>1, <1>17 DEF PostHookDenies, taskVars
<1>18. ASSUME BeginSubmit PROVE Control'
  BY <1>1, <1>18 DEF BeginSubmit, taskVars
<1>19. ASSUME SubmitRejected PROVE Control'
  BY <1>1, <1>19 DEF SubmitRejected, taskVars
<1>20. ASSUME SubmitAccepted PROVE Control'
  BY <1>1, <1>20 DEF SubmitAccepted, taskVars
<1>21. ASSUME VerdictSettles PROVE Control'
  BY <1>1, <1>21 DEF VerdictSettles, taskVars
<1>22. ASSUME BatchEndsRun PROVE Control'
  BY <1>1, <1>22 DEF BatchEndsRun, BatchSettled, Finish, DisposeAll, taskVars
<1>23. ASSUME BatchContinues PROVE Control'
  BY <1>1, <1>23 DEF BatchContinues, BatchSettled, NoBatch, taskVars
<1>24. ASSUME Interrupt PROVE Control'
  BY <1>1, <1>24 DEF Interrupt, taskVars
<1>25. ASSUME StragglersEnd PROVE Control'
  BY <1>1, <1>25 DEF StragglersEnd, taskVars
<1>26. ASSUME NEW ordinary \in BOOLEAN, NEW calls \in 0..MaxTerminal,
            ToolTurn(ordinary, calls)
      PROVE  Control'
  BY <1>1, <1>26 DEF ToolTurn, CommitTurn, taskVars
<1>27. ASSUME NEW s \in Steers, Steer(s) PROVE Control'
  BY <1>1, <1>27 DEF Steer, taskVars
<1>28. ASSUME NEW m \in Notes, Publish(m) PROVE Control'
  BY <1>1, <1>28 DEF Publish, taskVars
<1>29. ASSUME NEW t \in Tasks, ToolRegisters(t) \/ Background(t)
      PROVE  Control'
  BY <1>1, <1>29, TaskStepsKeepDisposal DEF ToolRegisters, Background, runVars
<1>30. ASSUME UNCHANGED vars PROVE Control'
  BY <1>1, <1>30 DEF vars, runVars, taskVars
<1> QED
  BY <1>2, <1>3, <1>4, <1>5, <1>6, <1>7, <1>8, <1>9, <1>10, <1>11, <1>12, <1>13, <1>14, <1>15, <1>16, <1>17, <1>18, <1>19, <1>20, <1>21, <1>22, <1>23, <1>24, <1>25, <1>26, <1>27, <1>28, <1>29, <1>30
     DEF Next, LoopStep, LoopAlone, HostStep

-----------------------------------------------------------------------------
(* A drained message waits for the turn that commits it, nowhere else. *)
LEMMA MessagesStep ==
  TypeOK /\ Control /\ NothingUnseen /\ [Next]_vars => NothingUnseen'
<1> SUFFICES ASSUME TypeOK, Control, NothingUnseen, [Next]_vars
             PROVE  NothingUnseen'
  OBVIOUS
<1> USE DEF NothingUnseen, KeepRunning, finished
<1>1. /\ steer \in [Steers -> SteerFates]
      /\ note \in [Notes -> NoteFates]
      /\ finished <=> pc = "done"
  BY DEF TypeOK, RunTypeOK, Control, EndsTogether
<1>2. ASSUME NEW o \in Outcomes, NEW queue, Finish(o, queue)
      PROVE  NothingUnseen'
  BY <1>2 DEF Finish, Outcomes
<1>3. ASSUME Park PROVE NothingUnseen'
  BY <1>1, <1>3 DEF Park
<1>4. ASSUME StartTurn PROVE NothingUnseen'
  BY <1>1, <1>4 DEF StartTurn, BudgetLeft, Move, DrainedSteers, DrainedNotes, MustPrompt
<1>5. ASSUME Wake PROVE NothingUnseen'
  BY <1>1, <1>5 DEF Wake
<1>6. ASSUME BareText PROVE NothingUnseen'
  BY <1>1, <1>6 DEF BareText, CommitTurn, Move, SeenSteers
<1>7. ASSUME RestHookDone PROVE NothingUnseen'
  BY <1>1, <1>7 DEF RestHookDone
<1>8. ASSUME BatchHookDone PROVE NothingUnseen'
  BY <1>1, <1>8 DEF BatchHookDone
<1>9. ASSUME OrdinaryDone PROVE NothingUnseen'
  BY <1>1, <1>9 DEF OrdinaryDone
<1>10. ASSUME OrdinaryAbandoned PROVE NothingUnseen'
  BY <1>1, <1>10 DEF OrdinaryAbandoned
<1>11. ASSUME TerminalCall PROVE NothingUnseen'
  BY <1>1, <1>11 DEF TerminalCall
<1>12. ASSUME PreHookDone PROVE NothingUnseen'
  BY <1>1, <1>12 DEF PreHookDone
<1>13. ASSUME PostHookDenies PROVE NothingUnseen'
  BY <1>1, <1>13 DEF PostHookDenies
<1>14. ASSUME BeginSubmit PROVE NothingUnseen'
  BY <1>1, <1>14 DEF BeginSubmit
<1>15. ASSUME SubmitRejected PROVE NothingUnseen'
  BY <1>1, <1>15 DEF SubmitRejected
<1>16. ASSUME SubmitAccepted PROVE NothingUnseen'
  BY <1>1, <1>16 DEF SubmitAccepted
<1>17. ASSUME VerdictSettles PROVE NothingUnseen'
  BY <1>1, <1>17 DEF VerdictSettles
<1>18. ASSUME BatchContinues PROVE NothingUnseen'
  BY <1>1, <1>18 DEF BatchContinues, BatchSettled, NoBatch
<1>19. ASSUME Interrupt PROVE NothingUnseen'
  BY <1>1, <1>19 DEF Interrupt
<1>20. ASSUME StragglersEnd PROVE NothingUnseen'
  BY <1>1, <1>20 DEF StragglersEnd
<1>21. ASSUME NEW ordinary \in BOOLEAN, NEW calls \in 0..MaxTerminal,
            ToolTurn(ordinary, calls)
      PROVE  NothingUnseen'
  BY <1>1, <1>21 DEF ToolTurn, CommitTurn, SeenSteers, Move
<1>22. ASSUME NEW s \in Steers, Steer(s) PROVE NothingUnseen'
  BY <1>1, <1>22 DEF Steer
<1>23. ASSUME NEW m \in Notes, Publish(m) PROVE NothingUnseen'
  BY <1>1, <1>23 DEF Publish
<1>24. ASSUME UNCHANGED runVars PROVE NothingUnseen'
  BY <1>1, <1>24 DEF runVars
<1>25. CASE BoundaryCancelled \/ BoundaryCompletes \/ TurnBudgetSpent
            \/ TurnFails \/ TextExit \/ BatchEndsRun
  BY <1>2, <1>25 DEF BoundaryCancelled, BoundaryCompletes, TurnBudgetSpent,
     TurnFails, TextExit, BatchEndsRun, Outcomes
<1> QED
  BY <1>3, <1>4, <1>5, <1>6, <1>7, <1>8, <1>9, <1>10, <1>11, <1>12, <1>13, <1>14, <1>15, <1>16, <1>17, <1>18, <1>19, <1>20, <1>21, <1>22, <1>23, <1>24, <1>25
     DEF Next, LoopStep, LoopAlone, HostStep, ToolRegisters, Background, vars

-----------------------------------------------------------------------------
(* An empty registry has nothing left to report: unless a tool registers a  *)
(* task in a live run, it stays empty and no task is newly reported.        *)
LEMMA EmptyStaysQuiet ==
  ASSUME TasksTypeOK, TasksInv, entries = {},
         RegistryStep \/ UNCHANGED taskVars,
         disposed \/ \A t \in Tasks : ~Register(t)
  PROVE  /\ entries' = {}
         /\ \A u \in Tasks : ReportedInTime(u)' => ReportedInTime(u)
<1> USE DEF ReportedInTime
<1>1. ASSUME NEW t \in Tasks, NEW c \in Cause
      PROVE  path[t][c] \notin {"teardown", "handling"}
  BY DEF TasksInv, LifeCycle, Active
<1>2. ASSUME NEW t \in Tasks, Register(t)
      PROVE  entries' = {} /\ path' = path
  BY <1>2 DEF Register
<1>3. ASSUME NEW t \in Tasks, StopOrphan(t) \/ Settle(t) \/ LateHandlerReturn(t)
      PROVE  entries' = {} /\ path' = path
  BY <1>3 DEF StopOrphan, Settle, MaySettle, LateHandlerReturn
<1>4. ASSUME NEW t \in Tasks PROVE ~CancelBegin(t)
  BY DEF CancelBegin, MayCancel
<1>5. ASSUME NEW t \in Tasks, NEW c \in Cause,
             TeardownDone(t, c) \/ HandlerDone(t, c) \/ HandlerTimeout(t, c)
      PROVE  FALSE
  BY <1>1, <1>5 DEF TeardownDone, HandlerDone, HandlerTimeout
<1>6. ASSUME DisposeAll PROVE entries' = {} /\ \A u \in Tasks : path'[u] = path[u]
  BY <1>6 DEF DisposeAll, Disposable
<1>7. CASE UNCHANGED taskVars
  BY <1>7 DEF taskVars
<1> QED BY <1>2, <1>3, <1>4, <1>5, <1>6, <1>7 DEF RegistryStep, TaskStep

(* Nothing but register() hands a new task to the registry. *)
LEMMA BackgroundDoesNotRegister ==
  ASSUME NEW t \in Tasks, Background(t), NEW u \in Tasks
  PROVE  ~Register(u)
<1>1. asked' = asked
  BY DEF Background, CancelBegin, TaskStep, StopOrphan, Settle,
         LateHandlerReturn, TeardownDone, HandlerDone, HandlerTimeout
<1> QED BY <1>1 DEF Register


-----------------------------------------------------------------------------
(* From the gate to the finish nothing is opened and no report turns up: no *)
(* tool is running that could register a task, and a handler whose task was *)
(* reported in time has returned.                                           *)
LEMMA GateStep ==
  TypeOK /\ Control /\ TasksInv /\ GateHolds /\ [Next]_vars => GateHolds'
<1> SUFFICES ASSUME TypeOK, Control, TasksInv, GateHolds, [Next]_vars
             PROVE  GateHolds'
  OBVIOUS
<1> USE DEF GateHolds, KeepRunning
<1> DEFINE Passed == pc \in {"postHook", "submit", "verdict"} \/ batch.result
<1>1. /\ batch \in [ordinary : BOOLEAN, calls : 0..MaxTerminal, result : BOOLEAN]
      /\ note \in [Notes -> NoteFates]
  BY DEF TypeOK, RunTypeOK
<1>2. /\ batch.result => pc \in {"terminal", "preHook", "done"}
      /\ batch.result => accepted
      /\ executing => pc = "batch" \/ (pc \in {"terminal", "done"} /\ ~batch.result)
      /\ finished <=> pc = "done"
      /\ finished <=> disposed
  BY DEF Control, SubmissionShape, ToolsAreAccounted, EndsTogether
<1>3. ASSUME UNCHANGED taskVars, note' = note, Passed' => Passed
      PROVE  GateHolds'
  BY <1>3 DEF taskVars, ReportedInTime
<1>4. ASSUME BoundaryCancelled PROVE GateHolds'
  BY <1>1, <1>2, <1>4 DEF BoundaryCancelled, Finish
<1>5. ASSUME BoundaryCompletes PROVE GateHolds'
  BY <1>1, <1>2, <1>5 DEF BoundaryCompletes, Finish
<1>6. ASSUME TurnBudgetSpent PROVE GateHolds'
  BY <1>1, <1>2, <1>6 DEF TurnBudgetSpent, Finish
<1>7. ASSUME TurnFails PROVE GateHolds'
  BY <1>1, <1>2, <1>7 DEF TurnFails, Finish
<1>8. ASSUME TextExit PROVE GateHolds'
  BY <1>1, <1>2, <1>8 DEF TextExit, CommitTurn, Finish
<1>9. ASSUME Park PROVE GateHolds'
  BY <1>1, <1>2, <1>9 DEF Park
<1>10. ASSUME StartTurn PROVE GateHolds'
  BY <1>1, <1>2, <1>10 DEF StartTurn
<1>11. ASSUME Wake PROVE GateHolds'
  BY <1>1, <1>2, <1>11 DEF Wake
<1>12. ASSUME BareText PROVE GateHolds'
  BY <1>1, <1>2, <1>12 DEF BareText, CommitTurn
<1>13. ASSUME RestHookDone PROVE GateHolds'
  BY <1>1, <1>2, <1>13 DEF RestHookDone
<1>14. ASSUME BatchHookDone PROVE GateHolds'
  BY <1>1, <1>2, <1>14 DEF BatchHookDone
<1>15. ASSUME OrdinaryDone PROVE GateHolds'
  BY <1>1, <1>2, <1>15 DEF OrdinaryDone
<1>16. ASSUME OrdinaryAbandoned PROVE GateHolds'
  BY <1>1, <1>2, <1>16 DEF OrdinaryAbandoned
<1>17. ASSUME BatchContinues PROVE GateHolds'
  BY <1>1, <1>2, <1>17 DEF BatchContinues, BatchSettled, NoBatch
<1>18. ASSUME TerminalCall PROVE GateHolds'
  BY <1>1, <1>2, <1>3, <1>18 DEF TerminalCall
<1>19. ASSUME PostHookDenies PROVE GateHolds'
  BY <1>1, <1>2, <1>3, <1>19 DEF PostHookDenies
<1>20. ASSUME BeginSubmit PROVE GateHolds'
  BY <1>1, <1>2, <1>3, <1>20 DEF BeginSubmit
<1>21. ASSUME SubmitRejected PROVE GateHolds'
  BY <1>1, <1>2, <1>3, <1>21 DEF SubmitRejected
<1>22. ASSUME SubmitAccepted PROVE GateHolds'
  BY <1>1, <1>2, <1>3, <1>22 DEF SubmitAccepted
<1>23. ASSUME VerdictSettles PROVE GateHolds'
  BY <1>1, <1>2, <1>3, <1>23 DEF VerdictSettles
<1>24. ASSUME Interrupt PROVE GateHolds'
  BY <1>1, <1>2, <1>3, <1>24 DEF Interrupt
<1>25. ASSUME StragglersEnd PROVE GateHolds'
  BY <1>1, <1>2, <1>3, <1>25 DEF StragglersEnd
<1>26. ASSUME PreHookDone PROVE GateHolds'
  <2>1. CASE Blocked
    BY <1>1, <1>2, <1>3, <1>26, <2>1 DEF PreHookDone
  <2>2. CASE ~Blocked
    BY <1>1, <1>26, <2>2 DEF PreHookDone, Blocked, Inbox, taskVars, ReportedInTime
  <2> QED BY <2>1, <2>2
<1>27. ASSUME BatchEndsRun PROVE GateHolds'
  <2>1. RegistryStep /\ note' = note /\ batch' = batch /\ pc' = "done"
    BY <1>27 DEF BatchEndsRun, Finish, RegistryStep
  <2>2. CASE ~batch.result
    BY <2>1, <2>2
  <2>3. CASE batch.result
    <3>1. /\ entries = {}
          /\ \A t \in Tasks \cap Notes : ReportedInTime(t) => note[t] # "queued"
      BY <2>3
    <3>2. \A t \in Tasks : ~Register(t)
      BY <1>27 DEF BatchEndsRun, Finish, DisposeAll, Register, BatchSettled
    <3> QED BY <2>1, <3>1, <3>2, EmptyStaysQuiet DEF TypeOK
  <2> QED BY <2>2, <2>3
<1>28. ASSUME NEW ordinary \in BOOLEAN, NEW calls \in 0..MaxTerminal,
            ToolTurn(ordinary, calls)
      PROVE  GateHolds'
  BY <1>1, <1>2, <1>28 DEF ToolTurn, CommitTurn
<1>29. ASSUME NEW s \in Steers, Steer(s) PROVE GateHolds'
  BY <1>3, <1>29 DEF Steer
<1>30. ASSUME NEW m \in Notes, Publish(m) PROVE GateHolds'
  <2>1. /\ UNCHANGED taskVars /\ pc' = pc /\ batch' = batch
        /\ \A n \in Notes : note'[n] = "queued" => n = m \/ note[n] = "queued"
        /\ m \in Tasks => m \in inHandler
    BY <1>1, <1>30 DEF Publish
  <2>2. ASSUME m \in Tasks, ReportedInTime(m) PROVE FALSE
    BY <2>1, <2>2 DEF TasksInv, LifeCycle, ReportedInTime
  <2> QED BY <2>1, <2>2 DEF taskVars, ReportedInTime
<1>31. ASSUME NEW t \in Tasks, ToolRegisters(t) \/ Background(t)
      PROVE  GateHolds'
  <2>1. RegistryStep /\ UNCHANGED runVars
    BY <1>31 DEF ToolRegisters, Background, RegistryStep
  <2>2. CASE ~Passed
    BY <2>1, <2>2 DEF runVars
  <2>3. CASE Passed
    <3>1. /\ entries = {}
          /\ \A u \in Tasks \cap Notes : ReportedInTime(u) => note[u] # "queued"
      BY <2>3
    <3>2. disposed \/ ~executing
      BY <1>2, <2>3
    <3>3. CASE disposed
      BY <2>1, <3>1, <3>3, EmptyStaysQuiet DEF TypeOK, runVars
    <3>4. CASE ~executing
      <4>1. Background(t)
        BY <1>31, <3>4 DEF ToolRegisters
      <4>2. \A u \in Tasks : ~Register(u)
        BY <4>1, BackgroundDoesNotRegister
      <4> QED BY <2>1, <3>1, <4>2, EmptyStaysQuiet DEF TypeOK, runVars
    <3> QED BY <3>2, <3>3, <3>4
  <2> QED BY <2>2, <2>3
<1>32. ASSUME UNCHANGED vars PROVE GateHolds'
  BY <1>3, <1>32 DEF vars, runVars
<1> QED
  BY <1>4, <1>5, <1>6, <1>7, <1>8, <1>9, <1>10, <1>11, <1>12, <1>13, <1>14, <1>15, <1>16, <1>17, <1>18, <1>19, <1>20, <1>21, <1>22, <1>23, <1>24, <1>25, <1>26, <1>27, <1>28, <1>29, <1>30, <1>31, <1>32
     DEF Next, LoopStep, LoopAlone, HostStep

-----------------------------------------------------------------------------
(* A loop step other than the ones that finish leaves the outcome open.     *)
Finishes == \/ BoundaryCancelled \/ BoundaryCompletes \/ TurnBudgetSpent
            \/ TurnFails \/ TextExit \/ BatchEndsRun

LEMMA OnlyFinishingSetsTheOutcome ==
  ASSUME [Next]_vars, ~Finishes
  PROVE  outcome' = outcome
BY DEF Finishes, Next, LoopStep, LoopAlone, HostStep, KeepRunning, vars, runVars,
   Park, StartTurn, Wake, BareText, ToolTurn, RestHookDone, BatchHookDone,
   OrdinaryDone, OrdinaryAbandoned, TerminalCall, PreHookDone, PostHookDenies,
   BeginSubmit, SubmitRejected, SubmitAccepted, VerdictSettles, BatchContinues,
   Steer, Publish, Interrupt, StragglersEnd, ToolRegisters, Background

(* The loop itself is over once the run has finished. *)
LEMMA LoopIsOver ==
  ASSUME Control, finished
  PROVE  ~LoopStep /\ ~Finishes
<1>1. pc = "done"
  BY DEF Control, EndsTogether
<1> QED
  BY <1>1 DEF Finishes, LoopStep, LoopAlone, CommitTurn, BatchSettled,
     BoundaryCancelled, BoundaryCompletes, TurnBudgetSpent, TurnFails, TextExit,
     BatchEndsRun, Park, StartTurn, Wake, BareText, ToolTurn, RestHookDone,
     BatchHookDone, OrdinaryDone, OrdinaryAbandoned, TerminalCall, PreHookDone,
     PostHookDenies, BeginSubmit, SubmitRejected, SubmitAccepted,
     VerdictSettles, BatchContinues

(* What a step may still do after the end of the run. *)
AfterTheEnd ==
  /\ outcome' = outcome
  /\ entries' \subseteq entries
  /\ \A s \in Steers : \/ steer'[s] = steer[s]
                        \/ (steer[s] = "unsent" /\ steer'[s] = "refused")
  /\ \A n \in Notes : \/ note'[n] = note[n]
                       \/ (note[n] = "unsent" /\ note'[n] = "refused")

(* Late calls are turned away: a steer or a notification is refused, and a  *)
(* registration does not reach the registry.                                *)
LEMMA LateStep ==
  ASSUME TypeOK, Control, finished, [Next]_vars
  PROVE  AfterTheEnd
<1> USE DEF KeepRunning
<1>1. /\ disposed
      /\ steer \in [Steers -> SteerFates]
      /\ note \in [Notes -> NoteFates]
  BY DEF Control, EndsTogether, TypeOK, RunTypeOK
<1>2. outcome' = outcome
  BY LoopIsOver, OnlyFinishingSetsTheOutcome
<1>3. ~LoopStep
  BY LoopIsOver
<1>4. CASE HostStep
  <2>1. entries' = entries
    BY <1>4 DEF HostStep, Steer, Publish, Interrupt, StragglersEnd, taskVars
  <2>2. ASSUME NEW s \in Steers
        PROVE  \/ steer'[s] = steer[s]
               \/ (steer[s] = "unsent" /\ steer'[s] = "refused")
    BY <1>1, <1>4 DEF HostStep, Steer, Publish, Interrupt, StragglersEnd
  <2>3. ASSUME NEW n \in Notes
        PROVE  \/ note'[n] = note[n]
               \/ (note[n] = "unsent" /\ note'[n] = "refused")
    BY <1>1, <1>4
       DEF HostStep, Steer, Publish, PublishIgnored, Interrupt, StragglersEnd
  <2> QED BY <1>2, <2>1, <2>2, <2>3, Zenon DEF AfterTheEnd
<1>5. ASSUME NEW t \in Tasks, ToolRegisters(t) \/ Background(t)
      PROVE  AfterTheEnd
  <2>1. entries' \subseteq entries
    BY <1>1, <1>5
       DEF ToolRegisters, Background, Register, CancelBegin, TaskStep,
           StopOrphan, Settle, BeginComplete, LateHandlerReturn, TeardownDone,
           HandlerDone, HandlerTimeout, EndComplete
  <2>2. outcome' = outcome /\ steer' = steer /\ note' = note
    BY <1>5 DEF ToolRegisters, Background, runVars
  <2> QED BY <2>1, <2>2, Zenon DEF AfterTheEnd
<1>6. CASE UNCHANGED vars
  <2>1. outcome' = outcome /\ steer' = steer /\ note' = note /\ entries' = entries
    BY <1>6 DEF vars, runVars, taskVars
  <2> QED BY <2>1, Zenon DEF AfterTheEnd
<1> QED BY <1>3, <1>4, <1>5, <1>6 DEF Next

(* A text-mode run completes with everything it accepted shown to the model:*)
(* the text exit requires it, and late calls are refused.                   *)
LEMMA CompletesStep ==
  TypeOK /\ Control /\ NothingUnseen /\ CompletesWithNothingOwed /\ [Next]_vars
    => CompletesWithNothingOwed'
<1> SUFFICES ASSUME TypeOK, Control, NothingUnseen, CompletesWithNothingOwed,
                    [Next]_vars
             PROVE  CompletesWithNothingOwed'
  OBVIOUS
<1> USE DEF CompletesWithNothingOwed
<1>1. /\ steer \in [Steers -> SteerFates]
      /\ note \in [Notes -> NoteFates]
      /\ finished <=> pc = "done"
  BY DEF TypeOK, RunTypeOK, Control, EndsTogether
<1>2. CASE finished
  BY <1>2, LateStep DEF AfterTheEnd
<1>3. CASE ~finished /\ ~Finishes
  BY <1>3, OnlyFinishingSetsTheOutcome DEF finished
<1>4. ASSUME ~finished, TextExit PROVE CompletesWithNothingOwed'
  <2>1. /\ pc = "turn" /\ entries = {} /\ entries' = entries
        /\ \A s \in Steers : steer[s] # "queued"
        /\ \A n \in Notes : note[n] # "queued"
        /\ steer' = Move(SeenSteers, "queued", "dropped")
        /\ note' = Move(note, "appended", "seen")
    BY <1>4 DEF TextExit, TextGate, PendingSteers, Inbox, CommitTurn, Finish,
                DisposeAll
  <2>2. \A s \in Steers : steer[s] \in {"unsent", "refused", "appended", "seen"}
    BY <1>1, <1>4, <2>1 DEF SteerFates, NothingUnseen
  <2>3. \A s \in Steers : steer'[s] \in {"unsent", "refused", "seen"}
    BY <1>1, <2>1, <2>2 DEF SeenSteers, Move
  <2>4. \A n \in Notes : note'[n] \in {"unsent", "refused", "replaced", "seen"}
    BY <1>1, <2>1 DEF Move, NoteFates
  <2> QED BY <2>1, <2>3, <2>4
<1>5. ASSUME ~finished, BoundaryCompletes PROVE CompletesWithNothingOwed'
  <2>1. /\ pc = "boundary" /\ entries = {} /\ entries' = entries
        /\ \A s \in Steers : steer[s] # "queued"
        /\ \A n \in Notes : note[n] # "queued"
        /\ steer' = Move(steer, "queued", "dropped")
        /\ note' = note
    BY <1>5 DEF BoundaryCompletes, EmptyWake, PendingSteers, Inbox, Finish,
                DisposeAll
  <2>2. \A s \in Steers : steer[s] \in {"unsent", "refused", "seen"}
    BY <1>1, <1>5, <2>1 DEF SteerFates, NothingUnseen
  <2>3. \A n \in Notes : note[n] \in {"unsent", "refused", "replaced", "seen"}
    BY <1>1, <1>5, <2>1 DEF NoteFates, NothingUnseen
  <2> QED BY <1>1, <2>1, <2>2, <2>3 DEF Move
<1>6. ASSUME BatchEndsRun, Mode = "text" PROVE outcome' # "completed"
  <2>1. ~accepted
    BY <1>6 DEF Control, TextHasNoTerminal
  <2> QED BY <2>1, <1>6 DEF BatchEndsRun, Finish
<1>7. ASSUME BoundaryCancelled \/ TurnBudgetSpent \/ TurnFails
      PROVE  outcome' # "completed"
  BY <1>7 DEF BoundaryCancelled, TurnBudgetSpent, TurnFails, Finish
<1>8. CASE Mode # "text"
  BY <1>8
<1> QED BY <1>2, <1>3, <1>4, <1>5, <1>6, <1>7, <1>8 DEF Finishes

(* A completed run owes the model no report, in either mode. *)
LEMMA ReportsStep ==
  TypeOK /\ RunInv /\ [Next]_vars => ReportsReachTheModel'
<1> SUFFICES ASSUME TypeOK, RunInv, [Next]_vars
             PROVE  ReportsReachTheModel'
  OBVIOUS
<1> USE DEF ReportsReachTheModel
<1>1. Control
  BY DEF RunInv, Control
<1>2. RegistryStep \/ UNCHANGED taskVars
  BY RunStepIsRegistryStep
<1>3. CASE finished
  <2>1. SUFFICES ASSUME outcome = "completed" PROVE ReportsReachTheModel'
    BY <1>1, <1>3, LateStep DEF AfterTheEnd
  <2>2. /\ entries = {} /\ disposed
        /\ \A t \in Tasks \cap Notes :
             ReportedInTime(t) => note[t] \notin {"queued", "appended"}
    BY <1>1, <1>3, <2>1
       DEF RunInv, ReportedInTime, Control, EndsTogether
  <2>3. /\ entries' = {}
        /\ \A u \in Tasks : ReportedInTime(u)' => ReportedInTime(u)
    BY <1>2, <2>2, EmptyStaysQuiet DEF TypeOK, RunInv
  <2> QED BY <1>1, <1>3, <2>2, <2>3, LateStep DEF AfterTheEnd, ReportedInTime
<1>4. CASE ~finished /\ ~Finishes
  BY <1>4, OnlyFinishingSetsTheOutcome DEF finished
<1>5. CASE ~finished /\ (BoundaryCompletes \/ TextExit)
  <2>1. Mode = "text"
    BY <1>5 DEF BoundaryCompletes, TextExit
  <2>2. CompletesWithNothingOwed'
    BY <1>1, CompletesStep DEF RunInv
  <2> QED BY <2>1, <2>2 DEF CompletesWithNothingOwed
<1>6. CASE ~finished /\ BatchEndsRun
  <2>1. SUFFICES ASSUME outcome' = "completed" PROVE ReportsReachTheModel'
    OBVIOUS
  <2>2. batch.result /\ pc = "terminal" /\ note' = note
    BY <1>6, <2>1 DEF BatchEndsRun, BatchSettled, Finish
  <2>3. /\ entries = {}
        /\ \A t \in Tasks \cap Notes : ReportedInTime(t) => note[t] # "queued"
    BY <2>2 DEF RunInv, GateHolds
  <2>4. \A n \in Notes : note[n] # "appended"
    BY <1>6, <2>2 DEF RunInv, NothingUnseen
  <2>5. \A t \in Tasks : ~Register(t)
    BY <1>6 DEF BatchEndsRun, Finish, DisposeAll, Register
  <2>6. /\ entries' = {}
        /\ \A u \in Tasks : ReportedInTime(u)' => ReportedInTime(u)
    BY <1>2, <2>3, <2>5, EmptyStaysQuiet DEF TypeOK, RunInv
  <2> QED BY <2>2, <2>3, <2>4, <2>6 DEF ReportedInTime
<1>7. CASE BoundaryCancelled \/ TurnBudgetSpent \/ TurnFails
  BY <1>7 DEF BoundaryCancelled, TurnBudgetSpent, TurnFails, Finish
<1> QED BY <1>3, <1>4, <1>5, <1>6, <1>7 DEF Finishes

-----------------------------------------------------------------------------
(* The registry never drops an entry without moving the counter. *)
LEMMA RemovalsAreCounted ==
  ASSUME TasksTypeOK, RegistryStep \/ UNCHANGED taskVars
  PROVE  /\ changes' >= changes
         /\ entries \subseteq entries' \/ changes' > changes
<1> USE DEF TasksTypeOK
<1>1. ASSUME NEW t \in Tasks, Register(t) \/ CancelBegin(t) \/ StopOrphan(t)
                                \/ LateHandlerReturn(t)
      PROVE  changes' = changes /\ entries \subseteq entries'
  BY <1>1 DEF Register, CancelBegin, StopOrphan, LateHandlerReturn
<1>2. ASSUME NEW t \in Tasks, NEW c \in Cause, BeginComplete(t, c)
      PROVE  (changes' = changes /\ entries' = entries) \/ changes' = changes + 1
  BY <1>2 DEF BeginComplete
<1>3. ASSUME NEW t \in Tasks, Settle(t)
      PROVE  (changes' = changes /\ entries' = entries) \/ changes' = changes + 1
  BY <1>2, <1>3 DEF Settle, Cause
<1>4. ASSUME NEW t \in Tasks, NEW c \in Cause, TeardownDone(t, c)
      PROVE  (changes' = changes /\ entries' = entries) \/ changes' = changes + 1
  BY <1>2, <1>4 DEF TeardownDone
<1>5. ASSUME NEW t \in Tasks, NEW c \in Cause,
             HandlerDone(t, c) \/ HandlerTimeout(t, c)
      PROVE  changes' = changes + 1
  BY <1>5 DEF HandlerDone, HandlerTimeout, EndComplete
<1>6. ASSUME DisposeAll \/ UNCHANGED taskVars
      PROVE  changes' = changes /\ entries' = entries
  BY <1>6 DEF DisposeAll, taskVars
<1> QED BY <1>1, <1>3, <1>4, <1>5, <1>6 DEF RegistryStep, TaskStep

(* Only Park suspends the loop on its wake-ups. *)
LEMMA OnlyParkParks ==
  ASSUME Control, [Next]_vars, pc' = "parked"
  PROVE  Park \/ (pc = "parked" /\ since' = since)
BY DEF Next, LoopStep, LoopAlone, HostStep, vars, runVars, Finish,
     BoundaryCancelled, BoundaryCompletes, TurnBudgetSpent, TurnFails, TextExit,
     BatchEndsRun, StartTurn, Wake, BareText, ToolTurn, RestHookDone,
     BatchHookDone, OrdinaryDone, OrdinaryAbandoned, TerminalCall, PreHookDone,
     PostHookDenies, BeginSubmit, SubmitRejected, SubmitAccepted,
     VerdictSettles, BatchContinues, Steer, Publish, Interrupt, StragglersEnd,
     ToolRegisters, Background

(* A park starts with open tasks, and the last of them moves the counter. *)
LEMMA ParkStep ==
  TypeOK /\ Control /\ ParkIsWatched /\ [Next]_vars => ParkIsWatched'
<1> SUFFICES ASSUME TypeOK, Control, ParkIsWatched, [Next]_vars, pc' = "parked"
             PROVE  since' <= changes' /\ (entries' # {} \/ since' # changes')
  BY DEF ParkIsWatched
<1>1. changes \in Nat /\ changes' \in Nat /\ since \in Nat
  BY RunStepIsRegistryStep, TasksTypeStep DEF TypeOK, RunTypeOK, TasksTypeOK
<1>2. CASE Park
  BY <1>1, <1>2 DEF Park, KeepRunning, taskVars
<1>3. CASE pc = "parked" /\ since' = since
  <2>1. /\ changes' >= changes
        /\ entries \subseteq entries' \/ changes' > changes
    BY RunStepIsRegistryStep, RemovalsAreCounted DEF TypeOK
  <2> QED BY <1>1, <1>3, <2>1 DEF ParkIsWatched
<1> QED BY <1>2, <1>3, OnlyParkParks

(* Every step keeps the whole invariant. *)
LEMMA RunInvStep ==
  TypeOK /\ RunInv /\ [Next]_vars => RunInv'
<1> SUFFICES ASSUME TypeOK, RunInv, [Next]_vars
             PROVE  RunInv'
  OBVIOUS
<1>1. Control
  BY DEF RunInv, Control
<1>2. TasksInv'
  BY RunStepIsRegistryStep, TasksInvStep DEF TypeOK, RunInv
<1>3. Control'
  BY <1>1, ControlStep
<1>4. NothingUnseen'
  BY <1>1, MessagesStep DEF RunInv
<1>5. GateHolds'
  BY <1>1, GateStep DEF RunInv
<1>6. CompletesWithNothingOwed'
  BY <1>1, CompletesStep DEF RunInv
<1>7. ReportsReachTheModel'
  BY ReportsStep
<1>8. ParkIsWatched'
  BY <1>1, ParkStep DEF RunInv
<1> QED BY <1>2, <1>3, <1>4, <1>5, <1>6, <1>7, <1>8 DEF RunInv, Control

(* The run starts in the invariant. *)
LEMMA RunInitOK == Init => TypeOK /\ RunInv
<1> SUFFICES ASSUME Init PROVE TypeOK /\ RunInv
  OBVIOUS
<1> USE DEF Init
<1>1. TasksTypeOK
  <2>1. NoPath \in [Cause -> Paths]
    BY DEF NoPath, Paths
  <2>2. path \in [Tasks -> [Cause -> Paths]]
    BY <2>1 DEF TasksInit
  <2>3. invoked \in [Tasks -> Nat] /\ changes \in Nat
    BY DEF TasksInit
  <2>4. disposed \in BOOLEAN
    BY DEF TasksInit
  <2> QED BY <2>2, <2>3, <2>4, Zenon DEF TasksInit, TasksTypeOK
<1>2. RunTypeOK
  <2>1. /\ [s \in Steers |-> "unsent"] \in [Steers -> SteerFates]
        /\ [n \in Notes |-> "unsent"] \in [Notes -> NoteFates]
    BY DEF SteerFates, NoteFates
  <2>2. NoBatch \in [ordinary : BOOLEAN, calls : 0..MaxTerminal, result : BOOLEAN]
    BY TurnsAssumption DEF NoBatch
  <2>3. turns \in 0..MaxTurns /\ since \in Nat
    BY TurnsAssumption
  <2>4. pc \in Awaits /\ outcome \in Outcomes \cup {"none"}
    BY DEF Awaits
  <2>5. /\ steer \in [Steers -> SteerFates]
        /\ note \in [Notes -> NoteFates]
    BY <2>1
  <2> QED BY <2>2, <2>3, <2>4, <2>5, Zenon DEF RunTypeOK
<1>3. TasksInv
  BY DEF TasksInit, TasksInv, LifeCycle, DisposedIsClosing, Started, Active,
         Over, NoPath
<1>4. ~finished /\ ~finishing /\ ~accepted /\ ~executing /\ ~disposed
  BY DEF finished, TasksInit
<1>5. Control
  BY <1>4 DEF Control, EndsTogether, BudgetKept, ToolsAreAccounted,
              SubmissionShape, TextHasNoTerminal, NoBatch
<1>6. NothingUnseen
  BY DEF NothingUnseen
<1>7. GateHolds
  BY DEF GateHolds, NoBatch
<1>8. CompletesWithNothingOwed /\ ReportsReachTheModel
  BY DEF CompletesWithNothingOwed, ReportsReachTheModel
<1>9. ParkIsWatched
  BY DEF ParkIsWatched
<1> QED BY <1>1, <1>2, <1>3, <1>5, <1>6, <1>7, <1>8, <1>9
        DEF TypeOK, RunInv, Control

(* The invariant of a run, for any number of tasks, messages and turns. *)
THEOREM RunInvariant == Safety => [](TypeOK /\ RunInv)
<1>1. TypeOK /\ RunInv /\ [Next]_vars => (TypeOK /\ RunInv)'
  BY RunInvStep, RunTypeStep DEF RunInv
<1> QED BY <1>1, RunInitOK, PTL DEF Safety

(* The run's state has its types; the turn budget is kept. *)
THEOREM TypeCorrect == Safety => []TypeOK
BY RunInvariant, PTL

(* A text-mode run that completes owes the model nothing. *)
THEOREM CompletesWithNothingOwedHolds == Safety => []CompletesWithNothingOwed
BY RunInvariant, PTL DEF RunInv

(* A run that completes has closed its registry and shown the model every   *)
(* report that was delivered in time.                                       *)
THEOREM ReportsReachTheModelHolds == Safety => []ReportsReachTheModel
BY RunInvariant, PTL DEF RunInv

(* The finishing latch does not outlive a rejected submission. *)
THEOREM LatchIsReleasedHolds == Safety => []LatchIsReleased
<1>1. TypeOK /\ RunInv => LatchIsReleased
  BY DEF RunInv, SubmissionShape, LatchIsReleased
<1> QED BY <1>1, RunInvariant, PTL

(* onSubmit is not asked again once it accepted. *)
THEOREM OneAcceptanceHolds == Safety => []OneAcceptance
<1>1. TypeOK /\ RunInv => OneAcceptance
  BY DEF RunInv, SubmissionShape, OneAcceptance
<1> QED BY <1>1, RunInvariant, PTL

(* One submission has the window from onSubmit's verdict to the finish to    *)
(* itself, for any number of terminal calls in a message (terminal.ts:82).   *)
THEOREM CommitIsExclusiveHolds == Safety => []CommitIsExclusive
BY LatchIsReleasedHolds, OneAcceptanceHolds, PTL DEF CommitIsExclusive

(* A parked loop always has a wake-up to come: an open task nobody has taken *)
(* over, or a completion under way, or something that wakes it already.      *)
THEOREM NoLostWakeupHolds == Safety => []NoLostWakeup
<1>1. ASSUME TypeOK, RunInv, pc = "parked", ~WakeEnabled
      PROVE  \E t \in entries : \/ t \notin settling
                                \/ \E c \in Cause : Active(t, c)
  <2>1. PICK t \in Tasks : t \in entries
    BY <1>1 DEF RunInv, ParkIsWatched, WakeEnabled, TypeOK, TasksTypeOK
  <2>2. SettlingHasOwner
    BY <1>1, OwnedBySomeone DEF TypeOK, RunInv
  <2> QED BY <2>1, <2>2 DEF SettlingHasOwner
<1>2. TypeOK /\ RunInv => NoLostWakeup
  BY <1>1 DEF NoLostWakeup
<1> QED BY <1>2, RunInvariant, PTL

(* Nothing that happens after run_finished changes what was reported. *)
THEOREM FinishIsFinalHolds == Safety => FinishIsFinal
<1> DEFINE Kept == /\ outcome' = outcome
                   /\ entries' \subseteq entries
                   /\ \A s \in Steers : steer'[s] # steer[s]
                                          => steer'[s] = "refused"
                   /\ \A n \in Notes : note'[n] # note[n]
                                          => note'[n] = "refused"
<1>1. TypeOK /\ RunInv /\ [Next]_vars => (finished => Kept)
  <2> SUFFICES ASSUME TypeOK, RunInv, [Next]_vars, finished PROVE Kept
    OBVIOUS
  <2>1. Control
    BY DEF RunInv, Control
  <2>2. AfterTheEnd
    BY <2>1, LateStep
  <2> QED BY <2>2, Zenon DEF AfterTheEnd
<1>2. TypeOK /\ RunInv /\ [Next]_vars => [finished => Kept]_vars
  BY <1>1
<1> QED BY <1>2, RunInvariant, PTL DEF Safety, FinishIsFinal

(* The registry a run drives implements the ledger as well. *)
THEOREM RunKeepsLedger == Safety => Ledger!LedgerSafety
<1>1. TypeOK /\ RunInv /\ [Next]_vars
        => [Ledger!LedgerNext]_(Ledger!ledgerVars)
  BY RunStepIsRegistryStep, RegistryStepIsLedgerStep DEF TypeOK, RunInv
<1>2. Init => Ledger!LedgerInit
  BY TasksInitIsLedgerInit DEF Init
<1> QED BY <1>1, <1>2, RunInvariant, PTL DEF Safety, Ledger!LedgerSafety
=============================================================================
