--------------------------- MODULE BackgroundTasks ---------------------------
(***************************************************************************)
(* RunBackgroundTaskSupervisor: the per-run task registry                  *)
(* (agent-core/src/agents/background/background-task-supervisor.ts).       *)
(*                                                                         *)
(* The program is single threaded: the code between two awaits is one      *)
(* action.  Three callers can drive one entry to completion, each as an    *)
(* async function of its own: the task's promise settling (#settle),       *)
(* cancel() and disposeAll().  Each (task, cause) pair therefore has its   *)
(* own program counter in "path", and the entry's "settling" flag is all   *)
(* that keeps two of them from completing the same task.                   *)
(***************************************************************************)
EXTENDS Integers, FiniteSets

CONSTANTS Tasks,     \* one element per register() call a host may make
          Silent,    \* the tasks registered with "silent: true"
          TagOf      \* the addressing tag of a task, unique among active ones

ASSUME SilentAssumption == Silent \subseteq Tasks

(* Who can bring a task to its end. *)
Cause == {"done", "cancel", "dispose"}
Paths == {"none", "teardown", "handling", "ended", "expired"}

VARIABLES
  asked,      \* tasks handed to register() so far
  entries,    \* the keys of the #entries map: the open set
  settling,   \* entries whose settling flag is set
  resolved,   \* tasks whose "done" promise has settled
  stopped,    \* tasks whose cancel() callback has been invoked
  orphans,    \* registered after disposal: cancel() owed in a microtask
  path,       \* path[t][c]: where completion of t by cause c stands
  invoked,    \* invoked[t]: how often onCompletion was called
  inHandler,  \* tasks whose onCompletion has not returned (it may outlive
              \* its entry: the timeout stops waiting, not the handler)
  changes,    \* #changes, the registry-change counter
  disposed    \* #disposedReason is set

taskVars == <<asked, entries, settling, resolved, stopped, orphans, path,
              invoked, inHandler, changes, disposed>>

NoPath == [c \in Cause |-> "none"]

TasksInit ==
  /\ asked = {}
  /\ entries = {}
  /\ settling = {}
  /\ resolved = {}
  /\ stopped = {}
  /\ orphans = {}
  /\ path = [t \in Tasks |-> NoPath]
  /\ invoked = [t \in Tasks |-> 0]
  /\ inHandler = {}
  /\ changes = 0
  /\ disposed = FALSE

-----------------------------------------------------------------------------
(* Definitions marked "Mutant" stand for a slip in the code; they are used  *)
(* only to check that a property would notice it.                           *)

(* Mutant: a tag counts as free as soon as its task is settling. *)
TagRunning(t) == \E u \in entries \ settling : TagOf[u] = TagOf[t]

(* #findActive: some entry, settling or not, carries the tag of t. *)
TagActive(t) == \E u \in entries : TagOf[u] = TagOf[t]

(* #complete up to its first await: the handler is called, or a silent      *)
(* entry is removed at once.                                                *)
BeginComplete(t, c) ==
  IF t \in Silent
  THEN /\ path' = [path EXCEPT ![t][c] = "ended"]
       /\ entries' = entries \ {t}
       /\ changes' = changes + 1
       /\ UNCHANGED <<invoked, inHandler>>
  ELSE /\ path' = [path EXCEPT ![t][c] = "handling"]
       /\ invoked' = [invoked EXCEPT ![t] = @ + 1]
       /\ inHandler' = inHandler \cup {t}
       /\ UNCHANGED <<entries, changes>>

(* Mutant: the entry is left in the map. *)
EndCompleteKeepsEntry(t, c, how) ==
  /\ path' = [path EXCEPT ![t][c] = how]
  /\ entries' = entries
  /\ changes' = changes + 1

(* Mutant: the removal does not move the counter. *)
EndCompleteUncounted(t, c, how) ==
  /\ path' = [path EXCEPT ![t][c] = how]
  /\ entries' = entries \ {t}
  /\ changes' = changes

(* Mutant: the counter is taken for the number of open entries. *)
EndCompleteCountsDown(t, c, how) ==
  /\ path' = [path EXCEPT ![t][c] = how]
  /\ entries' = entries \ {t}
  /\ changes' = changes - 1

(* #complete after the bounded wait: the entry goes and the loop is woken.  *)
(* "expired" stands for the completionError of a handler given up on.       *)
EndComplete(t, c, how) ==
  /\ path' = [path EXCEPT ![t][c] = how]
  /\ entries' = entries \ {t}
  /\ changes' = changes + 1

-----------------------------------------------------------------------------
(* register(): adopted; refused (it throws) while the tag is active; or,    *)
(* after disposal, turned away with a cancel() call owed.                   *)
Register(t) ==
  /\ t \notin asked
  /\ asked' = asked \cup {t}
  /\ IF disposed
     THEN /\ orphans' = orphans \cup {t}
          /\ UNCHANGED entries
     ELSE /\ entries' = IF TagActive(t) THEN entries ELSE entries \cup {t}
          /\ UNCHANGED orphans
  /\ UNCHANGED <<settling, resolved, stopped, path, invoked, inHandler,
                 changes, disposed>>

(* The microtask that stops a task registered after disposal. *)
StopOrphan(t) ==
  /\ t \in orphans
  /\ orphans' = orphans \ {t}
  /\ stopped' = stopped \cup {t}
  /\ UNCHANGED <<asked, entries, settling, resolved, path, invoked, inHandler,
                 changes, disposed>>

(* Mutant: a natural outcome is taken whoever is completing the entry. *)
MaySettleAnyway(t) == t \in entries

(* #settle only acts on an entry that nothing else is completing. *)
MaySettle(t) == t \in entries /\ t \notin settling

(* The task's promise settles; the subscription made by register() runs     *)
(* #settle, which drops the outcome if the entry is gone or settling.       *)
Settle(t) ==
  /\ t \in asked \ resolved
  /\ resolved' = resolved \cup {t}
  /\ IF MaySettle(t)
     THEN /\ settling' = settling \cup {t}
          /\ BeginComplete(t, "done")
     ELSE UNCHANGED <<settling, path, entries, changes, invoked, inHandler>>
  /\ UNCHANGED <<asked, stopped, orphans, disposed>>

(* cancel() loses to anything already settling: it returns false then. *)
MayCancel(t) == t \in entries /\ t \notin settling

CancelBegin(t) ==
  /\ MayCancel(t)
  /\ path[t]["cancel"] = "none"
  /\ settling' = settling \cup {t}
  /\ stopped' = stopped \cup {t}
  /\ path' = [path EXCEPT ![t]["cancel"] = "teardown"]
  /\ UNCHANGED <<asked, entries, resolved, orphans, invoked, inHandler,
                 changes, disposed>>

(* Mutant: the filter is inverted. *)
DisposableSettling == entries \cap settling

(* The entries disposeAll() takes over: the ones nothing is completing. *)
Disposable == entries \ settling

DisposeAll ==
  /\ disposed' = TRUE
  /\ settling' = settling \cup Disposable
  /\ stopped' = stopped \cup Disposable
  /\ path' = [t \in Tasks |->
                IF t \in Disposable
                THEN [path[t] EXCEPT !["dispose"] = "teardown"]
                ELSE path[t]]
  /\ UNCHANGED <<asked, entries, resolved, orphans, invoked, inHandler,
                 changes>>

(* #teardown: the awaited cancel() callback settled, either way. *)
TeardownDone(t, c) ==
  /\ path[t][c] = "teardown"
  /\ BeginComplete(t, c)
  /\ UNCHANGED <<asked, settling, resolved, stopped, orphans, disposed>>

(* The handler returned or threw in time. *)
HandlerDone(t, c) ==
  /\ path[t][c] = "handling"
  /\ t \in inHandler
  /\ EndComplete(t, c, "ended")
  /\ inHandler' = inHandler \ {t}
  /\ UNCHANGED <<asked, settling, resolved, stopped, orphans, invoked, disposed>>

(* withTimeout fired first: the entry is removed, the handler runs on. *)
HandlerTimeout(t, c) ==
  /\ path[t][c] = "handling"
  /\ EndComplete(t, c, "expired")
  /\ UNCHANGED <<asked, settling, resolved, stopped, orphans, invoked,
                 inHandler, disposed>>

(* A handler that was given up on returns after all; nobody listens. *)
LateHandlerReturn(t) ==
  /\ t \in inHandler
  /\ t \notin entries
  /\ inHandler' = inHandler \ {t}
  /\ UNCHANGED <<asked, entries, settling, resolved, stopped, orphans, path,
                 invoked, changes, disposed>>

(* Steps the supervisor and the tasks take by themselves. *)
TaskStep(t) ==
  \/ StopOrphan(t)
  \/ Settle(t)
  \/ LateHandlerReturn(t)
  \/ \E c \in Cause : \/ TeardownDone(t, c)
                      \/ HandlerDone(t, c)
                      \/ HandlerTimeout(t, c)

(* The registry on its own: callers may register and cancel at any time.    *)
(* disposeAll() has one caller, the end of the run.                         *)
TasksNext ==
  \/ \E t \in Tasks : Register(t) \/ CancelBegin(t) \/ TaskStep(t)
  \/ ~disposed /\ DisposeAll

(* The event loop runs microtasks and timers, so an orphan is stopped and a *)
(* bounded handler wait ends.  That cancel() callbacks settle is the        *)
(* contract of BackgroundTask.cancel, not something the code enforces.      *)
TasksFairness ==
  \A t \in Tasks :
    /\ WF_taskVars(StopOrphan(t))
    /\ \A c \in Cause : /\ WF_taskVars(TeardownDone(t, c))
                        /\ WF_taskVars(HandlerDone(t, c) \/ HandlerTimeout(t, c))

TasksSafety == TasksInit /\ [][TasksNext]_taskVars
TasksSpec == TasksSafety /\ TasksFairness

-----------------------------------------------------------------------------
TasksTypeOK ==
  /\ asked \subseteq Tasks
  /\ entries \subseteq Tasks
  /\ settling \subseteq Tasks
  /\ resolved \subseteq Tasks
  /\ stopped \subseteq Tasks
  /\ orphans \subseteq Tasks
  /\ path \in [Tasks -> [Cause -> Paths]]
  /\ invoked \in [Tasks -> Nat]
  /\ inHandler \subseteq Tasks
  /\ changes \in Nat
  /\ disposed \in BOOLEAN

Active(t, c) == path[t][c] \in {"teardown", "handling"}
Started(t) == \E c \in Cause : path[t][c] # "none"

(* A task is driven to its end by one of the three callers, never by two    *)
(* (the settle/cancel/dispose race of background-task-supervisor.ts).       *)
OneCompletionPath ==
  \A t \in Tasks : \A c, d \in Cause :
    path[t][c] # "none" /\ path[t][d] # "none" => c = d

(* onCompletion is called exactly once for a task that has left the         *)
(* registry, never for a silent one and never twice while it is open.       *)
Removed(t) == t \notin entries /\ Started(t)
CompletionOwed ==
  \A t \in Tasks :
    /\ invoked[t] <= 1
    /\ Removed(t) => invoked[t] = (IF t \in Silent THEN 0 ELSE 1)
    /\ t \in Silent => invoked[t] = 0

(* An entry marked settling is in somebody's hands: an entry that was       *)
(* marked and then forgotten could be neither cancelled nor disposed, and   *)
(* the run would park on it for ever.                                       *)
SettlingHasOwner ==
  \A t \in entries : t \in settling <=> \E c \in Cause : Active(t, c)

(* Cancel by tag addresses one task: two open entries never share a tag. *)
TagsUnique ==
  \A t, u \in entries : TagOf[t] = TagOf[u] => t = u

(* Disposal leaves nothing running behind: what is still open is being      *)
(* torn down, and a late registration never reaches the registry.           *)
DisposedIsClosing ==
  disposed => entries \subseteq settling

(* One life of every task, whichever of settle, cancel and dispose come     *)
(* together: one of them completes it, its handler is called as often as is *)
(* owed, no entry is forgotten half way, before or after disposal, and      *)
(* cancel by tag finds this task and no other.                              *)
TaskLifecycle ==
  /\ OneCompletionPath
  /\ CompletionOwed
  /\ SettlingHasOwner
  /\ DisposedIsClosing
  /\ TagsUnique

(* The inductive invariant behind the properties above: the settling flag   *)
(* is set exactly when one of the callers has taken the task over, that     *)
(* caller is the only one, and how far it got fixes whether the entry is    *)
(* still there, how often the handler was called and whether it can still   *)
(* be running.                                                              *)
Over(t, c) == path[t][c] \in {"ended", "expired"}

LifeCycle(t) ==
  /\ \A c, d \in Cause : path[t][c] # "none" /\ path[t][d] # "none" => c = d
  /\ t \in settling <=> Started(t)
  /\ t \in entries \cup settling => t \in asked
  /\ ~Started(t) => invoked[t] = 0 /\ t \notin inHandler
  /\ \A c \in Cause :
       /\ Active(t, c) => t \in entries
       /\ Over(t, c) => t \notin entries
       /\ path[t][c] = "teardown" => invoked[t] = 0 /\ t \notin inHandler
       /\ path[t][c] = "ended" => t \notin inHandler
       /\ path[t][c] = "handling" => t \notin Silent /\ invoked[t] = 1
       /\ Over(t, c) => invoked[t] = IF t \in Silent THEN 0 ELSE 1

TasksInv ==
  /\ \A t \in Tasks : LifeCycle(t)
  /\ DisposedIsClosing

-----------------------------------------------------------------------------
(* The ledger this registry implements. *)
StageOf(t) ==
  IF t \in entries
  THEN IF invoked[t] = 0 THEN "open" ELSE "reported"
  ELSE IF Started(t) THEN "closed" ELSE "absent"

Ledger == INSTANCE TaskLedger WITH stage <- [t \in Tasks |-> StageOf(t)],
                                   sealed <- disposed

(* The registry implements the ledger: open once, report once, close once,  *)
(* nothing opened after the run, everything closed in the end.              *)
ImplementsLedger == Ledger!LedgerSpec
=============================================================================
