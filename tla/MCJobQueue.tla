------------------------------ MODULE MCJobQueue ------------------------------
(***************************************************************************)
(* JobQueue with its environment bounded: Scenarios says which sources     *)
(* produce jobs and how many times each event outside the workers may      *)
(* happen.  The workers themselves are not bounded; retries are, by        *)
(* MaxAttempts.                                                            *)
(***************************************************************************)
EXTENDS JobQueueProps, TLC

CONSTANT Scenarios   \* the initial budgets

VARIABLE budget

mcvars == <<vars, budget>>

(* discover says of each of some Sources how many times. *)
BudgetOf(discover, other, vanish, remove, toggle, abandon, crash) ==
  [discover |-> discover, other |-> other, vanish |-> vanish, remove |-> remove,
   toggle |-> toggle, abandon |-> abandon, crash |-> crash]

Spend(e) == budget[e] > 0 /\ budget' = [budget EXCEPT ![e] = @ - 1]

MCInit == Init /\ budget \in Scenarios

MCNext ==
  \/ \E f \in Files :
       \/ \E src \in DOMAIN budget.discover, changed \in BOOLEAN :
            /\ Discover(f, src, changed)
            /\ budget.discover[src] > 0
            /\ budget' = [budget EXCEPT !.discover[src] = @ - 1]
       \/ /\ \/ Register(f)
             \/ Rename(f)
             \/ Oversize(f)
             \/ ScanError(f)
          /\ Spend("other")
       \/ (VanishWatched(f) \/ VanishScanned(f)) /\ Spend("vanish")
       \/ RemoveFolder(f) /\ Spend("remove")
       \/ SetEnabled(f) /\ Spend("toggle")
  \/ \E w \in Workers :
       \/ (Seek(w) \/ Work(w)) /\ UNCHANGED budget
       \/ Abandon(w) /\ Spend("abandon")
  \/ \E j \in JobIds : BackoffOver(j) /\ UNCHANGED budget
  \/ Crash /\ Spend("crash")
  \/ Boot /\ UNCHANGED budget

MCSpec == MCInit /\ [][MCNext]_mcvars

(* The threads are scheduled, back-off delays pass, and the supervisor restarts the process.
   Nothing is assumed of the environment. *)
MCFairness ==
  /\ \A w \in Workers : WF_mcvars((Seek(w) \/ Work(w)) /\ UNCHANGED budget)
  /\ \A j \in JobIds : WF_mcvars(BackoffOver(j) /\ UNCHANGED budget)
  /\ WF_mcvars(Boot /\ UNCHANGED budget)

MCFairSpec == MCSpec /\ MCFairness

(* How many: discover, other, vanish, remove, toggle, abandon, crash. *)
Times(n, sources) == [src \in sources |-> n]
TwoSources == {<<"METADATA_DISCOVERY", 1>>, <<"HASH_VERIFICATION", 3>>}
Deletion == BudgetOf(Times(1, TwoSources), 0, 1, 0, 0, 0, 0)
Disasters == {BudgetOf(Times(1, {src}), 1, 0, 1, 0, 1, 2) :
                src \in {<<"METADATA_DISCOVERY", 1>>, <<"HASH_VERIFICATION", 2>>}}
CleanupCrash == BudgetOf(Times(2, {<<"HASH_VERIFICATION", 3>>}), 0, 1, 0, 0, 0, 1)
PauseAndCrash == {BudgetOf(times, 0, 1, 0, 1, 0, 1) :
                    times \in {Times(1, TwoSources), Times(2, {<<"HASH_VERIFICATION", 3>>})}}
SafetyScenarios == {Deletion, CleanupCrash} \cup Disasters
LivenessScenarios == PauseAndCrash
ThreadSymmetry == Permutations(Workers)
=============================================================================
