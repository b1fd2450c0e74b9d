--------------------------- MODULE MCIndexingEngine ---------------------------
(***************************************************************************)
(* IndexingEngine with a bounded environment: a budget of Scenarios says   *)
(* how often a file is written, erased or restored, a folder scanned,      *)
(* paused or dropped, a file or the database found locked, and the process *)
(* killed.                                                                 *)
(***************************************************************************)
EXTENDS IndexingEngineProps, TLC

CONSTANT Scenarios

VARIABLE budget

mcvars == <<evars, budget>>

BudgetOf(write, erase, scans, other, fault, crash) ==
  [write |-> write, erase |-> erase, scan |-> scans, other |-> other,
   fault |-> fault, crash |-> crash, calm |-> TRUE]

(* A lost batch, a restored file, a dropped or paused folder, an abandoned job or a crash ends
   the calm. *)
Spend(e) ==
  /\ budget[e] > 0
  /\ budget' = [budget EXCEPT ![e] = @ - 1, !.calm = @ /\ e \notin {"other", "crash"}]
Free == UNCHANGED budget

MCInit == EngineInit /\ budget \in Scenarios

(* A hash fails when the file is gone, or for a reason of the file system's own. *)
Faulty(w) == pipe[w].step = "hash" /\ pipe'[w].step = "retry" /\ disk[File(w)] # 0

MCNext ==
  \/ \E f \in Files :
       \/ Write(f) /\ Spend("write")
       \/ Erase(f) /\ Spend("erase")
       \/ Watch(f) /\ Free
       \/ ScanList(f) /\ Spend("scan")
       \/ (ScanLook(f) \/ ScanApply(f)) /\ Free
       \/ (Restore(f) \/ DropFolder(f) \/ Toggle(f) \/ \E k \in FlushSlots : LoseBatch(f, k)) /\ Spend("other")
  \/ \E w \in Workers :
       \/ Index(w) /\ IF Faulty(w) THEN Spend("fault") ELSE Free
       \/ Break(w) /\ Spend("fault")
       \/ GiveUp(w) /\ Spend("other")
  \/ \E j \in JobIds : RetryDue(j) /\ Free
  \/ Die /\ Spend("crash")
  \/ Start /\ Free

MCSpec == MCInit /\ [][MCNext]_mcvars

(* Watcher timers fire and their batches are applied, scans end, the threads are scheduled,
   back-off delays pass, and the process is started again. *)
MCFairness ==
  /\ \A f \in Files : \A k \in FlushSlots :
       WF_mcvars((Flush(f, k) \/ ApplyChange(f, k) \/ ApplyDelete(f, k)) /\ Free)
  /\ \A f \in Files : WF_mcvars((ScanLook(f) \/ ScanApply(f)) /\ Free)
  /\ \A w \in Workers : WF_mcvars(Index(w) /\ Free)
  /\ \A j \in JobIds : WF_mcvars(RetryDue(j) /\ Free)
  /\ WF_mcvars(Start /\ Free)

MCFairSpec == MCSpec /\ MCFairness

(* Edits, a deletion, a scan and faults in any order, and a rougher life with fewer faults. *)
Mixed == {BudgetOf(3, 0, 1, 0, 0, 0), BudgetOf(2, 1, 1, 0, 1, 0),
          BudgetOf(2, 1, 0, 1, 0, 0), BudgetOf(2, 1, 0, 0, 0, 1)}
ModifyOnly == {BudgetOf(5, 0, 0, 0, 0, 0)}
ThreeEdits == {BudgetOf(3, 0, 0, 0, 0, 0)}

(* What successive writes leave on disk: new texts, and texts between an encrypted document
   (3), one without a parser (5) and one that does not parse (4). *)
ThreeTexts == <<1, 2, 3>>
AllKinds == <<1, 3, 2, 5, 4>>

(* With one thread, and no batch lost, no folder dropped or paused, and no crash, the index
   holds no stale text, whatever events, scans, faults and cleanups come in whatever order. *)
CalmKeepsFresh == budget.calm => NoStaleText
=============================================================================
