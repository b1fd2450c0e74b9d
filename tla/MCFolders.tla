------------------------------- MODULE MCFolders -------------------------------
(***************************************************************************)
(* What follows the folders: the changes on disk inside one of them        *)
(* (Watcher), and the rows and watches of several (FolderRegistry).  The   *)
(* two meet only in the handlers, so a behaviour moves one of them, with a *)
(* bounded number of events:                                               *)
(*   change    a change on disk                                            *)
(*   loss      a batch of events that is lost                              *)
(*   request   a request that begins                                       *)
(*   other     a rescan, a failing scan or a restart                       *)
(*   timers    how many timer threads are at work at once (not spent)      *)
(***************************************************************************)
EXTENDS Watcher, FolderRegistry

CONSTANT Scenarios   \* the initial budgets

VARIABLE budget

mcvars == <<vars, registryVars, budget>>

BudgetOf(change, timers, loss, request, other) ==
  [change |-> change, timers |-> timers, loss |-> loss, request |-> request, other |-> other]

Spend(e) == budget[e] > 0 /\ budget' = [budget EXCEPT ![e] = @ - 1]

MCInit == Init /\ RegistryInit /\ budget \in Scenarios

WatcherMoves ==
  /\ UNCHANGED registryVars
  /\ \/ DiskChange /\ Spend("change")
     \/ (\E i \in DOMAIN flushing : LoseBatch(i)) /\ Spend("loss")
     \/ /\ \/ Hand
           \/ Len(flushing) < budget.timers /\ Flush
           \/ \E i \in DOMAIN flushing : ApplySubBatch(i)
           \/ \E p \in Files : RunJob(p)
        /\ UNCHANGED budget

RequestBegins(c) ==
  \/ \E p \in Paths : CheckFolder(c, p) \/ CheckFile(c, p)
  \/ \E i \in DOMAIN folders : ReadRow(c, i) \/ DeleteRow(c, i)

RequestEnds(c) ==
  \/ Taken(c)
  \/ InsertContainer(c)
  \/ \E enabled, recursive \in BOOLEAN :
       InsertFolder(c, enabled, recursive) \/ WriteRow(c, enabled, recursive)

RegistryMoves ==
  /\ UNCHANGED vars
  /\ \/ (\E c \in Requesters : RequestBegins(c)) /\ Spend("request")
     \/ /\ \/ \E c \in Requesters : RequestEnds(c)
           \/ \E i \in scanning : ScanEnds(i)
           \/ \E x \in callers : BeginSync(x)
           \/ EndSync
        /\ UNCHANGED budget
     \/ /\ \/ \E i \in DOMAIN folders : Rescan(i)
           \/ \E i \in scanning : ScanRaises(i)
           \/ ScanAll
           \/ RegistryRestart
        /\ Spend("other")

MCNext == WatcherMoves \/ RegistryMoves

MCSpec == MCInit /\ [][MCNext]_mcvars

(* The types of the two modules. *)
FoldersTypeOK == WatcherTypeOK /\ RegistryTypeOK

(* A file in the folder, one in a directory that can be moved, and a temporary name. *)
A == <<"root", "a">>
T == <<"root", "~">>
X(d) == <<d, "x">>
SomeFiles == {A, T, X("d"), X("e")}
Temporary == {T}

(* One directory inside the other. *)
SomeBelow == {<<"inner", "outer">>}

(* Many changes, batches that overtake one another, a batch that is lost; the requests. *)
ManyChanges == BudgetOf(4, 1, 0, 0, 0)
Overtaking == BudgetOf(3, 2, 0, 0, 0)
WithALoss == BudgetOf(2, 2, 1, 0, 0)
Registrations == BudgetOf(0, 0, 0, 3, 1)
AllScenarios == {ManyChanges, Overtaking, WithALoss, Registrations}
=============================================================================
