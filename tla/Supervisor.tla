------------------------------- MODULE Supervisor -------------------------------
(***************************************************************************)
(* The desktop shell and the backend process it owns.  Two threads start   *)
(* backends: the starter, once, and the supervision loop, after an exit it *)
(* did not ask for.  The window's events terminate the backend.  On        *)
(* Windows every backend belongs to a Job Object that kills it when its    *)
(* last handle is closed, at the latest when the shell's process ends.     *)
(*                                                                         *)
(* Another program may have a FileMind backend on the port.  A process id  *)
(* is used again once nothing refers to it.  The shell is a release build: *)
(* a debug build tries the interpreter first and then the executable.      *)
(***************************************************************************)
EXTENDS Naturals, FiniteSets

CONSTANTS
  Procs,         \* process ids
  MaxRestarts,   \* MAX_RESTART_ATTEMPTS
  TicksToReset,  \* HEALTHY_TICKS_TO_RESET
  Windows,       \* the platform has Job Objects
  None

ASSUME SupervisorAssumption ==
  MaxRestarts \in Nat /\ TicksToReset \in Nat /\ Windows \in BOOLEAN /\ None \notin Procs

VARIABLES
  backend,  \* the managed state: child_process, the process of job_guard, intentional_shutdown
  proc,     \* the processes: their life, and whether they are in a Job Object
  other,    \* a backend of another program: "none", "starting" or "healthy"
  thread,   \* the two threads: where they are, and the process they have started
  loop,     \* the supervision loop's restart_count and healthy_ticks
  app,      \* "open", "closed" (the window), "exiting" or "gone"
  since     \* how often the loop restarted since the backend was last stable

supervisorVars == <<backend, proc, other, thread, loop, app, since>>

Threads == {"starter", "supervisor"}
Starting == {"probe", "spawn", "assign", "register"}
Stages == Starting \cup {"poll", "look", "clear", "backoff", "health", "done"}

Alive(p) == proc[p].life \in {"starting", "healthy"}
Bound == other = "healthy" \/ \E p \in Procs : proc[p].life = "healthy"
Unused(p) == ~Alive(p) /\ backend.child # p /\ backend.guard # p /\ \A t \in Threads : thread[t].proc # p

SupervisorInit ==
  /\ backend = [child |-> None, guard |-> None, intentional |-> FALSE]
  /\ proc = [p \in Procs |-> [life |-> "dead", inJob |-> FALSE]]
  /\ other \in {"none", "starting", "healthy"}
  /\ thread = [t \in Threads |-> [stage |-> IF t = "starter" THEN "probe" ELSE "poll", proc |-> None]]
  /\ loop = [restarts |-> 0, ticks |-> 0]
  /\ app = "open"
  /\ since = 0

Go(t, stage) == thread' = [thread EXCEPT ![t].stage = stage]
Over(t) == IF t = "starter" THEN "done" ELSE "poll"

Finish(t) == thread' = [thread EXCEPT ![t] = [stage |-> Over(t), proc |-> None]]

Killed(p) == [proc EXCEPT ![p].life = "dead"]

-----------------------------------------------------------------------------
(* spawn_backend and handle_spawned_child *)

(* A backend that answers in time is left alone, whoever owns it. *)
Probe(t) ==
  /\ thread[t].stage = "probe"
  /\ \/ Bound /\ Finish(t)
     \/ Go(t, "spawn")
  /\ UNCHANGED <<backend, proc, other, loop, app, since>>

Spawn(t) ==
  /\ thread[t].stage = "spawn"
  /\ \E p \in Procs :
       /\ Unused(p)
       /\ proc' = [proc EXCEPT ![p] = [life |-> "starting", inJob |-> FALSE]]
       /\ thread' = [thread EXCEPT ![t] = [stage |-> IF Windows THEN "assign" ELSE "register", proc |-> p]]
  /\ UNCHANGED <<backend, other, loop, app, since>>

(* There is no executable, or the system refuses to start it. *)
SpawnFails(t) ==
  /\ thread[t].stage = "spawn"
  /\ Finish(t)
  /\ UNCHANGED <<backend, proc, other, loop, app, since>>

Assign(t) ==
  /\ thread[t].stage = "assign"
  /\ proc' = [proc EXCEPT ![thread[t].proc].inJob = TRUE]
  /\ Go(t, "register")
  /\ UNCHANGED <<backend, other, loop, app, since>>

(* No Job Object, or it does not take the child: the child is killed. *)
AssignFails(t) ==
  /\ thread[t].stage = "assign"
  /\ proc' = Killed(thread[t].proc)
  /\ Finish(t)
  /\ UNCHANGED <<backend, other, loop, app, since>>

(* Dropping the guard of the previous child closes its Job Object. *)
Register(t) ==
  /\ thread[t].stage = "register"
  /\ backend' = [backend EXCEPT !.child = thread[t].proc, !.guard = thread[t].proc]
  /\ proc' = IF Windows /\ backend.guard # None THEN Killed(backend.guard) ELSE proc
  /\ Finish(t)
  /\ UNCHANGED <<other, loop, app, since>>

-----------------------------------------------------------------------------
(* The supervision loop *)

At(stage) == thread["supervisor"].stage = stage

Poll ==
  /\ At("poll")
  /\ Go("supervisor", IF backend.intentional THEN "done" ELSE "look")
  /\ UNCHANGED <<backend, proc, other, loop, app, since>>

M_LookForNone ==
  /\ At("look")
  /\ Go("supervisor", IF backend.child = None \/ ~Alive(backend.child) THEN "clear" ELSE "health")
  /\ UNCHANGED <<backend, proc, other, loop, app, since>>

(* Without a registered child there is nothing that could have exited. *)
Look ==
  /\ At("look")
  /\ Go("supervisor", IF backend.child # None /\ ~Alive(backend.child) THEN "clear" ELSE "health")
  /\ UNCHANGED <<backend, proc, other, loop, app, since>>

(* The handle is forgotten; then the restart is counted, or the loop gives up. *)
Clear ==
  /\ At("clear")
  /\ backend' = [backend EXCEPT !.child = None]
  /\ IF loop.restarts >= MaxRestarts
     THEN Go("supervisor", "done") /\ loop' = [loop EXCEPT !.ticks = 0] /\ UNCHANGED since
     ELSE /\ loop' = [restarts |-> loop.restarts + 1, ticks |-> 0]
          /\ Go("supervisor", "backoff")
          /\ since' = since + 1
  /\ UNCHANGED <<proc, other, app>>

M_BackoffBlindly ==
  /\ At("backoff")
  /\ Go("supervisor", "probe")
  /\ UNCHANGED <<backend, proc, other, loop, app, since>>

(* The restart is counted and never made. *)
M_BackoffOnly ==
  /\ At("backoff")
  /\ Go("supervisor", IF backend.intentional THEN "done" ELSE "poll")
  /\ UNCHANGED <<backend, proc, other, loop, app, since>>

(* Is a shutdown under way after the wait? *)
Backoff ==
  /\ At("backoff")
  /\ Go("supervisor", IF backend.intentional THEN "done" ELSE "probe")
  /\ UNCHANGED <<backend, proc, other, loop, app, since>>

(* healthy_ticks is only set back when there is a count to reset, so it is bounded here. *)
Counted(answer) ==
  loop' = CASE ~answer -> [loop EXCEPT !.ticks = 0]
            [] answer /\ loop.ticks + 1 >= TicksToReset /\ loop.restarts > 0 ->
                 [restarts |-> 0, ticks |-> 0]
            [] OTHER -> [loop EXCEPT !.ticks = IF @ < TicksToReset THEN @ + 1 ELSE @]

Health ==
  /\ At("health")
  /\ \E answer \in {Bound, FALSE} :
       /\ Counted(answer)
       /\ since' = IF answer /\ loop.ticks + 1 >= TicksToReset THEN 0 ELSE since
  /\ Go("supervisor", "poll")
  /\ UNCHANGED <<backend, proc, other, app>>

-----------------------------------------------------------------------------
(* The window and the process of the shell *)

(* terminate_backend: the shutdown is intentional from now on, the child is killed and waited
   for, its Job Object closed. *)
Terminate ==
  /\ backend' = [child |-> None, guard |-> None, intentional |-> TRUE]
  /\ proc' = [p \in Procs |->
       IF p = backend.child \/ (Windows /\ p = backend.guard) THEN [proc[p] EXCEPT !.life = "dead"]
       ELSE proc[p]]
  /\ UNCHANGED <<other, thread, loop, since>>

CloseWindow == app = "open" /\ app' = "closed" /\ Terminate

ExitEvent == app \in {"open", "closed"} /\ app' = "exiting" /\ Terminate

(* The process ends, in order or killed: its threads stop where they are, and Windows closes its
   handles. *)
End ==
  /\ app # "gone"
  /\ app' = "gone"
  /\ proc' = [p \in Procs |-> IF Windows /\ proc[p].inJob THEN [proc[p] EXCEPT !.life = "dead"] ELSE proc[p]]
  /\ UNCHANGED <<backend, other, thread, loop, since>>

-----------------------------------------------------------------------------
(* The backends *)

(* Only one of them gets the port; one that does not get it exits. *)
Boot(p) ==
  /\ proc[p].life = "starting"
  /\ proc' = [proc EXCEPT ![p].life = IF Bound THEN "dead" ELSE "healthy"]
  /\ UNCHANGED <<backend, other, thread, loop, app, since>>

Crash(p) ==
  /\ Alive(p)
  /\ proc' = Killed(p)
  /\ UNCHANGED <<backend, other, thread, loop, app, since>>

OtherBoots ==
  /\ other = "starting"
  /\ other' = IF Bound THEN "none" ELSE "healthy"
  /\ UNCHANGED <<backend, proc, thread, loop, app, since>>

OtherEnds ==
  /\ other # "none"
  /\ other' = "none"
  /\ UNCHANGED <<backend, proc, thread, loop, app, since>>

StartStep(t) == app # "gone" /\ (Probe(t) \/ Spawn(t) \/ Assign(t) \/ Register(t))
FailStep(t) == app # "gone" /\ (SpawnFails(t) \/ AssignFails(t))
LoopStep == app # "gone" /\ (Poll \/ Look \/ Clear \/ Backoff \/ Health)

SupervisorNext ==
  \/ LoopStep
  \/ \E t \in Threads : StartStep(t) \/ FailStep(t)
  \/ CloseWindow \/ ExitEvent \/ End
  \/ \E p \in Procs : Boot(p) \/ Crash(p)
  \/ OtherBoots \/ OtherEnds

SupervisorSpec == SupervisorInit /\ [][SupervisorNext]_supervisorVars

(* Both threads run on, and a backend that starts gets ready or exits. *)
SupervisorFairness ==
  /\ WF_supervisorVars(LoopStep)
  /\ \A t \in Threads : WF_supervisorVars(StartStep(t) \/ FailStep(t))
  /\ \A p \in Procs : WF_supervisorVars(Boot(p))

-----------------------------------------------------------------------------
(* Types; what a thread carries agrees with its stage. *)
SupervisorTypeOK ==
  /\ backend \in [child : Procs \cup {None}, guard : Procs \cup {None}, intentional : BOOLEAN]
  /\ proc \in [Procs -> [life : {"starting", "healthy", "dead"}, inJob : BOOLEAN]]
  /\ other \in {"none", "starting", "healthy"}
  /\ thread \in [Threads -> [stage : Stages, proc : Procs \cup {None}]]
  /\ loop \in [restarts : 0..MaxRestarts, ticks : 0..TicksToReset]
  /\ app \in {"open", "closed", "exiting", "gone"}
  /\ since \in Nat
  /\ \A t \in Threads : thread[t].proc = None <=> thread[t].stage \notin {"assign", "register"}

(* The shell never has two backends alive: the starter is through before the loop has anything
   to restart, and the loop starts one only after the last one exited. *)
OneBackend == \A p, q \in Procs : Alive(p) /\ Alive(q) => p = q

(* Where there are Job Objects, no backend outlives the shell, unless the shell ended in the
   moment between the start of the process and its assignment to the Job Object. *)
OrphanOnlyUnassigned ==
  Windows /\ app = "gone" =>
    \A p \in Procs : Alive(p) => \E t \in Threads : thread[t] = [stage |-> "assign", proc |-> p]

(* job_object.rs promises it without that exception. *)
DiesWithApp == Windows /\ app = "gone" => \A p \in Procs : ~Alive(p)

(* Between two stable periods the loop restarts the backend at most MaxRestarts times. *)
RestartBudget == since <= MaxRestarts

(* Once the shutdown is intentional, no thread begins to start a backend. *)
NoNewStart ==
  [][\A t \in Threads :
       backend.intentional /\ thread[t].stage \notin Starting => thread'[t].stage \notin Starting
    ]_supervisorVars

(* Whose hands a live backend is in, and what the loop may count on while it restarts one; with
   the types this is inductive and gives OneBackend and OrphanOnlyUnassigned. *)
Restarting == thread["supervisor"].stage \notin {"poll", "look", "health", "done"}

InHand(p) == backend.child = p \/ \E t \in Threads : thread[t].proc = p

Custody ==
  /\ \A p \in Procs : Alive(p) => InHand(p)
  /\ thread["starter"].stage # "done" => backend.child = None /\ ~Restarting
  /\ Restarting => backend.child = None \/ ~Alive(backend.child)

Confinement ==
  Windows => \A p \in Procs : Alive(p) =>
    /\ proc[p].inJob \/ \E t \in Threads : thread[t] = [stage |-> "assign", proc |-> p]
    /\ app = "gone" => ~proc[p].inJob

(* Together: where every live backend is at each step of a start, an exit and a shutdown, and
   that no more restarts happened since the last stable period than the loop has counted. *)
SupervisorInv == SupervisorTypeOK /\ Custody /\ Confinement /\ since <= loop.restarts

Down == backend.child # None /\ ~Alive(backend.child)
Somebody == other # "none" \/ \E p \in Procs : Alive(p)
Watching == app # "gone" /\ thread["supervisor"].stage # "done"

(* An exit of the child leads to a restart: the loop comes to where a process is started, even
   if its handle was forgotten long before, unless there is a backend again, or the loop has
   ended (a shutdown, or all attempts used).  What becomes of that attempt is another matter:
   see KeepsTrying. *)
ExitLeadsToRestart == Down ~> (At("spawn") \/ Somebody \/ ~Watching)

(* What the comment on the loop promises: it goes on until a backend runs or the attempts are
   used up. *)
KeepsTrying ==
  [](Down => <>(Somebody \/ backend.intentional \/ app = "gone" \/ loop.restarts = MaxRestarts))
=============================================================================
