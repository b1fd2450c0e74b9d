------------------------------ MODULE StartsProofs ------------------------------
(***************************************************************************)
(* What is started in the background.  LoaderInv is an inductive invariant *)
(* of the model loader, for any number of callers and of thread            *)
(* identities: a step changes either where one caller is, or how far one   *)
(* thread is, so the proof has a lemma for each kind of step.              *)
(* SupervisorInv is one of the desktop shell, for any set of process ids,  *)
(* restart limit and number of ticks, with and without Job Objects.        *)
(***************************************************************************)
EXTENDS MCStarts, TLAPS

USE LoaderAssumption DEF CallerStages, ThreadStages, Readiness

LEMMA LoaderInitInv == LoaderInit => LoaderInv
BY DEF LoaderInit, LoaderInv, LoaderTypeOK, OneLoader, OneHolder, NoLostWakeUp, RegistrySound,
       TracesOfThreads, is_alive

(* A caller moves and the loader stays as it is, but for the memory of the last failure. *)
LEMMA CallerMoves ==
  ASSUME LoaderInv, NEW c \in Callers, NEW stage \in CallerStages, MoveTo(c, stage),
         NEW r \in BOOLEAN, loader' = [loader EXCEPT !.recent = r],
         stage = "holding" => \A d \in Callers : caller[d] # "holding",
         stage \in {"going", "waiting"} =>
           /\ loader.current # NoThread
           /\ \/ \E t \in LoaderThreads : loader.thread[t] \notin {"signalled", "dead"}
              \/ stage = "going" /\ loader.done,
         stage = "woken" => loader.current # NoThread
  PROVE  LoaderInv'
<1>0. LoaderTypeOK /\ OneLoader /\ OneHolder /\ NoLostWakeUp /\ RegistrySound /\ TracesOfThreads
  BY DEF LoaderInv
<1>1. /\ loader'.model = loader.model /\ loader'.done = loader.done /\ loader'.error = loader.error
      /\ loader'.current = loader.current /\ loader'.thread = loader.thread
      /\ loader'.readiness = loader.readiness
      /\ caller' = [caller EXCEPT ![c] = stage]
  BY <1>0 DEF LoaderTypeOK, MoveTo
<1>2. LoaderTypeOK'
  BY <1>0, <1>1 DEF LoaderTypeOK
<1>3. OneLoader' /\ RegistrySound' /\ TracesOfThreads'
  BY <1>0, <1>1 DEF OneLoader, RegistrySound, TracesOfThreads, is_alive
<1>4. OneHolder'
  BY <1>0, <1>1 DEF LoaderTypeOK, OneHolder
<1>5. NoLostWakeUp'
  BY <1>0, <1>1 DEF LoaderTypeOK, NoLostWakeUp
<1> QED
  BY <1>2, <1>3, <1>4, <1>5 DEF LoaderInv

(* A new thread starts only where none is alive, so it is the one that is shared from now on. *)
LEMMA StartInv ==
  ASSUME LoaderInv, NEW c \in Callers, StartOrShare(c)
  PROVE  LoaderInv'
<1>0. LoaderTypeOK /\ OneLoader /\ OneHolder /\ NoLostWakeUp /\ RegistrySound /\ TracesOfThreads
  BY DEF LoaderInv
<1>1. CASE loader.current # NoThread /\ is_alive(loader.current)
  <2>1. MoveTo(c, "going") /\ loader' = [loader EXCEPT !.recent = loader.recent]
    BY <1>0, <1>1 DEF StartOrShare, LoaderTypeOK
  <2>2. loader.current \in LoaderThreads /\ loader.recent \in BOOLEAN
    BY <1>0, <1>1 DEF LoaderTypeOK
  <2>3. \/ \E t \in LoaderThreads : loader.thread[t] \notin {"signalled", "dead"}
        \/ loader.done
    BY <1>0, <1>1, <2>2 DEF is_alive, TracesOfThreads
  <2> QED
    BY <1>1, <2>1, <2>2, <2>3, CallerMoves
<1>2. CASE ~(loader.current # NoThread /\ is_alive(loader.current))
  <2>1. PICK t \in LoaderThreads :
          loader' = [loader EXCEPT !.done = FALSE, !.error = FALSE, !.current = t,
                                   !.thread[t] = "started"]
    BY <1>2 DEF StartOrShare
  <2>2. \A u \in LoaderThreads : loader.thread[u] = "dead"
    BY <1>0, <1>2 DEF OneLoader, is_alive
  <2>3. /\ loader'.model = loader.model /\ loader'.done = FALSE /\ loader'.error = FALSE
        /\ loader'.current = t /\ loader'.thread = [loader.thread EXCEPT ![t] = "started"]
        /\ loader'.readiness = loader.readiness /\ loader'.recent = loader.recent
        /\ caller' = [caller EXCEPT ![c] = "going"] /\ caller[c] = "holding"
    BY <1>0, <2>1 DEF LoaderTypeOK, StartOrShare, MoveTo
  <2>4. LoaderTypeOK'
    BY <1>0, <2>1, <2>3 DEF LoaderTypeOK
  <2>5. OneLoader'
    BY <1>0, <2>2, <2>3 DEF OneLoader, is_alive, LoaderTypeOK
  <2>6. OneHolder'
    BY <1>0, <2>3 DEF OneHolder, LoaderTypeOK
  <2>7. NoLostWakeUp'
    BY <1>0, <2>3 DEF NoLostWakeUp, LoaderTypeOK
  <2>8. RegistrySound' /\ TracesOfThreads'
    BY <1>0, <2>2, <2>3 DEF RegistrySound, TracesOfThreads, LoaderTypeOK
  <2> QED
    BY <2>4, <2>5, <2>6, <2>7, <2>8 DEF LoaderInv
<1> QED
  BY <1>1, <1>2

LEMMA CallerInv ==
  ASSUME LoaderInv, NEW c \in Callers, Call(c) \/ CallerStep(c) \/ TimeOut(c) \/ Leave(c)
  PROVE  LoaderInv'
<1>0. LoaderTypeOK /\ OneLoader /\ NoLostWakeUp
  BY DEF LoaderInv
<1>1. UNCHANGED loader => loader' = [loader EXCEPT !.recent = loader.recent]
  BY <1>0 DEF LoaderTypeOK
<1>2. loader.recent \in BOOLEAN /\ loader.error \in BOOLEAN
  BY <1>0 DEF LoaderTypeOK
<1>3. CASE Call(c) \/ TimeOut(c) \/ Leave(c)
  <2>1. PICK stage \in {"loaded", "enter", "failed", "out"} : MoveTo(c, stage) /\ UNCHANGED loader
    BY <1>3 DEF Call, TimeOut, Leave
  <2> QED
    BY <1>1, <1>2, <2>1, CallerMoves
<1>4. CASE Enter(c)
  <2>1. PICK stage \in {"loaded", "failed", "holding"} : MoveTo(c, stage) /\ UNCHANGED loader
    BY <1>4 DEF Enter
  <2>2. \A d \in Callers : caller[d] # "holding"
    BY <1>4 DEF Enter
  <2> QED
    BY <1>1, <1>2, <2>1, <2>2, CallerMoves
<1>5. CASE Wait(c)
  <2>1. loader.current # NoThread
    BY <1>0, <1>5 DEF Wait, LoaderTypeOK
  <2>2. CASE loader.done
    BY <1>1, <1>2, <1>5, <2>1, <2>2, CallerMoves DEF Wait
  <2>3. CASE ~loader.done
    <3>1. \E t \in LoaderThreads : loader.thread[t] \notin {"signalled", "dead"}
      BY <1>0, <1>5, <2>3 DEF Wait, NoLostWakeUp
    <3> QED
      BY <1>1, <1>2, <1>5, <2>1, <2>3, <3>1, CallerMoves DEF Wait
  <2> QED
    BY <2>2, <2>3
<1>6. CASE Return(c)
  <2>1. PICK stage \in {"failed", "loaded"} : MoveTo(c, stage)
    BY <1>6 DEF Return
  <2>2. loader' = [loader EXCEPT !.recent = loader.recent \/ loader.error]
    BY <1>6 DEF Return
  <2>3. (loader.recent \/ loader.error) \in BOOLEAN
    OBVIOUS
  <2> QED
    BY <2>1, <2>2, <2>3, CallerMoves
<1>7. CASE StartOrShare(c)
  BY <1>7, StartInv
<1> QED
  BY <1>3, <1>4, <1>5, <1>6, <1>7 DEF CallerStep

-----------------------------------------------------------------------------
(* The loading thread. *)

LEMMA BeginInv ==
  ASSUME LoaderInv, NEW t \in LoaderThreads, Begin(t), UNCHANGED caller
  PROVE  LoaderInv'
<1>0. LoaderTypeOK /\ OneLoader /\ OneHolder /\ NoLostWakeUp /\ RegistrySound /\ TracesOfThreads
  BY DEF LoaderInv
<1>1. /\ loader.thread[t] = "started" /\ loader'.thread = [loader.thread EXCEPT ![t] = "loading"]
      /\ loader'.readiness = "LOADING" /\ loader'.model = loader.model
      /\ loader'.done = loader.done /\ loader'.current = loader.current
  BY <1>0 DEF Begin, LoaderTypeOK
<1>2. LoaderTypeOK'
  BY <1>0 DEF LoaderTypeOK, Begin
<1> QED
  BY <1>0, <1>1, <1>2 DEF LoaderInv, LoaderTypeOK, OneLoader, OneHolder, NoLostWakeUp,
                          RegistrySound, TracesOfThreads, is_alive

LEMMA LoadInv ==
  ASSUME LoaderInv, NEW t \in LoaderThreads, Load(t), UNCHANGED caller
  PROVE  LoaderInv'
<1>0. LoaderTypeOK /\ OneLoader /\ OneHolder /\ NoLostWakeUp /\ RegistrySound /\ TracesOfThreads
  BY DEF LoaderInv
<1>1. /\ loader.thread[t] = "loading" /\ loader'.thread = [loader.thread EXCEPT ![t] = "loaded"]
      /\ loader'.readiness = loader.readiness /\ loader'.model = TRUE
      /\ loader'.done = loader.done /\ loader'.current = loader.current
  BY <1>0 DEF Load, LoaderTypeOK
<1>2. LoaderTypeOK'
  BY <1>0 DEF LoaderTypeOK, Load
<1> QED
  BY <1>0, <1>1, <1>2 DEF LoaderInv, LoaderTypeOK, OneLoader, OneHolder, NoLostWakeUp,
                          RegistrySound, TracesOfThreads, is_alive

LEMMA ReadyInv ==
  ASSUME LoaderInv, NEW t \in LoaderThreads, Ready(t), UNCHANGED caller
  PROVE  LoaderInv'
<1>0. LoaderTypeOK /\ OneLoader /\ OneHolder /\ NoLostWakeUp /\ RegistrySound /\ TracesOfThreads
  BY DEF LoaderInv
<1>1. /\ loader.thread[t] = "loaded" /\ loader'.thread = [loader.thread EXCEPT ![t] = "ending"]
      /\ loader'.readiness = "READY" /\ loader'.model = loader.model
      /\ loader'.done = loader.done /\ loader'.current = loader.current
  BY <1>0 DEF Ready, LoaderTypeOK
<1>2. LoaderTypeOK'
  BY <1>0 DEF LoaderTypeOK, Ready
<1>3. OneLoader' /\ OneHolder' /\ NoLostWakeUp' /\ TracesOfThreads'
  BY <1>0, <1>1 DEF LoaderTypeOK, OneLoader, OneHolder, NoLostWakeUp, TracesOfThreads, is_alive
<1>4. RegistrySound'
  BY <1>0, <1>1 DEF RegistrySound, TracesOfThreads
<1> QED
  BY <1>2, <1>3, <1>4 DEF LoaderInv

LEMMA FailInv ==
  ASSUME LoaderInv, NEW t \in LoaderThreads, Fail(t), UNCHANGED caller
  PROVE  LoaderInv'
<1>0. LoaderTypeOK /\ OneLoader /\ OneHolder /\ NoLostWakeUp /\ RegistrySound /\ TracesOfThreads
  BY DEF LoaderInv
<1>1. /\ loader.thread[t] = "loading" /\ loader'.thread = [loader.thread EXCEPT ![t] = "raised"]
      /\ loader'.readiness = loader.readiness /\ loader'.model = loader.model
      /\ loader'.done = loader.done /\ loader'.current = loader.current
  BY <1>0 DEF Fail, LoaderTypeOK
<1>2. LoaderTypeOK'
  BY <1>0 DEF LoaderTypeOK, Fail
<1>3. OneLoader' /\ OneHolder' /\ NoLostWakeUp' /\ TracesOfThreads'
  BY <1>0, <1>1 DEF LoaderTypeOK, OneLoader, OneHolder, NoLostWakeUp, TracesOfThreads, is_alive
<1>4. RegistrySound'
  BY <1>0, <1>1 DEF LoaderTypeOK, RegistrySound, TracesOfThreads, is_alive
<1> QED
  BY <1>2, <1>3, <1>4 DEF LoaderInv

LEMMA TimeFailureInv ==
  ASSUME LoaderInv, NEW t \in LoaderThreads, TimeFailure(t), UNCHANGED caller
  PROVE  LoaderInv'
<1>0. LoaderTypeOK /\ OneLoader /\ OneHolder /\ NoLostWakeUp /\ RegistrySound /\ TracesOfThreads
  BY DEF LoaderInv
<1>1. /\ loader.thread[t] = "raised" /\ loader'.thread = [loader.thread EXCEPT ![t] = "timed"]
      /\ loader'.readiness = loader.readiness /\ loader'.model = loader.model
      /\ loader'.done = loader.done /\ loader'.current = loader.current
  BY <1>0 DEF TimeFailure, LoaderTypeOK
<1>2. LoaderTypeOK'
  BY <1>0 DEF LoaderTypeOK, TimeFailure
<1>3. OneLoader' /\ OneHolder' /\ NoLostWakeUp' /\ TracesOfThreads'
  BY <1>0, <1>1 DEF LoaderTypeOK, OneLoader, OneHolder, NoLostWakeUp, TracesOfThreads, is_alive
<1>4. RegistrySound'
  BY <1>0, <1>1 DEF LoaderTypeOK, RegistrySound, TracesOfThreads, is_alive
<1> QED
  BY <1>2, <1>3, <1>4 DEF LoaderInv

LEMMA ReportFailureInv ==
  ASSUME LoaderInv, NEW t \in LoaderThreads, ReportFailure(t), UNCHANGED caller
  PROVE  LoaderInv'
<1>0. LoaderTypeOK /\ OneLoader /\ OneHolder /\ NoLostWakeUp /\ RegistrySound /\ TracesOfThreads
  BY DEF LoaderInv
<1>1. /\ loader.thread[t] = "timed" /\ loader'.thread = [loader.thread EXCEPT ![t] = "ending"]
      /\ loader'.readiness = "FAILED" /\ loader'.model = loader.model
      /\ loader'.done = loader.done /\ loader'.current = loader.current
  BY <1>0 DEF ReportFailure, LoaderTypeOK
<1>2. LoaderTypeOK'
  BY <1>0 DEF LoaderTypeOK, ReportFailure
<1>3. OneLoader' /\ OneHolder' /\ NoLostWakeUp' /\ TracesOfThreads'
  BY <1>0, <1>1 DEF LoaderTypeOK, OneLoader, OneHolder, NoLostWakeUp, TracesOfThreads, is_alive
<1>4. RegistrySound'
  BY <1>0, <1>1 DEF LoaderTypeOK, RegistrySound, TracesOfThreads, is_alive
<1> QED
  BY <1>2, <1>3, <1>4 DEF LoaderInv

(* After the signal nobody waits, and who comes later finds the event set. *)
LEMMA SignalInv ==
  ASSUME LoaderInv, NEW t \in LoaderThreads, Signal(t)
  PROVE  LoaderInv'
<1>0. LoaderTypeOK /\ OneLoader /\ OneHolder /\ NoLostWakeUp /\ RegistrySound /\ TracesOfThreads
  BY DEF LoaderInv
<1>1. /\ loader.thread[t] = "ending" /\ loader'.thread = [loader.thread EXCEPT ![t] = "signalled"]
      /\ loader'.readiness = loader.readiness /\ loader'.model = loader.model
      /\ loader'.done = TRUE /\ loader'.current = loader.current
      /\ \A c \in Callers : caller'[c] = IF caller[c] = "waiting" THEN "woken" ELSE caller[c]
  BY <1>0 DEF Signal, LoaderTypeOK
<1>2. LoaderTypeOK'
  <2>1. caller' \in [Callers -> CallerStages]
    BY <1>0 DEF LoaderTypeOK, Signal
  <2>2. loader' = [loader EXCEPT !.done = TRUE, !.thread[t] = "signalled"]
    BY DEF Signal
  <2> QED
    BY <1>0, <1>1, <2>1, <2>2 DEF LoaderTypeOK
<1>3. OneLoader' /\ OneHolder'
  BY <1>0, <1>1 DEF LoaderTypeOK, OneLoader, OneHolder, is_alive
<1>4. NoLostWakeUp'
  <2>1. \A c \in Callers : caller'[c] # "waiting"
    BY <1>1
  <2> QED
    BY <1>1, <2>1 DEF NoLostWakeUp
<1>5. RegistrySound' /\ TracesOfThreads'
  BY <1>0, <1>1 DEF LoaderTypeOK, RegistrySound, TracesOfThreads, is_alive
<1> QED
  BY <1>2, <1>3, <1>4, <1>5 DEF LoaderInv

LEMMA DieInv ==
  ASSUME LoaderInv, NEW t \in LoaderThreads, Die(t), UNCHANGED caller
  PROVE  LoaderInv'
<1>0. LoaderTypeOK /\ OneLoader /\ OneHolder /\ NoLostWakeUp /\ RegistrySound /\ TracesOfThreads
  BY DEF LoaderInv
<1>1. /\ loader.thread[t] = "signalled" /\ loader'.thread = [loader.thread EXCEPT ![t] = "dead"]
      /\ loader'.readiness = loader.readiness /\ loader'.model = loader.model
      /\ loader'.done = loader.done /\ loader'.current = loader.current
  BY <1>0 DEF Die, LoaderTypeOK
<1>2. LoaderTypeOK'
  BY <1>0 DEF LoaderTypeOK, Die
<1> QED
  BY <1>0, <1>1, <1>2 DEF LoaderInv, LoaderTypeOK, OneLoader, OneHolder, NoLostWakeUp,
                          RegistrySound, TracesOfThreads, is_alive

LEMMA LoaderStepInv == LoaderInv /\ [LoaderNext]_loadVars => LoaderInv'
<1> SUFFICES ASSUME LoaderInv, [LoaderNext]_loadVars PROVE LoaderInv'
  OBVIOUS
<1>1. CASE UNCHANGED loadVars
  BY <1>1 DEF loadVars, LoaderInv, LoaderTypeOK, OneLoader, OneHolder, NoLostWakeUp,
              RegistrySound, TracesOfThreads, is_alive
<1>2. ASSUME NEW c \in Callers, Call(c) \/ CallerStep(c) \/ TimeOut(c) \/ Leave(c)
      PROVE  LoaderInv'
  BY <1>2, CallerInv
<1>3. ASSUME NEW t \in LoaderThreads, ThreadStep(t) PROVE LoaderInv'
  BY <1>3, BeginInv, LoadInv, ReadyInv, FailInv, TimeFailureInv, ReportFailureInv, SignalInv, DieInv DEF ThreadStep
<1>4. CASE CoolDownOver
  <2>1. LoaderTypeOK
    BY DEF LoaderInv
  <2>2. /\ loader'.model = loader.model /\ loader'.done = loader.done
        /\ loader'.current = loader.current /\ loader'.thread = loader.thread
        /\ loader'.readiness = loader.readiness /\ UNCHANGED caller
    BY <1>4, <2>1 DEF CoolDownOver, LoaderTypeOK
  <2>3. LoaderTypeOK'
    BY <1>4, <2>1 DEF CoolDownOver, LoaderTypeOK
  <2> QED
    BY <2>2, <2>3 DEF LoaderInv, OneLoader, OneHolder, NoLostWakeUp, RegistrySound,
                      TracesOfThreads, is_alive
<1> QED
  BY <1>1, <1>2, <1>3, <1>4 DEF LoaderNext

(* Types, the single thread, the lock, the wake-up and the registry hold together. *)
THEOREM LoaderInvariant == LoaderSpec => []LoaderInv
BY LoaderInitInv, LoaderStepInv, PTL DEF LoaderSpec

(* Type correctness for every set of callers and threads. *)
THEOREM LoaderTypeCorrect == LoaderSpec => []LoaderTypeOK
<1>1. LoaderInv => LoaderTypeOK
  BY DEF LoaderInv
<1> QED
  BY <1>1, LoaderInvariant, PTL

(* However many callers time out and come back, no second copy of the model is being loaded. *)
THEOREM OneLoaderAlive == LoaderSpec => []OneLoader
<1>1. LoaderInv => OneLoader
  BY DEF LoaderInv
<1> QED
  BY <1>1, LoaderInvariant, PTL

(* Whoever waits has a thread that will wake it. *)
THEOREM WakeUpsAreNotLost == LoaderSpec => []NoLostWakeUp
<1>1. LoaderInv => NoLostWakeUp
  BY DEF LoaderInv
<1> QED
  BY <1>1, LoaderInvariant, PTL

(* The registry never shows READY without a model, nor LOADING without a thread. *)
THEOREM RegistryTellsTheTruth == LoaderSpec => []RegistrySound
<1>1. LoaderInv => RegistrySound
  BY DEF LoaderInv
<1> QED
  BY <1>1, LoaderInvariant, PTL

-----------------------------------------------------------------------------
(* The desktop shell *)

USE SupervisorAssumption DEF Threads, Starting, Stages

LEMMA SupervisorInitInv == SupervisorInit => SupervisorInv
BY DEF SupervisorInit, SupervisorInv, SupervisorTypeOK, Custody, Confinement, Restarting, InHand,
       Alive

-----------------------------------------------------------------------------
(* One lemma per action: the types, then where the live backends are. *)

(* A thread moves between stages in which it carries no process. *)
LEMMA MoveInv ==
  ASSUME SupervisorInv, NEW t \in Threads, NEW stage \in Stages \ {"assign", "register"},
         thread[t].stage \notin {"assign", "register"}, Go(t, stage),
         UNCHANGED <<backend, proc, app>>,
         loop' \in [restarts : 0..MaxRestarts, ticks : 0..TicksToReset],
         since' \in Nat, since' <= loop'.restarts, other' \in {"none", "starting", "healthy"},
         t = "starter" => stage \in {"done", "spawn"},
         t = "starter" => thread[t].stage # "done",
         t = "supervisor" /\ stage \notin {"poll", "look", "health", "done"} =>
           \/ Restarting
           \/ backend.child # None /\ ~Alive(backend.child)
  PROVE  SupervisorInv'
<1>0. SupervisorTypeOK /\ Custody /\ Confinement
  BY DEF SupervisorInv
<1>1. /\ thread' = [thread EXCEPT ![t].stage = stage] /\ thread[t].proc = None
      /\ thread'[t] = [stage |-> stage, proc |-> None]
      /\ \A u \in Threads : u # t => thread'[u] = thread[u]
  BY <1>0 DEF SupervisorTypeOK, Go
<1>2. SupervisorTypeOK'
  BY <1>0, <1>1 DEF SupervisorTypeOK
<1>3. Custody'
  BY <1>0, <1>1 DEF Custody, Restarting, InHand, Alive, SupervisorTypeOK
<1>4. Confinement'
  BY <1>0, <1>1 DEF Confinement, Alive
<1> QED
  BY <1>2, <1>3, <1>4 DEF SupervisorInv

LEMMA FinishInv ==
  ASSUME SupervisorInv, NEW t \in Threads, thread[t].stage \in {"probe", "spawn"}, Finish(t),
         UNCHANGED <<backend, proc, other, loop, app, since>>
  PROVE  SupervisorInv'
<1>1. SupervisorTypeOK /\ Custody /\ since <= loop.restarts
  BY DEF SupervisorInv
<1>2. thread[t].proc = None /\ Over(t) \in {"done", "poll"} /\ (t = "starter" => Over(t) = "done")
  BY <1>1 DEF SupervisorTypeOK, Over
<1>3. Go(t, Over(t))
  BY <1>1, <1>2 DEF SupervisorTypeOK, Go, Finish
<1>4. thread[t].stage \notin {"assign", "register", "done"}
  OBVIOUS
<1>5. t \in Threads => (t = "supervisor" => Over(t) = "poll")
  BY DEF Over
<1> QED
  BY <1>1, <1>2, <1>3, <1>4, <1>5, MoveInv DEF SupervisorTypeOK

LEMMA SpawnInv ==
  ASSUME SupervisorInv, NEW t \in Threads, Spawn(t), app # "gone"
  PROVE  SupervisorInv'
<1>0. SupervisorTypeOK /\ Custody /\ Confinement /\ since <= loop.restarts
  BY DEF SupervisorInv
<1> DEFINE next == IF Windows THEN "assign" ELSE "register"
<1>1. PICK p \in Procs :
        /\ Unused(p)
        /\ proc' = [proc EXCEPT ![p] = [life |-> "starting", inJob |-> FALSE]]
        /\ thread' = [thread EXCEPT ![t] = [stage |-> next, proc |-> p]]
  BY DEF Spawn
<1>2. /\ thread[t].stage = "spawn" /\ thread[t].proc = None
      /\ UNCHANGED <<backend, other, loop, app, since>>
      /\ thread'[t] = [stage |-> next, proc |-> p]
      /\ \A u \in Threads : u # t => thread'[u] = thread[u]
      /\ \A q \in Procs : q # p => proc'[q] = proc[q]
      /\ proc'[p] = [life |-> "starting", inJob |-> FALSE]
  BY <1>0, <1>1 DEF SupervisorTypeOK, Spawn
<1>3. ~Alive(p) /\ backend.child # p /\ p # None
  BY <1>1 DEF Unused
<1>4. SupervisorTypeOK'
  BY <1>0, <1>1, <1>2, <1>3 DEF SupervisorTypeOK
<1>5. Custody'
  <2>1. \A q \in Procs : Alive(q)' => InHand(q)'
    <3> SUFFICES ASSUME NEW q \in Procs, Alive(q)' PROVE InHand(q)'
      OBVIOUS
    <3>1. CASE q = p
      BY <1>2, <3>1 DEF InHand
    <3>2. CASE q # p
      <4>1. InHand(q) /\ q # None
        BY <1>0, <1>2, <3>2 DEF Custody, Alive
      <4> QED
        BY <1>2, <4>1 DEF InHand
    <3> QED
      BY <3>1, <3>2
  <2>2. CASE t = "starter"
    BY <1>0, <1>2, <2>1, <2>2 DEF Custody, Restarting
  <2>3. CASE t = "supervisor"
    <3>1. Restarting /\ thread'["starter"].stage = "done"
      BY <1>0, <1>2, <2>3 DEF Custody, Restarting
    <3>2. (backend.child = None \/ ~Alive(backend.child))'
      BY <1>0, <1>2, <1>3, <3>1 DEF Custody, Alive, SupervisorTypeOK
    <3> QED
      BY <2>1, <3>1, <3>2 DEF Custody
  <2> QED
    BY <2>2, <2>3
<1>6. Confinement'
  BY <1>0, <1>2 DEF Confinement, Alive
<1> QED
  BY <1>0, <1>2, <1>4, <1>5, <1>6 DEF SupervisorInv

LEMMA AssignInv ==
  ASSUME SupervisorInv, NEW t \in Threads, Assign(t), app # "gone"
  PROVE  SupervisorInv'
<1>0. SupervisorTypeOK /\ Custody /\ Confinement /\ since <= loop.restarts
  BY DEF SupervisorInv
<1> DEFINE p == thread[t].proc
<1>1. /\ thread[t].stage = "assign" /\ p \in Procs /\ thread[t] = [stage |-> "assign", proc |-> p]
      /\ UNCHANGED <<backend, other, loop, app, since>>
      /\ proc' = [proc EXCEPT ![p].inJob = TRUE]
      /\ thread' = [thread EXCEPT ![t].stage = "register"]
  BY <1>0 DEF SupervisorTypeOK, Assign, Go
<1>2. /\ thread'[t] = [stage |-> "register", proc |-> p]
      /\ \A u \in Threads : u # t => thread'[u] = thread[u]
      /\ \A q \in Procs : proc'[q].life = proc[q].life
      /\ \A q \in Procs : q # p => proc'[q].inJob = proc[q].inJob
      /\ proc'[p].inJob = TRUE
  BY <1>0, <1>1 DEF SupervisorTypeOK
<1>3. SupervisorTypeOK'
  BY <1>0, <1>1, <1>2 DEF SupervisorTypeOK
<1>4. Custody'
  BY <1>0, <1>1, <1>2 DEF Custody, Restarting, InHand, Alive
<1>5. Confinement'
  BY <1>0, <1>1, <1>2 DEF Confinement, Alive
<1> QED
  BY <1>0, <1>1, <1>3, <1>4, <1>5 DEF SupervisorInv

(* Processes die, with the rest of the world as it was. *)
LEMMA DeathsInv ==
  ASSUME SupervisorInv, NEW dead \in SUBSET Procs,
         proc' = [p \in Procs |-> IF p \in dead THEN [proc[p] EXCEPT !.life = "dead"] ELSE proc[p]],
         UNCHANGED <<backend, other, thread, loop, since>>,
         app' = app \/ (app' = "gone" /\ \A p \in Procs : Windows /\ proc[p].inJob => p \in dead)
  PROVE  SupervisorInv'
<1>0. SupervisorTypeOK /\ Custody /\ Confinement /\ since <= loop.restarts
  BY DEF SupervisorInv
<1>1. \A p \in Procs :
        /\ p \in dead => ~Alive(p)'
        /\ p \notin dead => proc'[p] = proc[p]
        /\ Alive(p)' => Alive(p) /\ p \notin dead
  BY DEF Alive
<1>2. SupervisorTypeOK'
  <2>1. proc' \in [Procs -> [life : {"starting", "healthy", "dead"}, inJob : BOOLEAN]]
    BY <1>0 DEF SupervisorTypeOK
  <2> QED
    BY <1>0, <2>1 DEF SupervisorTypeOK
<1>3. Custody'
  BY <1>0, <1>1 DEF Custody, Restarting, InHand, SupervisorTypeOK
<1>4. Confinement'
  BY <1>0, <1>1 DEF Confinement
<1> QED
  BY <1>0, <1>2, <1>3, <1>4 DEF SupervisorInv

LEMMA AssignFailsInv ==
  ASSUME SupervisorInv, NEW t \in Threads, AssignFails(t)
  PROVE  SupervisorInv'
<1>0. SupervisorTypeOK /\ Custody /\ Confinement /\ since <= loop.restarts
  BY DEF SupervisorInv
<1> DEFINE p == thread[t].proc
<1>1. /\ thread[t].stage = "assign" /\ p \in Procs
      /\ UNCHANGED <<backend, other, loop, app, since>>
      /\ proc' = [proc EXCEPT ![p].life = "dead"]
      /\ thread' = [thread EXCEPT ![t] = [stage |-> Over(t), proc |-> None]]
      /\ Over(t) = IF t = "starter" THEN "done" ELSE "poll"
  BY <1>0 DEF SupervisorTypeOK, AssignFails, Killed, Finish, Over
<1>2. /\ thread'[t] = [stage |-> Over(t), proc |-> None]
      /\ \A u \in Threads : u # t => thread'[u] = thread[u]
      /\ \A q \in Procs : q # p => proc'[q] = proc[q]
      /\ proc'[p].life = "dead"
  BY <1>0, <1>1 DEF SupervisorTypeOK
<1>3. SupervisorTypeOK'
  BY <1>0, <1>1, <1>2 DEF SupervisorTypeOK
<1>4. \A q \in Procs : Alive(q)' => Alive(q) /\ q # p
  BY <1>2 DEF Alive
<1>5. Custody'
  BY <1>0, <1>1, <1>2, <1>4 DEF Custody, Restarting, InHand, SupervisorTypeOK
<1>6. Confinement'
  BY <1>0, <1>1, <1>2, <1>4 DEF Confinement
<1> QED
  BY <1>0, <1>1, <1>3, <1>5, <1>6 DEF SupervisorInv

(* The old child is gone by now, so closing its Job Object kills nobody who is alive. *)
LEMMA RegisterInv ==
  ASSUME SupervisorInv, NEW t \in Threads, Register(t)
  PROVE  SupervisorInv'
<1>0. SupervisorTypeOK /\ Custody /\ Confinement /\ since <= loop.restarts
  BY DEF SupervisorInv
<1> DEFINE p == thread[t].proc
<1>1. /\ thread[t].stage = "register" /\ p \in Procs
      /\ UNCHANGED <<other, loop, app, since>>
      /\ backend' = [backend EXCEPT !.child = p, !.guard = p]
      /\ thread' = [thread EXCEPT ![t] = [stage |-> Over(t), proc |-> None]]
      /\ Over(t) = IF t = "starter" THEN "done" ELSE "poll"
  BY <1>0 DEF SupervisorTypeOK, Register, Finish, Over
<1>2. /\ thread'[t] = [stage |-> Over(t), proc |-> None] /\ backend'.child = p
      /\ \A u \in Threads : u # t => thread'[u] = thread[u]
  BY <1>0, <1>1 DEF SupervisorTypeOK
<1>3. /\ proc' \in [Procs -> [life : {"starting", "healthy", "dead"}, inJob : BOOLEAN]]
      /\ \A q \in Procs : (Alive(q)' => Alive(q)) /\ proc'[q].inJob = proc[q].inJob
  <2>1. CASE Windows /\ backend.guard # None
    <3>1. backend.guard \in Procs /\ proc' = [proc EXCEPT ![backend.guard].life = "dead"]
      BY <1>0, <2>1 DEF SupervisorTypeOK, Register, Killed
    <3> QED
      BY <1>0, <3>1 DEF SupervisorTypeOK, Alive
  <2>2. CASE ~(Windows /\ backend.guard # None)
    <3>1. proc' = proc
      BY <2>2 DEF Register
    <3> QED
      BY <1>0, <3>1 DEF SupervisorTypeOK, Alive
  <2> QED
    BY <2>1, <2>2
<1>4. SupervisorTypeOK'
  BY <1>0, <1>1, <1>2, <1>3 DEF SupervisorTypeOK
<1>5. Custody'
  <2>1. \A q \in Procs : Alive(q) => q # backend.child
    BY <1>0, <1>1 DEF Custody, Restarting, SupervisorTypeOK
  <2>2. \A q \in Procs : Alive(q)' => InHand(q)'
    BY <1>0, <1>2, <1>3, <2>1 DEF Custody, InHand
  <2>3. thread'["starter"].stage = "done"
    BY <1>0, <1>1, <1>2 DEF Custody, Restarting
  <2>4. ~Restarting'
    BY <1>0, <1>1, <1>2 DEF Custody, Restarting
  <2> QED
    BY <2>2, <2>3, <2>4 DEF Custody
<1>6. Confinement'
  BY <1>0, <1>1, <1>2, <1>3 DEF Confinement
<1> QED
  BY <1>0, <1>1, <1>4, <1>5, <1>6 DEF SupervisorInv

LEMMA ClearInv ==
  ASSUME SupervisorInv, Clear
  PROVE  SupervisorInv'
<1>0. SupervisorTypeOK /\ Custody /\ Confinement /\ since <= loop.restarts
  BY DEF SupervisorInv
<1>1. /\ At("clear") /\ thread["supervisor"].stage = "clear"
      /\ thread["supervisor"].proc = None
      /\ UNCHANGED <<proc, other, app>> /\ backend' = [backend EXCEPT !.child = None]
  BY <1>0 DEF Clear, At, SupervisorTypeOK
<1>2. PICK stage \in {"done", "backoff"} : thread' = [thread EXCEPT !["supervisor"].stage = stage]
  BY DEF Clear, Go
<1>3. /\ thread'["supervisor"].stage \in {"done", "backoff"} /\ thread'["supervisor"].proc = None
      /\ thread'["starter"] = thread["starter"] /\ backend'.child = None
      /\ thread' \in [Threads -> [stage : Stages, proc : Procs \cup {None}]]
  BY <1>0, <1>1, <1>2 DEF SupervisorTypeOK
<1>4. /\ loop' \in [restarts : 0..MaxRestarts, ticks : 0..TicksToReset]
      /\ since' \in Nat /\ since' <= loop'.restarts
  <2>1. CASE loop.restarts >= MaxRestarts
    BY <1>0, <2>1 DEF Clear, SupervisorTypeOK
  <2>2. CASE ~(loop.restarts >= MaxRestarts)
    BY <1>0, <2>2 DEF Clear, SupervisorTypeOK
  <2> QED
    BY <2>1, <2>2
<1>5. SupervisorTypeOK'
  BY <1>0, <1>1, <1>3, <1>4 DEF SupervisorTypeOK
<1>6. Restarting /\ thread["starter"].stage = "done"
  BY <1>0, <1>1 DEF Custody, Restarting
<1>7. Custody'
  <2>1. \A p \in Procs : Alive(p)' => InHand(p)'
    <3> SUFFICES ASSUME NEW p \in Procs, Alive(p)' PROVE InHand(p)'
      OBVIOUS
    <3>1. Alive(p) /\ p # None /\ InHand(p)
      BY <1>0, <1>1 DEF Custody, Alive
    <3>2. backend.child # p
      BY <1>0, <1>6, <3>1 DEF Custody
    <3>3. PICK t \in Threads : thread[t].proc = p
      BY <3>1, <3>2 DEF InHand
    <3>4. t # "supervisor"
      BY <1>0, <1>1, <3>1, <3>3 DEF SupervisorTypeOK
    <3>5. thread'[t].proc = p
      BY <1>3, <3>3, <3>4 DEF Threads
    <3> QED
      BY <3>5 DEF InHand
  <2>2. thread'["starter"].stage = "done"
    BY <1>3, <1>6
  <2>3. backend'.child = None
    BY <1>3
  <2> QED
    BY <2>1, <2>2, <2>3 DEF Custody
<1>8. Confinement'
  <2> SUFFICES ASSUME Windows, NEW p \in Procs, Alive(p)'
               PROVE  proc[p].inJob /\ (app = "gone" => ~proc[p].inJob)
    BY <1>1 DEF Confinement
  <2>1. Alive(p)
    BY <1>1 DEF Alive
  <2>2. \A t \in Threads : thread[t].stage # "assign"
    BY <1>1, <1>6 DEF Threads
  <2>3. \A t \in Threads : thread[t] # [stage |-> "assign", proc |-> p]
    BY <2>2
  <2> QED
    BY <1>0, <2>1, <2>3 DEF Confinement
<1> QED
  BY <1>4, <1>5, <1>7, <1>8 DEF SupervisorInv

LEMMA TerminateInv ==
  ASSUME SupervisorInv, Terminate, app' \in {"closed", "exiting"}, app # "gone"
  PROVE  SupervisorInv'
<1>0. SupervisorTypeOK /\ Custody /\ Confinement /\ since <= loop.restarts
  BY DEF SupervisorInv
<1>1. /\ backend' = [child |-> None, guard |-> None, intentional |-> TRUE]
      /\ UNCHANGED <<other, thread, loop, since>>
      /\ \A p \in Procs :
           \/ proc'[p] = [proc[p] EXCEPT !.life = "dead"]
           \/ proc'[p] = proc[p] /\ p # backend.child
  BY DEF Terminate
<1>2. SupervisorTypeOK'
  <2>1. proc' \in [Procs -> [life : {"starting", "healthy", "dead"}, inJob : BOOLEAN]]
    BY <1>0 DEF SupervisorTypeOK, Terminate
  <2> QED
    BY <1>0, <1>1, <2>1 DEF SupervisorTypeOK
<1>3. \A p \in Procs : Alive(p)' => Alive(p) /\ p # backend.child /\ proc'[p] = proc[p]
  <2> SUFFICES ASSUME NEW p \in Procs, Alive(p)'
               PROVE  Alive(p) /\ p # backend.child /\ proc'[p] = proc[p]
    OBVIOUS
  <2>1. proc'[p] # [proc[p] EXCEPT !.life = "dead"]
    BY <1>0 DEF Alive, SupervisorTypeOK
  <2> QED
    BY <1>1, <2>1 DEF Alive
<1>4. Custody'
  <2>1. \A p \in Procs : Alive(p)' => InHand(p)'
    <3> SUFFICES ASSUME NEW p \in Procs, Alive(p)' PROVE InHand(p)'
      OBVIOUS
    <3>1. InHand(p) /\ backend.child # p
      BY <1>0, <1>3 DEF Custody
    <3>2. PICK t \in Threads : thread[t].proc = p
      BY <3>1 DEF InHand
    <3>3. thread'[t].proc = p
      BY <1>1, <3>2
    <3> QED
      BY <3>3 DEF InHand
  <2>2. backend'.child = None
    BY <1>1
  <2>3. thread["starter"].stage # "done" => ~Restarting
    BY <1>0 DEF Custody
  <2>4. thread' = thread
    BY <1>1
  <2> QED
    BY <2>1, <2>2, <2>3, <2>4 DEF Custody, Restarting
<1>5. Confinement'
  BY <1>0, <1>1, <1>3 DEF Confinement
<1> QED
  BY <1>0, <1>1, <1>2, <1>4, <1>5 DEF SupervisorInv

LEMMA EndInv ==
  ASSUME SupervisorInv, End
  PROVE  SupervisorInv'
<1> DEFINE dead == {p \in Procs : Windows /\ proc[p].inJob}
<1>1. /\ app' = "gone" /\ UNCHANGED <<backend, other, thread, loop, since>>
      /\ proc' = [p \in Procs |-> IF p \in dead THEN [proc[p] EXCEPT !.life = "dead"] ELSE proc[p]]
  BY DEF End
<1>2. dead \in SUBSET Procs /\ \A p \in Procs : Windows /\ proc[p].inJob => p \in dead
  OBVIOUS
<1> HIDE DEF dead
<1> QED
  BY <1>1, <1>2, DeathsInv

LEMMA BackendInv ==
  ASSUME SupervisorInv, NEW p \in Procs, Boot(p) \/ Crash(p)
  PROVE  SupervisorInv'
<1>0. SupervisorTypeOK /\ Custody /\ Confinement /\ since <= loop.restarts
  BY DEF SupervisorInv
<1>1. /\ UNCHANGED <<backend, other, thread, loop, app, since>> /\ Alive(p)
      /\ \E life \in {"dead", "healthy"} : proc' = [proc EXCEPT ![p].life = life]
  BY DEF Boot, Crash, Killed, Alive
<1>2. PICK life \in {"dead", "healthy"} : proc' = [proc EXCEPT ![p].life = life]
  BY <1>1
<1>3. \A q \in Procs : (Alive(q)' => Alive(q)) /\ proc'[q].inJob = proc[q].inJob
  BY <1>0, <1>1, <1>2 DEF SupervisorTypeOK, Alive
<1>4. SupervisorTypeOK'
  BY <1>0, <1>1, <1>2 DEF SupervisorTypeOK
<1>5. Custody'
  BY <1>0, <1>1, <1>3 DEF Custody, Restarting, InHand, SupervisorTypeOK
<1>6. Confinement'
  BY <1>0, <1>1, <1>3 DEF Confinement
<1> QED
  BY <1>0, <1>1, <1>4, <1>5, <1>6 DEF SupervisorInv

LEMMA LoopInv ==
  ASSUME SupervisorInv, Poll \/ Look \/ Clear \/ Backoff \/ Health
  PROVE  SupervisorInv'
<1>0. SupervisorTypeOK /\ since <= loop.restarts
  BY DEF SupervisorInv
<1>1. CASE Poll
  <2>1. PICK stage \in {"done", "look"} : Go("supervisor", stage)
    BY <1>1 DEF Poll
  <2> QED
    BY <1>0, <1>1, <2>1, MoveInv DEF Poll, At, SupervisorTypeOK
<1>2. CASE Look
  <2>1. CASE backend.child # None /\ ~Alive(backend.child)
    BY <1>0, <1>2, <2>1, MoveInv DEF Look, At, SupervisorTypeOK
  <2>2. CASE ~(backend.child # None /\ ~Alive(backend.child))
    BY <1>0, <1>2, <2>2, MoveInv DEF Look, At, SupervisorTypeOK
  <2> QED
    BY <2>1, <2>2
<1>3. CASE Clear
  BY <1>3, ClearInv
<1>4. CASE Backoff
  <2>1. PICK stage \in {"done", "probe"} : Go("supervisor", stage)
    BY <1>4 DEF Backoff
  <2>2. Restarting /\ thread["supervisor"].stage \notin {"assign", "register"}
    BY <1>4 DEF Backoff, At, Restarting
  <2> QED
    BY <1>0, <1>4, <2>1, <2>2, MoveInv DEF Backoff, SupervisorTypeOK
<1>5. CASE Health
  <2>1. PICK answer \in BOOLEAN :
          /\ Counted(answer)
          /\ since' = IF answer /\ loop.ticks + 1 >= TicksToReset THEN 0 ELSE since
    BY <1>5 DEF Health, Bound
  <2>2. /\ loop' \in [restarts : 0..MaxRestarts, ticks : 0..TicksToReset]
        /\ since' \in Nat /\ since' <= loop'.restarts
    <3>1. CASE ~answer
      BY <1>0, <2>1, <3>1 DEF Counted, SupervisorTypeOK
    <3>2. CASE answer /\ loop.ticks + 1 >= TicksToReset /\ loop.restarts > 0
      BY <1>0, <2>1, <3>2 DEF Counted, SupervisorTypeOK
    <3>3. CASE answer /\ ~(loop.ticks + 1 >= TicksToReset /\ loop.restarts > 0)
      <4>1. loop' = [loop EXCEPT !.ticks = IF @ < TicksToReset THEN @ + 1 ELSE @]
        BY <2>1, <3>3 DEF Counted
      <4> QED
        BY <1>0, <2>1, <3>3, <4>1 DEF SupervisorTypeOK
    <3> QED
      BY <3>1, <3>2, <3>3
  <2>3. Go("supervisor", "poll") /\ thread["supervisor"].stage = "health" /\ UNCHANGED <<backend, proc, other, app>>
    BY <1>5 DEF Health, At
  <2> QED
    BY <1>0, <2>2, <2>3, MoveInv DEF SupervisorTypeOK
<1> QED
  BY <1>1, <1>2, <1>3, <1>4, <1>5

LEMMA StartStepInv ==
  ASSUME SupervisorInv, NEW t \in Threads, StartStep(t) \/ FailStep(t)
  PROVE  SupervisorInv'
<1>0. SupervisorTypeOK /\ since <= loop.restarts
  BY DEF SupervisorInv
<1>1. CASE Probe(t)
  <2>1. CASE Finish(t)
    BY <1>1, <2>1, FinishInv DEF Probe
  <2>2. CASE Go(t, "spawn")
    <3>1. t = "supervisor" => Restarting
      BY <1>1 DEF Probe, Restarting
    <3> QED
      BY <1>0, <1>1, <2>2, <3>1, MoveInv DEF Probe, SupervisorTypeOK
  <2> QED
    BY <1>1, <2>1, <2>2 DEF Probe
<1>2. CASE SpawnFails(t)
  BY <1>2, FinishInv DEF SpawnFails
<1> QED
  BY <1>1, <1>2, SpawnInv, AssignInv, AssignFailsInv, RegisterInv DEF StartStep, FailStep

LEMMA SupervisorStepInv == SupervisorInv /\ [SupervisorNext]_supervisorVars => SupervisorInv'
<1> SUFFICES ASSUME SupervisorInv, [SupervisorNext]_supervisorVars PROVE SupervisorInv'
  OBVIOUS
<1>1. CASE UNCHANGED supervisorVars
  BY <1>1 DEF supervisorVars, SupervisorInv, SupervisorTypeOK, Custody, Confinement, Restarting,
              InHand, Alive
<1>2. CASE LoopStep
  BY <1>2, LoopInv DEF LoopStep
<1>3. ASSUME NEW t \in Threads, StartStep(t) \/ FailStep(t) PROVE SupervisorInv'
  BY <1>3, StartStepInv
<1>4. CASE CloseWindow \/ ExitEvent
  BY <1>4, TerminateInv DEF CloseWindow, ExitEvent
<1>5. CASE End
  BY <1>5, EndInv
<1>6. ASSUME NEW p \in Procs, Boot(p) \/ Crash(p) PROVE SupervisorInv'
  BY <1>6, BackendInv
<1>7. CASE OtherBoots \/ OtherEnds
  <2>1. other' \in {"none", "healthy"} /\ UNCHANGED <<backend, proc, thread, loop, app, since>>
    BY <1>7 DEF OtherBoots, OtherEnds
  <2> QED
    BY <2>1 DEF SupervisorInv, SupervisorTypeOK, Custody, Confinement, Restarting, InHand, Alive
<1> QED
  BY <1>1, <1>2, <1>3, <1>4, <1>5, <1>6, <1>7 DEF SupervisorNext

(* Types, custody and confinement of the backends, and the count of restarts hold together. *)
THEOREM SupervisorInvariant == SupervisorSpec => []SupervisorInv
BY SupervisorInitInv, SupervisorStepInv, PTL DEF SupervisorSpec

(* Type correctness for every set of process ids. *)
THEOREM SupervisorTypeCorrect == SupervisorSpec => []SupervisorTypeOK
<1>1. SupervisorInv => SupervisorTypeOK
  BY DEF SupervisorInv
<1> QED
  BY <1>1, SupervisorInvariant, PTL

(* The shell never runs two backends, however starts, crashes and shutdowns interleave. *)
THEOREM OneBackendAlive == SupervisorSpec => []OneBackend
<1>1. SupervisorInv => OneBackend
  <2> SUFFICES ASSUME SupervisorInv, NEW p \in Procs, NEW q \in Procs, Alive(p), Alive(q)
               PROVE  p = q
    BY DEF OneBackend
  <2>1. SupervisorTypeOK /\ Custody /\ InHand(p) /\ InHand(q) /\ p # None /\ q # None
    BY DEF SupervisorInv, Custody
  <2>2. CASE thread["starter"].stage # "done"
    <3>1. thread["supervisor"].proc = None /\ backend.child = None
      BY <2>1, <2>2 DEF Custody, Restarting, SupervisorTypeOK
    <3> QED
      BY <2>1, <3>1 DEF InHand
  <2>3. CASE thread["starter"].stage = "done"
    <3>1. thread["starter"].proc = None
      BY <2>1, <2>3 DEF SupervisorTypeOK
    <3>2. CASE Restarting
      BY <2>1, <3>1, <3>2 DEF InHand, Custody
    <3>3. CASE ~Restarting
      <4>1. thread["supervisor"].proc = None
        BY <2>1, <3>3 DEF Restarting, SupervisorTypeOK
      <4> QED
        BY <2>1, <3>1, <4>1 DEF InHand
    <3> QED
      BY <3>2, <3>3
  <2> QED
    BY <2>2, <2>3
<1> QED
  BY <1>1, SupervisorInvariant, PTL

(* On Windows a backend survives the shell only out of the step between spawn and assignment. *)
THEOREM OrphansAreUnassigned == SupervisorSpec => []OrphanOnlyUnassigned
<1>1. SupervisorInv => OrphanOnlyUnassigned
  BY DEF SupervisorInv, Confinement, OrphanOnlyUnassigned
<1> QED
  BY <1>1, SupervisorInvariant, PTL

(* The restarts since the last stable period never exceed the limit. *)
THEOREM RestartsAreBounded == SupervisorSpec => []RestartBudget
<1>1. SupervisorInv => RestartBudget
  BY DEF SupervisorInv, SupervisorTypeOK, RestartBudget
<1> QED
  BY <1>1, SupervisorInvariant, PTL

(* After an intentional shutdown no thread begins to start a backend. *)
THEOREM ShutdownStartsNothing == SupervisorSpec => NoNewStart
<1> DEFINE Quits == \A t \in Threads :
             backend.intentional /\ thread[t].stage \notin Starting => thread'[t].stage \notin Starting
<1>1. SupervisorTypeOK /\ [SupervisorNext]_supervisorVars => [Quits]_supervisorVars
  <2> SUFFICES ASSUME SupervisorTypeOK, SupervisorNext, NEW t \in Threads,
                      backend.intentional, thread[t].stage \notin Starting
               PROVE  thread'[t].stage \notin Starting
    OBVIOUS
  <2>1. ASSUME NEW u \in Threads, StartStep(u) \/ FailStep(u)
        PROVE  thread'[t].stage \notin Starting
    <3>1. u # t
      BY <2>1 DEF StartStep, FailStep, Probe, Spawn, SpawnFails, Assign, AssignFails, Register
    <3>2. thread'[t] = thread[t]
      BY <2>1, <3>1 DEF StartStep, FailStep, Probe, Spawn, SpawnFails, Assign, AssignFails,
                        Register, Finish, Go, SupervisorTypeOK
    <3> QED
      BY <3>2
  <2>2. CASE LoopStep
    <3>1. PICK stage \in Stages \ Starting : Go("supervisor", stage)
      BY <2>2 DEF LoopStep, Poll, Look, Clear, Backoff, Health
    <3> QED
      BY <3>1 DEF Go, SupervisorTypeOK
  <2>3. CASE UNCHANGED thread
    BY <2>3
  <2> QED
    BY <2>1, <2>2, <2>3 DEF SupervisorNext, CloseWindow, ExitEvent, Terminate, End, Boot, Crash,
                            OtherBoots, OtherEnds
<1> QED
  BY <1>1, SupervisorTypeCorrect, PTL DEF SupervisorSpec, NoNewStart

-----------------------------------------------------------------------------
(* The bounds of the model checker restrict the two and add nothing to what they do. *)
LEMMA StartsRestricted == MCSpec => SupervisorSpec /\ LoaderSpec
<1>1. MCInit => SupervisorInit /\ LoaderInit
  BY DEF MCInit
<1>2. [MCNext]_mcvars => [SupervisorNext]_supervisorVars
  BY DEF MCNext, mcvars, Desktop, Engine, SupervisorNext
<1>3. [MCNext]_mcvars => [LoaderNext]_loadVars
  BY DEF MCNext, mcvars, Desktop, Engine, LoaderNext
<1> QED
  BY <1>1, <1>2, <1>3, PTL DEF MCSpec, SupervisorSpec, LoaderSpec
=============================================================================
