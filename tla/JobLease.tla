-------------------------------- MODULE JobLease --------------------------------
(***************************************************************************)
(* What the job queue is for, seen by job: a job is offered, taken by one  *)
(* holder at a time and no more than MaxTurns times, and over for good     *)
(* once it is finished or withdrawn.  Nothing is said of files, clocks,    *)
(* priorities or transactions; several jobs may move in one step.          *)
(***************************************************************************)
EXTENDS Naturals

CONSTANTS Items, Holders, MaxTurns

VARIABLES
  state,   \* "absent", "waiting", "taken" or "over"
  turns,   \* how often the item was taken, without the turns a crash took back
  owner    \* who works on the item: a set of at most one holder

leaseVars == <<state, turns, owner>>

LeaseInit ==
  /\ state = [i \in Items |-> "absent"]
  /\ turns = [i \in Items |-> 0]
  /\ owner = [i \in Items |-> {}]

Free(i) == owner[i] = {}
Freed(i) == owner[i] # {} /\ owner'[i] = {}
Kept(i) == owner'[i] = owner[i]

(* Where an item may go from each state, its turns and its holder. *)
Stays(i) == state'[i] = state[i] /\ turns'[i] = turns[i]

Offered(i) == state[i] = "absent" /\ state'[i] = "waiting" /\ turns'[i] = 0 /\ Free(i) /\ Kept(i)

Taken(i) ==
  /\ state[i] = "waiting" /\ state'[i] = "taken"
  /\ turns'[i] = turns[i] + 1 /\ turns'[i] <= MaxTurns
  /\ Free(i) /\ \E h \in Holders : owner'[i] = {h}

Returned(i) ==
  /\ state[i] = "taken" /\ state'[i] = "waiting"
  /\ turns'[i] = turns[i] /\ turns[i] < MaxTurns
  /\ Freed(i)

Ended(i) ==
  \/ state'[i] = "over" /\ turns'[i] = turns[i]
  \/ state'[i] = "absent" /\ turns'[i] = 0

Finished(i) == state[i] = "taken" /\ Ended(i) /\ Freed(i)

(* Cancelled, deleted or pruned, under the hands of its holder if it has one. *)
Withdrawn(i) == state[i] # "absent" /\ Ended(i) /\ Kept(i)

(* The holder stops without a word: the item is still taken if it was not withdrawn. *)
LetGo(i) == Stays(i) /\ Freed(i)

(* After a crash the interrupted turn does not count. *)
TakenBack(i) ==
  /\ state[i] = "taken" /\ state'[i] = "waiting"
  /\ turns[i] = turns'[i] + 1
  /\ Free(i) /\ Kept(i)

Life(i) ==
  \/ Stays(i) /\ Kept(i)
  \/ Offered(i) \/ Taken(i) \/ Returned(i) \/ Finished(i) \/ Withdrawn(i) \/ LetGo(i) \/ TakenBack(i)

(* A holder has one item. *)
LeaseNext ==
  /\ \A i \in Items : Life(i)
  /\ \A i \in Items : \A h \in owner'[i] : \A k \in Items : h \in owner'[k] => i = k

LeaseSpec == LeaseInit /\ [][LeaseNext]_leaseVars
=============================================================================
