---------------------------- MODULE GenerationSlot ----------------------------
(***************************************************************************)
(* LocalGenerationCoordinator: the admission control that every feature    *)
(* which talks to the local language model goes through, and the outcomes  *)
(* of a call to it (OllamaProvider.generate).                              *)
(***************************************************************************)
EXTENDS FiniteSets, Naturals

CONSTANT Capacity   \* 1 in the program

ASSUME CapacityAssumption == Capacity \in Nat \ {0}

VARIABLE holders    \* the requests inside "with acquire()"

SlotInit == holders = {}

Busy == Cardinality(holders) >= Capacity

(* Never waits: a request that finds no slot is told so. *)
M_AcquireAnyway(r) == holders' = holders \cup {r}

Acquire(r) == ~Busy /\ holders' = holders \cup {r}

(* finally: *)
Release(r) == holders' = holders \ {r}

(* A text, an empty text, or one of the provider's errors: no connection, a time-out, any
   other. *)
Outcomes == {"text", "empty", "connection", "timeout", "error"}

(* The status generate_answer gives each of them; a text is limited when its evidence was. *)
Statuses == [text |-> {"READY", "BUDGET_LIMITED"}, empty |-> {"INVALID_RESPONSE"},
             connection |-> {"MODEL_UNAVAILABLE"}, timeout |-> {"TIMEOUT"},
             error |-> {"GENERATION_FAILED"}]
=============================================================================
