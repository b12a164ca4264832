--------------------------- MODULE WriteBackStore ---------------------------
(***************************************************************************)
(* What every "in-memory registry mirrored into one JSON file" of the      *)
(* backend promises (backend/state.py, and the registries of              *)
(* upgrade_executor.py, ingest.py and data_quality.py that copy it):       *)
(*                                                                         *)
(*   - a mutation changes one entry of the volatile map;                   *)
(*   - the durable map only ever changes as a whole, to the volatile map   *)
(*     of that moment: never a mixture of two moments, never a torn file;  *)
(*   - losing the process replaces the volatile map by a repair of the     *)
(*     durable one, entry by entry.                                        *)
(*                                                                         *)
(* Timers, dirty flags, locks and retries are left to the implementation.  *)
(***************************************************************************)
CONSTANTS
  Keys,            \* the identifiers of the entries
  Blank,           \* the entry of an identifier that is not registered
  Repair(_, _)     \* Repair(d, v): loading the durable entry d yields v

VARIABLES
  volatile,        \* [Keys -> entry], what the running process answers from
  durable          \* [Keys -> entry], the content of the file

wbVars == <<volatile, durable>>

Init ==
  /\ volatile = [k \in Keys |-> Blank]
  /\ durable  = [k \in Keys |-> Blank]

(* One entry at most is replaced. *)
OneEntryChanges ==
  \E k \in Keys : \A j \in Keys \ {k} : volatile'[j] = volatile[j]

(* A mutation that returns before it is durable. *)
Mutate == OneEntryChanges /\ durable' = durable

(* A mutation that is durable when it returns. *)
MutateThrough == OneEntryChanges /\ durable' = volatile'

(* The background write of everything that is pending. *)
Snapshot == volatile' = volatile /\ durable' = volatile

(* The process is gone: what the next one starts from comes from the file. *)
LoseVolatile ==
  /\ \A k \in Keys : Repair(durable[k], volatile'[k])
  /\ durable' = durable

Next == Mutate \/ MutateThrough \/ Snapshot \/ LoseVolatile

Spec == Init /\ [][Next]_wbVars
=============================================================================
