----------------------------- MODULE StateStore -----------------------------
(***************************************************************************)
(* backend/state.py: the install records of one server process, kept in    *)
(* memory and mirrored into installs.json.  Ordinary mutations mark the    *)
(* store dirty and leave the write to a debounce timer; transitions to a   *)
(* terminal state and deletions write before they return.                  *)
(*                                                                         *)
(* Every method runs under one re-entrant lock, so each is one action; the *)
(* timer thread, a crash and a failed write are what can come in between.  *)
(* retry_install and mark_step_skipped edit a record in place, outside the *)
(* lock, before they call _persist.  A record is reduced to its lifecycle  *)
(* state, its updated_at, a tick of the wall clock, and which of two       *)
(* contents its other fields have.                                         *)
(***************************************************************************)
EXTENDS Naturals, FiniteSets

CONSTANTS
  Installs,        \* install ids that may be created (each at most once)
  InFlight,        \* the lifecycle states that are not terminal
  MaxClock,        \* bound: stamped mutations and loads in a behaviour;
                   \* edits in place are not stamped, and not bounded
  MaxFailures      \* bound: writes of the file that fail

(* state.py:47 *)
FlushStates == {"READY", "FAILED", "STOPPED", "CLEANED"}

(* state.py:16 *)
TerminalStates == FlushStates \cup {"DRAFT"}

States == TerminalStates \cup InFlight

ASSUME StoreAssumption ==
  /\ MaxClock \in Nat
  /\ MaxFailures \in Nat
  /\ InFlight \cap (TerminalStates \cup {"none"}) = {}

Contents == {0, 1}

NoRecord == [state |-> "none", updated_at |-> 0, content |-> 0]

Records == [state : States, updated_at : Nat, content : Contents]

VARIABLES
  memory,          \* _records
  disk,            \* the parsed content of installs.json
  dirty,           \* _dirty
  timer,           \* _flush_timer: "none", "armed", "waiting" (a part of the
                   \* delay has passed), or "fired" (its thread has left its
                   \* wait and is queued for the lock)
  late,            \* timer threads no longer referenced by _flush_timer that
                   \* will still run _flush_from_timer
  phase,           \* of the server process: "up", "stopping", "down"
  clock,           \* time.time()
  failures,        \* writes that have failed so far
  edited,          \* records edited in place and not handed to _persist yet
  used,            \* ids handed out by create (uuid4: never twice)
  lastWriteFailed, \* history: the latest attempt to write the file failed
  acked,           \* history: updated_at of the latest terminal transition
                   \* whose update_state returned to its caller
  gone             \* history: ids whose delete returned to its caller

storeVars == <<memory, disk, dirty, timer, late, phase, clock, failures,
               edited, used, lastWriteFailed, acked, gone>>
historyVars == <<acked, gone>>

Running == phase \in {"up", "stopping"}

Init ==
  /\ memory = [i \in Installs |-> NoRecord]
  /\ disk   = [i \in Installs |-> NoRecord]
  /\ dirty = FALSE
  /\ timer = "none"
  /\ late = 0
  /\ phase = "up"
  /\ clock = 0
  /\ failures = 0
  /\ edited = {}
  /\ used = {}
  /\ lastWriteFailed = FALSE
  /\ acked = [i \in Installs |-> 0]
  /\ gone = {}

-----------------------------------------------------------------------------
(* The write path *)

(* One pass of time: a method that mutates a record stamps it.             *)
Tick == clock < MaxClock /\ clock' = clock + 1

(* Mutant: the write merges into the file instead of replacing it. *)
WriteSucceeds_Merges(m) ==
  /\ disk' = [i \in Installs |-> IF m[i] = NoRecord THEN disk[i] ELSE m[i]]
  /\ dirty' = FALSE
  /\ lastWriteFailed' = FALSE
  /\ UNCHANGED failures

WriteSucceeds(m) ==
  /\ disk' = m
  /\ dirty' = FALSE
  /\ lastWriteFailed' = FALSE
  /\ UNCHANGED failures

(* Mutant: the dirty flag is cleared before the write is attempted. *)
WriteFails_Clean ==
  /\ failures < MaxFailures
  /\ failures' = failures + 1
  /\ dirty' = FALSE
  /\ lastWriteFailed' = TRUE
  /\ UNCHANGED disk

(* write_text or every os.replace attempt raises: the old file stays. *)
WriteFails ==
  /\ failures < MaxFailures
  /\ failures' = failures + 1
  /\ dirty' = TRUE
  /\ lastWriteFailed' = TRUE
  /\ UNCHANGED disk

(* Timer.cancel() stops a thread that still waits; one that has fired goes *)
(* on to call _flush_from_timer whatever the store now refers to.          *)
CancelTimer ==
  /\ timer' = "none"
  /\ late' = IF timer = "fired" THEN late + 1 ELSE late

(* Mutant: every call starts the delay again. *)
PersistDebounced_Rearms ==
  /\ dirty' = TRUE
  /\ timer' = "armed"
  /\ late' = IF timer = "fired" THEN late + 1 ELSE late
  /\ UNCHANGED <<disk, failures, lastWriteFailed>>

(* _persist_locked() *)
PersistDebounced ==
  /\ dirty' = TRUE
  /\ timer' = IF timer = "none" THEN "armed" ELSE timer
  /\ UNCHANGED <<disk, late, failures, lastWriteFailed>>

-----------------------------------------------------------------------------
(* The methods *)

Create(i) ==
  /\ phase = "up" /\ i \notin used
  /\ Tick
  /\ used' = used \cup {i}
  /\ memory' = [memory EXCEPT ![i] =
                  [state |-> "DRAFT", updated_at |-> clock', content |-> 0]]
  /\ PersistDebounced
  /\ UNCHANGED <<phase, edited, historyVars>>

(* What update_state makes of a record. *)
Moved(i, s) == [memory[i] EXCEPT !.state = s, !.updated_at = clock']

UpdateStateDebounced(i, s) ==
  /\ Running /\ memory[i] # NoRecord
  /\ s \notin FlushStates
  /\ Tick
  /\ memory' = [memory EXCEPT ![i] = Moved(i, s)]
  /\ PersistDebounced
  /\ UNCHANGED <<phase, edited, used, historyVars>>

(* Mutant: update_state forgets to force the write. *)
UpdateStateForced_Debounced(i, s) ==
  /\ Running /\ memory[i] # NoRecord
  /\ s \in FlushStates
  /\ Tick
  /\ memory' = [memory EXCEPT ![i] = Moved(i, s)]
  /\ acked' = [acked EXCEPT ![i] = clock']
  /\ PersistDebounced
  /\ UNCHANGED <<phase, edited, used, gone>>

(* update_state to a flush state: returns only when the file is written,   *)
(* and raises (nothing acknowledged) when it cannot be.                    *)
UpdateStateForced(i, s) ==
  /\ Running /\ memory[i] # NoRecord
  /\ s \in FlushStates
  /\ Tick
  /\ memory' = [memory EXCEPT ![i] = Moved(i, s)]
  /\ CancelTimer
  /\ \/ WriteSucceeds(memory') /\ acked' = [acked EXCEPT ![i] = clock']
     \/ WriteFails /\ UNCHANGED acked
  /\ UNCHANGED <<phase, edited, used, gone>>

(* update_step and set_outputs: the state stays, the other fields and      *)
(* updated_at move.                                                        *)
Touch(i, content) ==
  /\ Running /\ memory[i] # NoRecord
  /\ Tick
  /\ memory' = [memory EXCEPT
       ![i] = [memory[i] EXCEPT !.updated_at = clock', !.content = content]]
  /\ PersistDebounced
  /\ UNCHANGED <<phase, edited, used, historyVars>>

(* retry_install and mark_step_skipped edit the fields of a record without *)
(* the lock: nothing is stamped, and the store does not know.  Their       *)
(* routes take FAILED records that no task drives; a request may still     *)
(* have made another terminal state of it.                                 *)
EditInPlace(i, content) ==
  /\ Running /\ memory[i].state \in FlushStates
  /\ memory' = [memory EXCEPT ![i].content = content]
  /\ edited' = edited \cup {i}
  /\ UNCHANGED <<disk, dirty, timer, late, phase, clock, failures, used,
                 lastWriteFailed, historyVars>>

(* _persist, when they are done, whether or not the record is still there. *)
Persist(i) ==
  /\ Running /\ i \in edited
  /\ edited' = edited \ {i}
  /\ PersistDebounced
  /\ UNCHANGED <<memory, phase, clock, used, historyVars>>

(* Mutant: delete is persisted like an ordinary mutation. *)
Delete_Debounced(i) ==
  /\ phase = "up" /\ memory[i] # NoRecord
  /\ Tick
  /\ memory' = [memory EXCEPT ![i] = NoRecord]
  /\ acked' = [acked EXCEPT ![i] = 0]
  /\ gone' = gone \cup {i}
  /\ PersistDebounced
  /\ UNCHANGED <<phase, edited, used>>

(* delete withdraws the promise made for the record's terminal state.      *)
Delete(i) ==
  /\ phase = "up" /\ memory[i] # NoRecord
  /\ Tick
  /\ memory' = [memory EXCEPT ![i] = NoRecord]
  /\ acked' = [acked EXCEPT ![i] = 0]
  /\ CancelTimer
  /\ \/ WriteSucceeds(memory') /\ gone' = gone \cup {i}
     \/ WriteFails /\ UNCHANGED gone
  /\ UNCHANGED <<phase, edited, used>>

-----------------------------------------------------------------------------
(* The timer threads *)

TimerExpires ==
  /\ Running /\ timer \in {"armed", "waiting"}
  /\ timer' = IF timer = "armed" THEN "waiting" ELSE "fired"
  /\ UNCHANGED <<memory, disk, dirty, late, phase, clock, failures, edited, used,
                 lastWriteFailed, historyVars>>

WriteIfDirty ==
  \/ dirty /\ (WriteSucceeds(memory) \/ WriteFails)
  \/ ~dirty /\ UNCHANGED <<disk, dirty, lastWriteFailed, failures>>

(* _flush_from_timer, run by the thread _flush_timer refers to. *)
FlushFromTimer ==
  /\ Running /\ timer = "fired"
  /\ timer' = "none"
  /\ WriteIfDirty
  /\ UNCHANGED <<memory, late, phase, clock, edited, used, historyVars>>

(* _flush_from_timer, run by a thread the store has already let go of: it  *)
(* drops the reference to whichever timer is current, which thereby joins  *)
(* the threads that will run later.                                        *)
FlushFromLateTimer ==
  /\ Running /\ late > 0
  /\ timer' = "none"
  /\ late' = IF timer = "none" THEN late - 1 ELSE late
  /\ WriteIfDirty
  /\ UNCHANGED <<memory, phase, clock, edited, used, historyVars>>

-----------------------------------------------------------------------------
(* The process *)

(* The shutdown hook calls flush(); a failure is logged.  The rest of the  *)
(* hook still awaits, so coroutines that it did not cancel (the jobs of    *)
(* custom_stack_runner.py are not in _INSTALL_TASKS) may mutate after it;  *)
(* requests, which create and delete, are no longer served.                *)
Flush ==
  /\ phase = "up"
  /\ phase' = "stopping"
  /\ CancelTimer
  /\ WriteIfDirty
  /\ UNCHANGED <<memory, clock, edited, used, historyVars>>

ProcessGone ==
  /\ phase' = "down"
  /\ memory' = [i \in Installs |-> NoRecord]
  /\ dirty' = FALSE
  /\ timer' = "none"
  /\ late' = 0
  /\ edited' = {}
  /\ lastWriteFailed' = FALSE
  /\ UNCHANGED <<disk, clock, failures, used, historyVars>>

Exit  == phase = "stopping" /\ ProcessGone
Crash == phase = "up" /\ ProcessGone

(* A record found in flight belongs to a run that died with its process. *)
Reconcile(r, now) ==
  IF r = NoRecord \/ r.state \in TerminalStates
  THEN r
  ELSE [r EXCEPT !.state = "FAILED", !.updated_at = now]

(* __init__ and _load: the reconciliation is persisted debounced. *)
Load ==
  /\ phase = "down"
  /\ phase' = "up"
  /\ Tick
  /\ memory' = [i \in Installs |-> Reconcile(disk[i], clock')]
  /\ PersistDebounced
  /\ UNCHANGED <<edited, used, historyVars>>

-----------------------------------------------------------------------------
Next ==
  \/ \E i \in Installs :
       \/ Create(i)
       \/ \E c \in Contents : Touch(i, c) \/ EditInPlace(i, c)
       \/ Persist(i)
       \/ Delete(i)
       \/ \E s \in States : UpdateStateDebounced(i, s) \/ UpdateStateForced(i, s)
  \/ TimerExpires \/ FlushFromTimer \/ FlushFromLateTimer
  \/ Flush \/ Exit \/ Crash \/ Load

Spec == Init /\ [][Next]_storeVars

(* A daemon timer thread whose delay has passed runs, and gets the lock.   *)
TimerFairness ==
  /\ WF_storeVars(TimerExpires)
  /\ WF_storeVars(FlushFromTimer)
  /\ WF_storeVars(FlushFromLateTimer)

FairSpec == Spec /\ TimerFairness

-----------------------------------------------------------------------------
(* Properties *)

(* Every variable stays in its domain; a down process holds no memory. *)
TypeOK ==
  /\ memory \in [Installs -> Records \cup {NoRecord}]
  /\ disk \in [Installs -> Records \cup {NoRecord}]
  /\ dirty \in BOOLEAN
  /\ timer \in {"none", "armed", "waiting", "fired"}
  /\ late \in Nat
  /\ phase \in {"up", "stopping", "down"}
  /\ clock \in Nat
  /\ failures \in Nat
  /\ edited \in SUBSET Installs
  /\ used \in SUBSET Installs
  /\ lastWriteFailed \in BOOLEAN
  /\ acked \in [Installs -> Nat]
  /\ gone \in SUBSET Installs

(* A store that believes itself clean holds what the file holds, but for   *)
(* the records that are being edited in place: _dirty never under-reports, *)
(* whatever timer thread wrote last and whichever mutation came between    *)
(* the cancel and the write.                                               *)
CleanMeansSaved ==
  Running /\ ~dirty => \A i \in Installs \ edited : disk[i] = memory[i]

(* A pending change always has a thread that will write it, unless the     *)
(* latest write failed: no interleaving of force, cancel, a callback that  *)
(* was already past cancel, and a new mutation loses the wake-up.          *)
NoLostWakeup ==
  Running /\ dirty => timer # "none" \/ late > 0 \/ lastWriteFailed

(* A terminal transition whose update_state returned is in the file from   *)
(* then on, or something newer of the same record is: no crash, restart,   *)
(* late timer or failed later write takes it back.                         *)
AckedTerminalSurvives ==
  \A i \in Installs :
    acked[i] > 0 => disk[i] # NoRecord /\ disk[i].updated_at >= acked[i]

(* A delete that returned is final: neither a late timer thread nor a      *)
(* restart brings the record back into the file or the memory.             *)
DeletedStaysDeleted ==
  \A i \in gone : disk[i] = NoRecord /\ memory[i] = NoRecord

(* What the two promises above rest on.  No stamp lies in the future, so a *)
(* newer write never looks older than an acknowledged one; the memory of a *)
(* running store is at least as new as what it acknowledged, so the next   *)
(* whole-file write cannot undo it.                                        *)
StampsInPast ==
  \A i \in Installs :
    memory[i].updated_at <= clock /\ disk[i].updated_at <= clock

MemoryKeepsAcked ==
  Running =>
    \A i \in Installs :
      acked[i] > 0 => memory[i] # NoRecord /\ memory[i].updated_at >= acked[i]

DownIsEmpty ==
  phase = "down" => \A i \in Installs : memory[i] = NoRecord

IdsAreUsed ==
  \A i \in Installs :
    memory[i] # NoRecord \/ disk[i] # NoRecord \/ i \in gone => i \in used

(* The inductive invariant behind the safety properties of this module. *)
StoreInv ==
  /\ TypeOK
  /\ CleanMeansSaved
  /\ NoLostWakeup
  /\ AckedTerminalSurvives
  /\ DeletedStaysDeleted
  /\ StampsInPast
  /\ MemoryKeepsAcked
  /\ DownIsEmpty
  /\ IdsAreUsed

(* Pending changes reach the file, or a write failed, or the process died: *)
(* the debounce timer is not postponed for ever by further mutations, not  *)
(* even by edits that never stop and come faster than its delay.           *)
DirtyIsFlushed ==
  (Running /\ dirty) ~> (~dirty \/ lastWriteFailed \/ ~Running)

(* The store implements a map with whole-file snapshots: the file never    *)
(* mixes two moments and a restart starts from the file, entry by entry.   *)
Repaired(d, v) ==
  v = d \/ (d.state \in InFlight /\ v.state = "FAILED")

WB == INSTANCE WriteBackStore WITH
  Keys <- Installs,
  Blank <- NoRecord,
  Repair <- Repaired,
  volatile <- IF Running THEN memory
              ELSE [i \in Installs |-> Reconcile(disk[i], clock + 1)],
  durable <- disk

ImplementsWriteBack == WB!Spec

(* state.py: "Terminal state transitions flush immediately so a crash      *)
(* never loses them": a terminal state held in memory is in the file,      *)
(* sooner or later, unless the record moves on or the process goes.        *)
TerminalStateReachesDisk ==
  \A i \in Installs :
    (Running /\ memory[i].state \in FlushStates)
      ~> (memory[i] = disk[i] \/ memory[i].state \notin FlushStates \/ ~Running)
=============================================================================
