-------------------------- MODULE StateStoreProofs --------------------------
(***************************************************************************)
(* The safety of StateStore for every set of installs, every set of        *)
(* in-flight states and every bound.  StoreInv is inductive; the promises  *)
(* made to callers are its conjuncts.                                      *)
(***************************************************************************)
EXTENDS StateStore, TLAPS

(* A record that moves to another state stays a record. *)
LEMMA RecordMoves ==
  ASSUME NEW r \in Records, NEW s \in States, NEW n \in Nat
  PROVE  /\ [r EXCEPT !.state = s, !.updated_at = n] \in Records
         /\ [r EXCEPT !.state = s, !.updated_at = n].updated_at = n
BY DEF Records

(* So does one whose other fields are replaced. *)
LEMMA RecordIsTouched ==
  ASSUME NEW r \in Records, NEW n \in Nat, NEW c \in Contents
  PROVE  /\ [r EXCEPT !.updated_at = n, !.content = c] \in Records
         /\ [r EXCEPT !.updated_at = n, !.content = c].updated_at = n
BY DEF Records

(* No record looks like the one that is not there. *)
LEMMA RecordsAreThere == NoRecord \notin Records
BY StoreAssumption DEF Records, States, TerminalStates, FlushStates, NoRecord

(* The three shapes of a write, as facts about the variables they touch. *)
LEMMA WriteIfDirtyFacts ==
  ASSUME StoreInv, Running, WriteIfDirty
  PROVE  /\ disk' = memory \/ disk' = disk
         /\ dirty' \in BOOLEAN /\ lastWriteFailed' \in BOOLEAN /\ failures' \in Nat
         /\ ~dirty' => \A i \in Installs \ edited : disk'[i] = memory[i]
         /\ dirty' => lastWriteFailed'
<1>1. CASE dirty /\ WriteSucceeds(memory)
  BY <1>1 DEF StoreInv, TypeOK, WriteSucceeds
<1>2. CASE dirty /\ WriteFails
  BY <1>2 DEF StoreInv, TypeOK, WriteFails
<1>3. CASE ~dirty /\ UNCHANGED <<disk, dirty, lastWriteFailed, failures>>
  BY <1>3 DEF StoreInv, TypeOK, CleanMeansSaved
<1>4. QED
  BY <1>1, <1>2, <1>3 DEF WriteIfDirty

(* An empty store over an empty file satisfies the invariant. *)
LEMMA InitStoreInv == Init => StoreInv
<1> SUFFICES ASSUME Init PROVE StoreInv
  OBVIOUS
<1>1. TypeOK
  BY DEF Init, TypeOK
<1>2. CleanMeansSaved /\ NoLostWakeup
  BY DEF Init, CleanMeansSaved, NoLostWakeup
<1>3. AckedTerminalSurvives /\ MemoryKeepsAcked
  BY DEF Init, AckedTerminalSurvives, MemoryKeepsAcked
<1>4. DeletedStaysDeleted /\ DownIsEmpty /\ IdsAreUsed
  BY DEF Init, IdsAreUsed, DeletedStaysDeleted, DownIsEmpty
<1>5. StampsInPast
  BY DEF Init, StampsInPast, NoRecord
<1> QED
  BY <1>1, <1>2, <1>3, <1>4, <1>5 DEF StoreInv

(* One record is stamped and the write is left to the timer: create,       *)
(* update_state to a state that is not flushed, update_step, set_outputs.  *)
LEMMA DebouncedMutation ==
  ASSUME StoreInv, Running, Tick, PersistDebounced,
         NEW i \in Installs, i \notin gone, i \in used',
         NEW r \in Records, r.updated_at = clock',
         memory' = [memory EXCEPT ![i] = r],
         UNCHANGED <<phase, edited, acked, gone>>,
         used \subseteq used', used' \in SUBSET Installs
  PROVE  StoreInv'
<1>1. TypeOK'
  BY DEF StoreInv, TypeOK, Tick, PersistDebounced
<1>2. CleanMeansSaved' /\ NoLostWakeup'
  BY DEF StoreInv, TypeOK, PersistDebounced, CleanMeansSaved, NoLostWakeup
<1>3. AckedTerminalSurvives'
  BY DEF StoreInv, AckedTerminalSurvives, PersistDebounced
<1>4. DeletedStaysDeleted'
  BY DEF StoreInv, TypeOK, DeletedStaysDeleted, PersistDebounced
<1>5. StampsInPast'
  BY DEF StoreInv, TypeOK, StampsInPast, PersistDebounced, Tick, Records, NoRecord
<1>6. MemoryKeepsAcked'
  <2> SUFFICES ASSUME NEW j \in Installs, acked[j] > 0
               PROVE  memory'[j] # NoRecord /\ memory'[j].updated_at >= acked[j]
    BY DEF MemoryKeepsAcked
  <2>1. memory[j] # NoRecord /\ memory[j].updated_at >= acked[j]
    BY DEF StoreInv, MemoryKeepsAcked
  <2>2. acked[j] <= clock'
    BY <2>1 DEF StoreInv, TypeOK, StampsInPast, Tick, Records, NoRecord
  <2>3. r # NoRecord
    BY StoreAssumption DEF Records, States, TerminalStates, FlushStates, NoRecord
  <2> QED
    BY <2>1, <2>2, <2>3 DEF StoreInv, TypeOK
<1>7. DownIsEmpty' /\ IdsAreUsed'
  BY DEF StoreInv, TypeOK, DownIsEmpty, Running, IdsAreUsed, PersistDebounced
<1> QED
  BY <1>1, <1>2, <1>3, <1>4, <1>5, <1>6, <1>7 DEF StoreInv

(* One record is stamped and the whole file is written, or the write fails *)
(* and nothing is acknowledged: update_state to a flush state.             *)
LEMMA ForcedMutation ==
  ASSUME StoreInv, NEW i \in Installs, NEW s \in States, UpdateStateForced(i, s)
  PROVE  StoreInv'
<1> DEFINE r == Moved(i, s)
<1>0. /\ Running /\ i \notin gone /\ Tick /\ r \in Records /\ r # NoRecord
      /\ r.updated_at = clock'
      /\ memory' = [memory EXCEPT ![i] = r]
      /\ memory[i] \in Records
      /\ edited' = edited /\ edited \in SUBSET Installs
  <2>1. clock' \in Nat
    BY DEF StoreInv, TypeOK, UpdateStateForced, Tick
  <2> QED
    BY <2>1, StoreAssumption
    DEF UpdateStateForced, Moved, StoreInv, TypeOK, DeletedStaysDeleted, Records, States,
        TerminalStates, FlushStates, NoRecord
<1> HIDE DEF r
<1>1. \A j \in Installs :
        acked[j] > 0 => /\ memory'[j] # NoRecord
                        /\ memory'[j].updated_at >= acked[j]
  <2> SUFFICES ASSUME NEW j \in Installs, acked[j] > 0
               PROVE  memory'[j] # NoRecord /\ memory'[j].updated_at >= acked[j]
    OBVIOUS
  <2>1. memory[j] # NoRecord /\ memory[j].updated_at >= acked[j]
    BY <1>0 DEF StoreInv, MemoryKeepsAcked
  <2>2. acked[j] <= clock'
    BY <2>1, <1>0 DEF StoreInv, TypeOK, StampsInPast, Tick, Records, NoRecord
  <2> QED
    BY <2>1, <2>2, <1>0 DEF StoreInv, TypeOK
<1>2. CASE WriteSucceeds(memory') /\ acked' = [acked EXCEPT ![i] = clock']
  <2>1. \A j \in Installs :
          acked'[j] > 0 => /\ memory'[j] # NoRecord
                           /\ memory'[j].updated_at >= acked'[j]
    BY <1>0, <1>1, <1>2 DEF StoreInv, TypeOK, Tick
  <2>2. disk' = memory' /\ dirty' = FALSE
    BY <1>2 DEF WriteSucceeds
  <2>3. TypeOK'
    <3>1. memory' \in [Installs -> Records \cup {NoRecord}]
      BY <1>0 DEF StoreInv, TypeOK
    <3>2. clock' \in Nat /\ acked' \in [Installs -> Nat]
      BY <1>0, <1>2 DEF StoreInv, TypeOK, Tick
    <3>3. timer' = "none" /\ late' \in Nat
      BY DEF StoreInv, TypeOK, UpdateStateForced, CancelTimer
    <3> QED
      BY <3>1, <3>2, <3>3, <1>2, <2>2
      DEF StoreInv, TypeOK, UpdateStateForced, WriteSucceeds
  <2>4. CleanMeansSaved' /\ NoLostWakeup' /\ AckedTerminalSurvives' /\ MemoryKeepsAcked'
    BY <2>1, <2>2 DEF CleanMeansSaved, NoLostWakeup, AckedTerminalSurvives, MemoryKeepsAcked
  <2>5. DeletedStaysDeleted'
    BY <1>0, <2>2 DEF StoreInv, TypeOK, DeletedStaysDeleted, UpdateStateForced
  <2>6. StampsInPast'
    BY <1>0, <2>2 DEF StoreInv, TypeOK, StampsInPast, Tick, Records, NoRecord
  <2>7. DownIsEmpty' /\ IdsAreUsed'
    BY <1>0, <2>2 DEF StoreInv, TypeOK, DownIsEmpty, Running, UpdateStateForced, IdsAreUsed
  <2> QED
    BY <2>3, <2>4, <2>5, <2>6, <2>7 DEF StoreInv
<1>3. CASE WriteFails /\ UNCHANGED acked
  <2>1. disk' = disk /\ dirty' = TRUE /\ lastWriteFailed' = TRUE
    BY <1>3 DEF WriteFails
  <2>2. TypeOK'
    <3>1. memory' \in [Installs -> Records \cup {NoRecord}]
      BY <1>0 DEF StoreInv, TypeOK
    <3>2. clock' \in Nat /\ failures' \in Nat
      BY <1>0, <1>3 DEF StoreInv, TypeOK, Tick, WriteFails
    <3>3. timer' = "none" /\ late' \in Nat
      BY DEF StoreInv, TypeOK, UpdateStateForced, CancelTimer
    <3> QED
      BY <3>1, <3>2, <3>3, <1>3, <2>1 DEF StoreInv, TypeOK, UpdateStateForced
  <2>3. CleanMeansSaved' /\ NoLostWakeup'
    BY <2>1 DEF CleanMeansSaved, NoLostWakeup
  <2>4. AckedTerminalSurvives' /\ MemoryKeepsAcked'
    BY <1>1, <1>3, <2>1 DEF StoreInv, AckedTerminalSurvives, MemoryKeepsAcked
  <2>5. DeletedStaysDeleted'
    BY <1>0, <2>1 DEF StoreInv, TypeOK, DeletedStaysDeleted, UpdateStateForced
  <2>6. StampsInPast'
    BY <1>0, <2>1 DEF StoreInv, TypeOK, StampsInPast, Tick, Records, NoRecord
  <2>7. DownIsEmpty' /\ IdsAreUsed'
    BY <1>0, <2>1 DEF StoreInv, TypeOK, DownIsEmpty, Running, UpdateStateForced, IdsAreUsed
  <2> QED
    BY <2>2, <2>3, <2>4, <2>5, <2>6, <2>7 DEF StoreInv
<1> QED
  BY <1>2, <1>3 DEF UpdateStateForced

(* delete: the promise made for the record goes with the record, and with
   the write the file forgets both. *)
LEMMA DeleteKeeps ==
  ASSUME StoreInv, NEW i \in Installs, Delete(i)
  PROVE  StoreInv'
<1>0. /\ phase = "up" /\ phase' = "up" /\ Running /\ Running' /\ Tick /\ used' = used
      /\ edited' = edited /\ edited \in SUBSET Installs
      /\ i \notin gone
      /\ memory' = [memory EXCEPT ![i] = NoRecord]
      /\ acked' = [acked EXCEPT ![i] = 0]
      /\ timer' = "none" /\ late' \in Nat
  BY DEF Delete, Running, StoreInv, DeletedStaysDeleted, TypeOK, CancelTimer
<1>1. i \in used
  BY DEF Delete, StoreInv, IdsAreUsed
<1>2. /\ memory' \in [Installs -> Records \cup {NoRecord}]
      /\ acked' \in [Installs -> Nat]
      /\ clock' \in Nat /\ clock <= clock'
  BY <1>0 DEF StoreInv, TypeOK, Tick
<1>3. MemoryKeepsAcked'
  BY <1>0 DEF StoreInv, TypeOK, MemoryKeepsAcked
<1>4. \A j \in Installs : memory'[j].updated_at <= clock'
  BY <1>0, <1>2 DEF StoreInv, TypeOK, StampsInPast, Tick, Records, NoRecord
<1>5. \A j \in Installs : disk[j].updated_at <= clock'
  BY <1>0, <1>2 DEF StoreInv, TypeOK, StampsInPast, Tick, Records, NoRecord
<1>6. CASE WriteSucceeds(memory') /\ gone' = gone \cup {i}
  <2>1. disk' = memory' /\ dirty' = FALSE
    BY <1>6 DEF WriteSucceeds
  <2>2. TypeOK'
    BY <1>0, <1>2, <1>6, <2>1 DEF StoreInv, TypeOK, WriteSucceeds
  <2>3. CleanMeansSaved' /\ NoLostWakeup' /\ StampsInPast'
    BY <1>4, <2>1 DEF CleanMeansSaved, NoLostWakeup, StampsInPast
  <2>4. AckedTerminalSurvives'
    BY <1>3, <1>0, <2>1 DEF AckedTerminalSurvives, MemoryKeepsAcked
  <2>5. DeletedStaysDeleted'
    BY <1>0, <1>6, <2>1 DEF StoreInv, TypeOK, DeletedStaysDeleted
  <2>6. DownIsEmpty' /\ IdsAreUsed'
    BY <1>0, <1>1, <1>6, <2>1 DEF StoreInv, TypeOK, DownIsEmpty, IdsAreUsed
  <2> QED
    BY <1>3, <2>2, <2>3, <2>4, <2>5, <2>6 DEF StoreInv
<1>7. CASE WriteFails /\ UNCHANGED gone
  <2>1. disk' = disk /\ dirty' = TRUE /\ lastWriteFailed' = TRUE /\ failures' \in Nat
    BY <1>7 DEF WriteFails, StoreInv, TypeOK
  <2>2. TypeOK'
    BY <1>0, <1>2, <1>7, <2>1 DEF StoreInv, TypeOK
  <2>3. CleanMeansSaved' /\ NoLostWakeup' /\ StampsInPast'
    BY <1>4, <1>5, <2>1 DEF CleanMeansSaved, NoLostWakeup, StampsInPast
  <2>4. AckedTerminalSurvives'
    BY <1>0, <2>1 DEF StoreInv, TypeOK, AckedTerminalSurvives
  <2>5. DeletedStaysDeleted'
    BY <1>0, <1>7, <2>1 DEF StoreInv, TypeOK, DeletedStaysDeleted
  <2>6. DownIsEmpty' /\ IdsAreUsed'
    BY <1>0, <1>7, <2>1 DEF StoreInv, TypeOK, DownIsEmpty, IdsAreUsed
  <2> QED
    BY <1>3, <2>2, <2>3, <2>4, <2>5, <2>6 DEF StoreInv
<1> QED
  BY <1>6, <1>7 DEF Delete

(* Any action that leaves the records alone and may write the file: the    *)
(* timer threads and the flush of the shutdown hook.                       *)
LEMMA WriteKeeps ==
  ASSUME StoreInv, Running, Running', WriteIfDirty,
         UNCHANGED <<memory, clock, edited, used, acked, gone>>,
         timer' \in {"none", "armed", "waiting", "fired"}, late' \in Nat,
         phase' \in {"up", "stopping", "down"}
  PROVE  StoreInv'
<1>1. /\ disk' = memory \/ disk' = disk
      /\ dirty' \in BOOLEAN /\ lastWriteFailed' \in BOOLEAN /\ failures' \in Nat
      /\ ~dirty' => \A i \in Installs \ edited : disk'[i] = memory[i]
      /\ dirty' => lastWriteFailed'
  BY WriteIfDirtyFacts
<1>2. TypeOK'
  BY <1>1 DEF StoreInv, TypeOK
<1>3. CleanMeansSaved' /\ NoLostWakeup'
  BY <1>1 DEF CleanMeansSaved, NoLostWakeup
<1>4. AckedTerminalSurvives' /\ MemoryKeepsAcked'
  BY <1>1 DEF StoreInv, AckedTerminalSurvives, MemoryKeepsAcked
<1>5. DeletedStaysDeleted' /\ StampsInPast'
  BY <1>1 DEF StoreInv, TypeOK, DeletedStaysDeleted, StampsInPast
<1>6. DownIsEmpty' /\ IdsAreUsed'
  BY <1>1 DEF StoreInv, TypeOK, DownIsEmpty, Running, IdsAreUsed
<1> QED
  BY <1>2, <1>3, <1>4, <1>5, <1>6 DEF StoreInv

(* An edit in place changes a field the store does not look at. *)
LEMMA EditInPlaceKeeps ==
  ASSUME StoreInv, NEW i \in Installs, NEW c \in Contents, EditInPlace(i, c)
  PROVE  StoreInv'
<1>1. /\ Running /\ Running' /\ memory[i] \in Records /\ i \in used
      /\ edited' = edited \cup {i} /\ edited' \in SUBSET Installs
      /\ UNCHANGED <<disk, dirty, timer, late, phase, clock, failures, used,
                     lastWriteFailed, acked, gone>>
  BY DEF EditInPlace, Running, StoreInv, TypeOK, FlushStates, NoRecord, historyVars, IdsAreUsed
<1>2. /\ memory' \in [Installs -> Records \cup {NoRecord}]
      /\ memory'[i] # NoRecord /\ memory'[i].updated_at = memory[i].updated_at
      /\ \A j \in Installs : j # i => memory'[j] = memory[j]
  <2>1. /\ memory' = [memory EXCEPT ![i].content = c]
        /\ memory'[i] = [memory[i] EXCEPT !.content = c] /\ memory'[i] \in Records
    BY <1>1 DEF EditInPlace, StoreInv, TypeOK, Records
  <2>2. memory'[i] # NoRecord
    BY <2>1, StoreAssumption DEF Records, States, TerminalStates, FlushStates, NoRecord
  <2> QED
    BY <1>1, <2>1, <2>2 DEF StoreInv, TypeOK, Records
<1>3. memory[i] # NoRecord /\ i \notin gone
  BY <1>1, StoreAssumption
  DEF StoreInv, TypeOK, DeletedStaysDeleted, Records, States, TerminalStates, FlushStates, NoRecord
<1>4. TypeOK'
  BY <1>1, <1>2 DEF StoreInv, TypeOK
<1>5. CleanMeansSaved' /\ NoLostWakeup'
  BY <1>1, <1>2 DEF StoreInv, CleanMeansSaved, NoLostWakeup
<1>6. AckedTerminalSurvives' /\ MemoryKeepsAcked'
  BY <1>1, <1>2 DEF StoreInv, AckedTerminalSurvives, MemoryKeepsAcked
<1>7. DeletedStaysDeleted'
  <2> SUFFICES ASSUME NEW j \in gone PROVE disk[j] = NoRecord /\ memory'[j] = NoRecord
    BY <1>1 DEF DeletedStaysDeleted
  <2>1. j # i /\ j \in Installs
    BY <1>3 DEF StoreInv, TypeOK
  <2> QED
    BY <1>2, <2>1 DEF StoreInv, DeletedStaysDeleted
<1>8. StampsInPast'
  BY <1>1, <1>2 DEF StoreInv, StampsInPast
<1>9. DownIsEmpty' /\ IdsAreUsed'
  BY <1>1, <1>2 DEF StoreInv, DownIsEmpty, IdsAreUsed, Running
<1> QED
  BY <1>4, <1>5, <1>6, <1>7, <1>8, <1>9 DEF StoreInv

(* The edit is handed over: the store is dirty from then on. *)
LEMMA PersistKeeps ==
  ASSUME StoreInv, NEW i \in Installs, Persist(i)
  PROVE  StoreInv'
<1>1. /\ Running /\ Running' /\ dirty' = TRUE /\ timer' # "none"
      /\ timer' \in {"none", "armed", "waiting", "fired"}
      /\ edited' \in SUBSET Installs
      /\ UNCHANGED <<memory, disk, late, phase, clock, failures, used,
                     lastWriteFailed, acked, gone>>
  BY DEF Persist, PersistDebounced, Running, StoreInv, TypeOK, historyVars
<1>2. TypeOK'
  BY <1>1 DEF StoreInv, TypeOK
<1>3. CleanMeansSaved' /\ NoLostWakeup'
  BY <1>1 DEF CleanMeansSaved, NoLostWakeup
<1>4. AckedTerminalSurvives' /\ MemoryKeepsAcked' /\ DeletedStaysDeleted'
  BY <1>1 DEF StoreInv, AckedTerminalSurvives, MemoryKeepsAcked, DeletedStaysDeleted
<1>5. StampsInPast' /\ DownIsEmpty' /\ IdsAreUsed'
  BY <1>1 DEF StoreInv, StampsInPast, DownIsEmpty, IdsAreUsed
<1> QED
  BY <1>2, <1>3, <1>4, <1>5 DEF StoreInv

(* The delay passes: the timer thread only changes its own standing. *)
LEMMA TimerExpiresKeeps ==
  ASSUME StoreInv, TimerExpires
  PROVE  StoreInv'
<1>1. TypeOK' /\ IdsAreUsed'
  BY DEF StoreInv, TypeOK, TimerExpires, historyVars, IdsAreUsed
<1>2. CleanMeansSaved' /\ NoLostWakeup'
  BY DEF StoreInv, TimerExpires, CleanMeansSaved, NoLostWakeup, Running
<1>3. AckedTerminalSurvives' /\ DeletedStaysDeleted' /\ StampsInPast'
  BY DEF StoreInv, TimerExpires, AckedTerminalSurvives, DeletedStaysDeleted,
         StampsInPast, historyVars
<1>4. MemoryKeepsAcked' /\ DownIsEmpty'
  BY DEF StoreInv, TimerExpires, MemoryKeepsAcked, DownIsEmpty, Running, historyVars
<1> QED
  BY <1>1, <1>2, <1>3, <1>4 DEF StoreInv

(* The process is lost: the file alone keeps what was acknowledged. *)
LEMMA ProcessGoneKeeps ==
  ASSUME StoreInv, ProcessGone
  PROVE  StoreInv'
<1>1. TypeOK'
  BY DEF StoreInv, TypeOK, ProcessGone, historyVars
<1>2. CleanMeansSaved' /\ NoLostWakeup' /\ MemoryKeepsAcked'
  BY DEF ProcessGone, CleanMeansSaved, NoLostWakeup, MemoryKeepsAcked, Running
<1>3. AckedTerminalSurvives' /\ IdsAreUsed'
  BY DEF StoreInv, ProcessGone, AckedTerminalSurvives, historyVars, IdsAreUsed
<1>4. DeletedStaysDeleted' /\ DownIsEmpty'
  BY DEF StoreInv, TypeOK, ProcessGone, DeletedStaysDeleted, DownIsEmpty, historyVars
<1>5. StampsInPast'
  BY DEF StoreInv, TypeOK, ProcessGone, StampsInPast, NoRecord
<1> QED
  BY <1>1, <1>2, <1>3, <1>4, <1>5 DEF StoreInv

(* _load: reconciled records are stamped later than everything promised. *)
LEMMA LoadKeeps ==
  ASSUME StoreInv, Load
  PROVE  StoreInv'
<1>0. /\ clock' = clock + 1 /\ clock' \in Nat
      /\ disk' = disk /\ dirty' = TRUE /\ phase' = "up" /\ timer' \in {"armed", "waiting", "fired"}
      /\ UNCHANGED <<late, failures, lastWriteFailed, edited, used, acked, gone>>
  BY DEF Load, Tick, PersistDebounced, StoreInv, TypeOK, historyVars
<1>1. \A i \in Installs :
        /\ memory'[i] \in Records \cup {NoRecord}
        /\ disk[i] = NoRecord <=> memory'[i] = NoRecord
        /\ memory'[i].updated_at <= clock'
        /\ disk[i].updated_at <= memory'[i].updated_at
  <2> SUFFICES ASSUME NEW i \in Installs
               PROVE  /\ memory'[i] \in Records \cup {NoRecord}
                      /\ disk[i] = NoRecord <=> memory'[i] = NoRecord
                      /\ memory'[i].updated_at <= clock'
                      /\ disk[i].updated_at <= memory'[i].updated_at
    OBVIOUS
  <2>1. memory'[i] = Reconcile(disk[i], clock')
    BY DEF Load
  <2>2. disk[i] \in Records \cup {NoRecord} /\ disk[i].updated_at <= clock
        /\ clock \in Nat /\ disk[i].updated_at \in Nat
    BY DEF StoreInv, TypeOK, StampsInPast, Records, NoRecord
  <2>3. CASE disk[i] = NoRecord \/ disk[i].state \in TerminalStates
    BY <1>0, <2>1, <2>2, <2>3 DEF Reconcile
  <2>4. CASE ~(disk[i] = NoRecord \/ disk[i].state \in TerminalStates)
    <3>1. /\ memory'[i] = [disk[i] EXCEPT !.state = "FAILED", !.updated_at = clock']
          /\ disk[i] \in Records
      BY <2>1, <2>2, <2>4 DEF Reconcile
    <3>3. "FAILED" \in States
      BY DEF States, TerminalStates, FlushStates
    <3>4. clock' \in Nat /\ disk[i] \in Records
      BY <1>0, <3>1
    <3>5. /\ [disk[i] EXCEPT !.state = "FAILED", !.updated_at = clock'] \in Records
          /\ [disk[i] EXCEPT !.state = "FAILED", !.updated_at = clock'].updated_at = clock'
      BY <3>3, <3>4, RecordMoves
    <3>2. memory'[i] \in Records /\ memory'[i] # NoRecord /\ memory'[i].updated_at = clock'
      BY <3>1, <3>5, RecordsAreThere
    <3> QED
      BY <1>0, <2>2, <2>4, <3>2
  <2> QED
    BY <2>3, <2>4
<1>2. memory' \in [Installs -> Records \cup {NoRecord}]
  BY <1>1 DEF Load
<1>3. TypeOK'
  BY <1>0, <1>2 DEF StoreInv, TypeOK
<1>4. CleanMeansSaved' /\ NoLostWakeup' /\ DownIsEmpty' /\ IdsAreUsed'
  BY <1>0, <1>1 DEF StoreInv, CleanMeansSaved, NoLostWakeup, DownIsEmpty, IdsAreUsed
<1>5. AckedTerminalSurvives'
  BY <1>0 DEF StoreInv, AckedTerminalSurvives
<1>6. DeletedStaysDeleted'
  BY <1>0, <1>1 DEF StoreInv, TypeOK, DeletedStaysDeleted
<1>7. StampsInPast'
  BY <1>0, <1>1 DEF StoreInv, TypeOK, StampsInPast, Records, NoRecord
<1>8. MemoryKeepsAcked'
  <2> SUFFICES ASSUME NEW i \in Installs, acked[i] > 0
               PROVE  memory'[i] # NoRecord /\ memory'[i].updated_at >= acked[i]
    BY <1>0 DEF MemoryKeepsAcked
  <2>1. /\ disk[i] # NoRecord /\ disk[i].updated_at >= acked[i]
        /\ acked[i] \in Nat /\ disk[i].updated_at \in Nat
    BY DEF StoreInv, TypeOK, AckedTerminalSurvives, Records, NoRecord
  <2>2. memory'[i].updated_at \in Nat
    BY <1>1 DEF Records, NoRecord
  <2> QED
    BY <1>1, <2>1, <2>2
<1> QED
  BY <1>3, <1>4, <1>5, <1>6, <1>7, <1>8 DEF StoreInv

(* StoreInv is inductive: one case per action. *)
LEMMA NextKeepsStoreInv == StoreInv /\ [Next]_storeVars => StoreInv'
<1> SUFFICES ASSUME StoreInv, [Next]_storeVars PROVE StoreInv'
  OBVIOUS
<1>1. ASSUME NEW i \in Installs, Create(i) PROVE StoreInv'
  <2> DEFINE r == [state |-> "DRAFT", updated_at |-> clock', content |-> 0]
  <2>1. r \in Records /\ r.updated_at = clock'
    BY <1>1 DEF Create, Tick, StoreInv, TypeOK, Records, States, TerminalStates, Contents
  <2>2. i \notin gone
    BY <1>1 DEF Create, StoreInv, IdsAreUsed
  <2>3. used' = used \cup {i} /\ used' \in SUBSET Installs
    BY <1>1 DEF Create, StoreInv, TypeOK
  <2> HIDE DEF r
  <2> QED
    BY <1>1, <2>1, <2>2, <2>3, DebouncedMutation DEF Create, historyVars, Running, r
<1>2. ASSUME NEW i \in Installs, NEW c \in Contents, Touch(i, c) PROVE StoreInv'
  <2> DEFINE r == [memory[i] EXCEPT !.updated_at = clock', !.content = c]
  <2>3. memory[i] \in Records /\ clock' \in Nat
    BY <1>2 DEF Touch, Tick, StoreInv, TypeOK
  <2>4. r \in Records /\ r.updated_at = clock'
    BY <2>3, RecordIsTouched
  <2>1. memory' = [memory EXCEPT ![i] = r]
    BY <1>2 DEF Touch
  <2>2. i \notin gone /\ i \in used' /\ used' = used /\ used' \in SUBSET Installs
    BY <1>2 DEF Touch, StoreInv, TypeOK, DeletedStaysDeleted, IdsAreUsed
  <2> HIDE DEF r
  <2> QED
    BY <1>2, <2>1, <2>2, <2>4, DebouncedMutation DEF Touch, historyVars
<1>3. ASSUME NEW i \in Installs, NEW s \in States, UpdateStateDebounced(i, s)
      PROVE  StoreInv'
  <2> DEFINE r == Moved(i, s)
  <2>3. memory[i] \in Records /\ clock' \in Nat
    BY <1>3 DEF UpdateStateDebounced, Tick, StoreInv, TypeOK
  <2>4. r \in Records /\ r.updated_at = clock'
    BY <2>3, RecordMoves DEF Moved
  <2>1. memory' = [memory EXCEPT ![i] = r]
    BY <1>3 DEF UpdateStateDebounced
  <2>2. i \notin gone /\ i \in used' /\ used' = used /\ used' \in SUBSET Installs
    BY <1>3 DEF UpdateStateDebounced, StoreInv, TypeOK, DeletedStaysDeleted, IdsAreUsed
  <2> HIDE DEF r
  <2> QED
    BY <1>3, <2>1, <2>2, <2>4, DebouncedMutation DEF UpdateStateDebounced, historyVars
<1>4. ASSUME NEW i \in Installs, NEW s \in States, UpdateStateForced(i, s)
      PROVE  StoreInv'
  BY <1>4, ForcedMutation
<1>5. ASSUME NEW i \in Installs, Delete(i) PROVE StoreInv'
  BY <1>5, DeleteKeeps
<1>6. CASE TimerExpires
  BY <1>6, TimerExpiresKeeps
<1>7. CASE FlushFromTimer
  BY <1>7, WriteKeeps DEF FlushFromTimer, historyVars, Running, StoreInv, TypeOK
<1>8. CASE FlushFromLateTimer
  BY <1>8, WriteKeeps DEF FlushFromLateTimer, historyVars, Running, StoreInv, TypeOK
<1>9. CASE Flush
  BY <1>9, WriteKeeps DEF Flush, CancelTimer, historyVars, Running, StoreInv, TypeOK
<1>10. CASE Exit \/ Crash
  BY <1>10, ProcessGoneKeeps DEF Exit, Crash
<1>11. CASE Load
  BY <1>11, LoadKeeps
<1>13. ASSUME NEW i \in Installs, NEW c \in Contents, EditInPlace(i, c) PROVE StoreInv'
  BY <1>13, EditInPlaceKeeps
<1>14. ASSUME NEW i \in Installs, Persist(i) PROVE StoreInv'
  BY <1>14, PersistKeeps
<1>12. CASE UNCHANGED storeVars
  BY <1>12
  DEF storeVars, StoreInv, TypeOK, CleanMeansSaved, NoLostWakeup,
      AckedTerminalSurvives, DeletedStaysDeleted, StampsInPast, MemoryKeepsAcked,
      DownIsEmpty, IdsAreUsed, Running
<1> QED
  BY <1>1, <1>2, <1>3, <1>4, <1>5, <1>6, <1>7, <1>8, <1>9, <1>10, <1>11, <1>12,
     <1>13, <1>14
  DEF Next

(* Every reachable state of the store satisfies the inductive invariant.   *)
THEOREM StoreInvHolds == Spec => []StoreInv
BY InitStoreInv, NextKeepsStoreInv, PTL DEF Spec

(* The variables of backend/state.py stay in their domains. *)
THEOREM StoreTypeOK == Spec => []TypeOK
<1>1. StoreInv => TypeOK
  BY DEF StoreInv
<1> QED
  BY <1>1, StoreInvHolds, PTL

(* update_state to a terminal state is durable once it has returned, for   *)
(* any number of installs, crashes, restarts and failing writes.           *)
THEOREM AckedTerminalIsDurable == Spec => []AckedTerminalSurvives
<1>1. StoreInv => AckedTerminalSurvives
  BY DEF StoreInv
<1> QED
  BY <1>1, StoreInvHolds, PTL

(* delete is final once it has returned. *)
THEOREM DeletionIsFinal == Spec => []DeletedStaysDeleted
<1>1. StoreInv => DeletedStaysDeleted
  BY DEF StoreInv
<1> QED
  BY <1>1, StoreInvHolds, PTL

(* _dirty never under-reports, and a pending change always has a thread    *)
(* that will write it unless the latest write failed.                      *)
THEOREM DebounceIsSound == Spec => [](CleanMeansSaved /\ NoLostWakeup)
<1>1. StoreInv => CleanMeansSaved /\ NoLostWakeup
  BY DEF StoreInv
<1> QED
  BY <1>1, StoreInvHolds, PTL

-----------------------------------------------------------------------------
(* The refinement.  volatile is what the running process answers from, and *)
(* while it is down what the next load will answer from.                   *)

Volatile ==
  IF Running THEN memory ELSE [i \in Installs |-> Reconcile(disk[i], clock + 1)]

(* Loading repairs an entry in the only way the promise allows. *)
LEMMA ReconcileRepairs ==
  ASSUME NEW d \in Records \cup {NoRecord}, NEW now
  PROVE  Repaired(d, Reconcile(d, now))
BY DEF Reconcile, Repaired, Records, States

(* A method that replaces one record of a running store and leaves the     *)
(* file alone, or writes all of the memory into it.                        *)
LEMMA OneRecordIsOneEntry ==
  ASSUME StoreInv, Running, phase' = phase, NEW i \in Installs, NEW r,
         memory' = [memory EXCEPT ![i] = r],
         disk' = disk \/ disk' = memory'
  PROVE  WB!Next
<1>1. Running' /\ Volatile = memory /\ Volatile' = memory'
  BY DEF Running, Volatile
<1>2. \A j \in Installs \ {i} : memory'[j] = memory[j]
  BY DEF StoreInv, TypeOK
<1>3. WB!OneEntryChanges
  BY <1>1, <1>2 DEF WB!OneEntryChanges, Volatile
<1> QED
  BY <1>1, <1>3 DEF WB!Next, WB!Mutate, WB!MutateThrough, Volatile

(* The timer threads and the flush of the shutdown hook. *)
LEMMA WritingIsASnapshot ==
  ASSUME StoreInv, Running, Running', WriteIfDirty, memory' = memory
  PROVE  WB!Next \/ UNCHANGED WB!wbVars
<1>1. Volatile = memory /\ Volatile' = memory'
  BY DEF Volatile
<1>2. disk' = memory \/ disk' = disk
  BY DEF WriteIfDirty, WriteSucceeds, WriteFails
<1> QED
  BY <1>1, <1>2 DEF WB!Next, WB!Snapshot, WB!wbVars, Volatile

(* The process goes, and what it held in memory with it. *)
LEMMA GoneIsALoss ==
  ASSUME StoreInv, ProcessGone
  PROVE  WB!Next
<1>1. ~Running' /\ disk' = disk
  BY DEF ProcessGone, Running
<1>2. Volatile' = [i \in Installs |-> Reconcile(disk[i], clock' + 1)]
  BY <1>1 DEF Volatile
<1>3. \A i \in Installs : Repaired(disk[i], Volatile'[i])
  BY <1>2, ReconcileRepairs DEF StoreInv, TypeOK
<1> QED
  BY <1>1, <1>3 DEF WB!Next, WB!LoseVolatile, Volatile

(* A load only brings about what the lost memory had become. *)
LEMMA LoadIsAStutter ==
  ASSUME StoreInv, Load
  PROVE  UNCHANGED WB!wbVars
<1>1. /\ ~Running /\ Running' /\ clock' = clock + 1 /\ disk' = disk
      /\ memory' = [i \in Installs |-> Reconcile(disk[i], clock')]
  BY DEF Load, Running, Tick, PersistDebounced
<1> QED
  BY <1>1 DEF WB!wbVars

(* Every step of the store is a step of the write-back map, or none. *)
LEMMA StoreStepsAreMapSteps ==
  StoreInv /\ [Next]_storeVars => [WB!Next]_(WB!wbVars)
<1> SUFFICES ASSUME StoreInv, [Next]_storeVars
             PROVE  WB!Next \/ UNCHANGED WB!wbVars
  OBVIOUS
<1>1. ASSUME NEW i \in Installs,
             Create(i) \/ (\E c \in Contents : Touch(i, c) \/ EditInPlace(i, c)) \/ Delete(i)
               \/ \E s \in States : UpdateStateDebounced(i, s) \/ UpdateStateForced(i, s)
      PROVE  WB!Next
  <2>1. Running /\ phase' = phase
    BY <1>1
    DEF Create, Touch, EditInPlace, Delete, UpdateStateDebounced, UpdateStateForced, Running
  <2>2. \E r : memory' = [memory EXCEPT ![i] = r]
    BY <1>1 DEF Create, Touch, EditInPlace, Delete, UpdateStateDebounced, UpdateStateForced
  <2>3. disk' = disk \/ disk' = memory'
    BY <1>1 DEF Create, Touch, EditInPlace, Delete, UpdateStateDebounced, UpdateStateForced,
                PersistDebounced, WriteSucceeds, WriteFails
  <2> QED
    BY <2>1, <2>2, <2>3, OneRecordIsOneEntry
<1>7. ASSUME NEW i \in Installs, Persist(i) PROVE UNCHANGED WB!wbVars
  BY <1>7 DEF Persist, PersistDebounced, Running, WB!wbVars
<1>2. CASE TimerExpires
  BY <1>2 DEF TimerExpires, Running, WB!wbVars
<1>3. CASE FlushFromTimer \/ FlushFromLateTimer \/ Flush
  BY <1>3, WritingIsASnapshot DEF FlushFromTimer, FlushFromLateTimer, Flush, Running
<1>4. CASE Exit \/ Crash
  BY <1>4, GoneIsALoss DEF Exit, Crash
<1>5. CASE Load
  BY <1>5, LoadIsAStutter
<1>6. CASE UNCHANGED storeVars
  BY <1>6 DEF storeVars, Running, WB!wbVars
<1> QED
  BY <1>1, <1>2, <1>3, <1>4, <1>5, <1>6, <1>7 DEF Next

(* The store implements a map with whole-file snapshots: no interleaving   *)
(* of debounce timers, forced writes, failed writes, crashes and restarts  *)
(* lets the file mix two moments, and a restart repairs entry by entry.    *)
THEOREM StoreIsAWriteBackMap == Spec => ImplementsWriteBack
<1>1. Init => WB!Init
  BY DEF Init, WB!Init, Running
<1> QED
  BY <1>1, StoreInvHolds, StoreStepsAreMapSteps, PTL DEF Spec, ImplementsWriteBack, WB!Spec

(* A pending change always has a thread that will write it, unless the     *)
(* latest write failed, whatever the interleaving of force, cancel and     *)
(* callbacks that were already past cancel.                                *)
THEOREM NoWakeupIsLost == Spec => []NoLostWakeup
<1>1. StoreInv => NoLostWakeup
  BY DEF StoreInv
<1> QED
  BY <1>1, StoreInvHolds, PTL
=============================================================================
