--------------------------- MODULE BackupSchedules ---------------------------
(***************************************************************************)
(* The schedule file of backend/backup.py and the loop that fires backups. *)
(*                                                                         *)
(* backup_schedules.json is read, changed in memory and replaced as a      *)
(* whole by the threads that serve PUT .../schedule and by the scheduler   *)
(* loop, without a lock and through one temporary file.  Each access to    *)
(* the file system is an action: two reads (load_schedule, then the whole  *)
(* file), opening and thereby truncating the temporary file, writing it,   *)
(* and replacing the file with it.  A writer keeps its open file when      *)
(* another one moves or unlinks it, so fd says which name it has now.      *)
(*                                                                         *)
(* A schedule is its switch, its interval and its cursor next_run_at; the  *)
(* kind and last_run_at are not read by anything modelled here.            *)
(***************************************************************************)
EXTENDS Integers, FiniteSets

CONSTANTS
  Installs,
  Savers,      \* threads that serve a save
  Intervals,   \* interval_hours
  MaxClock,    \* bound: hours
  MaxSaves,    \* bound: saves
  MaxOutages   \* bound: losses of the server process

ASSUME ScheduleAssumption ==
  /\ Installs # {} /\ Intervals \subseteq Nat \ {0}
  /\ MaxClock \in Nat /\ MaxSaves \in Nat /\ MaxOutages \in Nat
  /\ 0 \notin Savers

Scheduler == 0
Writers == Savers \cup {Scheduler}

Never == -1          \* next_run_at is null
LastTime == MaxClock + (CHOOSE n \in Intervals : \A m \in Intervals : m <= n)
Schedule == [enabled: BOOLEAN, interval: Intervals, next: {Never} \cup 0..LastTime]
Unset == [enabled |-> FALSE, interval |-> 0, next |-> Never]   \* no entry
Default == [enabled |-> FALSE,
            interval |-> CHOOSE n \in Intervals : \A m \in Intervals : n <= m,
            next |-> Never]
Schedules == [Installs -> Schedule \cup {Unset}]
Empty == [i \in Installs |-> Unset]

(* A file is absent, holds a whole document, or is truncated. *)
NoFile == [kind |-> "absent"]
Torn == [kind |-> "torn"]
Whole(schedules) == [kind |-> "whole", schedules |-> schedules]
Files == {NoFile, Torn} \cup [kind: {"whole"}, schedules: Schedules]

VARIABLES
  scheduleFile, tmp,   \* backup_schedules.json and backup_schedules.json.tmp
  at,          \* [Writers -> where it is in its read, change and write]
  whose,       \* [Writers -> the install it changes]
  mine,        \* [Writers -> the entry it writes]
  document,    \* [Writers -> the whole file it writes]
  fd,          \* [Writers -> the name of its open file now]
  due,         \* the schedules the running tick has still to fire
  tickTime,    \* now of the running tick
  clock, saves, outages,
  serial       \* history: no save wrote since the cursor update read the file

writerVars == <<at, whose, mine, document, fd>>
scheduleVars == <<scheduleFile, tmp, writerVars, due, tickTime, clock, saves, outages, serial>>

Anyone == CHOOSE i \in Installs : TRUE

SchedulesTypeOK ==
  /\ scheduleFile \in Files /\ tmp \in Files
  /\ at \in [Writers -> {"idle", "backup", "load", "read", "open", "write", "replace"}]
  /\ whose \in [Writers -> Installs]
  /\ mine \in [Writers -> Schedule \cup {Unset}]
  /\ document \in [Writers -> Schedules]
  /\ fd \in [Writers -> {"none", "tmp", "file", "unlinked"}]
  /\ due \in Schedules
  /\ clock \in 0..MaxClock /\ tickTime \in 0..MaxClock
  /\ saves \in 0..MaxSaves /\ outages \in 0..MaxOutages
  /\ serial \in BOOLEAN

SchedulesInit ==
  /\ scheduleFile = NoFile /\ tmp = NoFile
  /\ at = [w \in Writers |-> "idle"]
  /\ whose = [w \in Writers |-> Anyone]
  /\ mine = [w \in Writers |-> Unset]
  /\ document = [w \in Writers |-> Empty]
  /\ fd = [w \in Writers |-> "none"]
  /\ due = Empty /\ tickTime = 0
  /\ clock = 0 /\ saves = 0 /\ outages = 0 /\ serial = TRUE

-----------------------------------------------------------------------------
(* _read_schedules_file: a document that does not parse is moved aside, and *)
(* its reader goes on with none.  The parts of the scheduler and of a save  *)
(* that read are told what they read through Read.                          *)
Read == IF scheduleFile.kind = "whole" THEN scheduleFile.schedules ELSE Empty

MoveAsideIfTorn ==
  /\ scheduleFile' = IF scheduleFile = Torn THEN NoFile ELSE scheduleFile
  /\ fd' = [w \in Writers |-> IF scheduleFile = Torn /\ fd[w] = "file" THEN "unlinked" ELSE fd[w]]

MovesTo(w, where) == at' = [at EXCEPT ![w] = where]

(* What a writer holds is local to it: forgotten at its end. *)
Ends(w) ==
  /\ MovesTo(w, "idle")
  /\ whose' = [whose EXCEPT ![w] = Anyone]
  /\ mine' = [mine EXCEPT ![w] = Unset]
  /\ document' = [document EXCEPT ![w] = Empty]

-----------------------------------------------------------------------------
(* save_schedule.  The request asks for a switch and an interval; the      *)
(* cursor is recomputed from the time of the save.                         *)
BeginSave(w, i, enabled, interval) ==
  /\ w \in Savers /\ at[w] = "idle" /\ saves < MaxSaves
  /\ saves' = saves + 1
  /\ MovesTo(w, "load")
  /\ whose' = [whose EXCEPT ![w] = i]
  /\ mine' = [mine EXCEPT ![w] = [enabled |-> enabled, interval |-> interval,
                                  next |-> IF enabled THEN clock + interval ELSE Never]]
  /\ UNCHANGED <<scheduleFile, tmp, document, fd, due, tickTime, clock, outages>>

(* load_schedule, for the fields the request does not set: none of those   *)
(* modelled.  It still moves a torn file aside.                            *)
LoadCurrent(w) ==
  /\ at[w] = "load"
  /\ MoveAsideIfTorn /\ MovesTo(w, "read")
  /\ UNCHANGED <<tmp, whose, mine, document, due, tickTime, clock, saves, outages>>

(* The whole file is read again and one entry of it changed. *)
ReadForSave(w) ==
  /\ w \in Savers /\ at[w] = "read"
  /\ document' = [document EXCEPT ![w] = [Read EXCEPT ![whose[w]] = mine[w]]]
  /\ MoveAsideIfTorn /\ MovesTo(w, "open")
  /\ UNCHANGED <<tmp, whose, mine, due, tickTime, clock, saves, outages>>

(* Mutant: the cursor is written with the settings the tick read. *)
ReadForCursor_WholeEntry ==
  LET w == Scheduler  i == whose[Scheduler] IN
  /\ at[w] = "read"
  /\ IF Read[i] = Unset
     THEN Ends(w)
     ELSE /\ document' = [document EXCEPT ![w] = [Read EXCEPT ![i] = mine[w]]]
          /\ MovesTo(w, "open") /\ UNCHANGED <<whose, mine>>
  /\ MoveAsideIfTorn
  /\ UNCHANGED <<tmp, due, tickTime, clock, saves, outages>>

(* _persist_run_update: only the cursor of an entry that is still there. *)
ReadForCursor ==
  LET w == Scheduler  i == whose[Scheduler] IN
  /\ at[w] = "read"
  /\ IF Read[i] = Unset
     THEN Ends(w)
     ELSE /\ document' = [document EXCEPT ![w] = [Read EXCEPT ![i].next = mine[w].next]]
          /\ MovesTo(w, "open") /\ UNCHANGED <<whose, mine>>
  /\ MoveAsideIfTorn
  /\ UNCHANGED <<tmp, due, tickTime, clock, saves, outages>>

(* _atomic_write_schedules: write_text opens, and so truncates, the name;  *)
(* what it writes goes to the file it opened.                              *)
OpenTmp(w) ==
  /\ at[w] = "open"
  /\ tmp' = Torn
  /\ fd' = [fd EXCEPT ![w] = "tmp"]
  /\ MovesTo(w, "write")
  /\ UNCHANGED <<scheduleFile, whose, mine, document, due, tickTime, clock, saves, outages>>

WriteTmp(w) ==
  /\ at[w] = "write"
  /\ tmp' = IF fd[w] = "tmp" THEN Whole(document[w]) ELSE tmp
  /\ scheduleFile' = IF fd[w] = "file" THEN Whole(document[w]) ELSE scheduleFile
  /\ fd' = [fd EXCEPT ![w] = "none"]
  /\ MovesTo(w, "replace")
  /\ UNCHANGED <<whose, mine, document, due, tickTime, clock, saves, outages>>

(* os.replace; without a temporary file (another writer has moved it) it   *)
(* raises FileNotFoundError, which is not retried.                         *)
Replace(w) ==
  /\ at[w] = "replace"
  /\ scheduleFile' = IF tmp = NoFile THEN scheduleFile ELSE tmp
  /\ tmp' = NoFile
  /\ fd' = IF tmp = NoFile THEN fd
           ELSE [v \in Writers |-> IF fd[v] = "file" THEN "unlinked"
                                   ELSE IF fd[v] = "tmp" THEN "file" ELSE fd[v]]
  /\ Ends(w)
  /\ UNCHANGED <<due, tickTime, clock, saves, outages>>

-----------------------------------------------------------------------------
(* A tick, once a minute: what is enabled and due now, as the file says. *)
IsDue(s, now) == s.enabled /\ s.next # Never /\ s.next <= now

Tick ==
  /\ at[Scheduler] = "idle" /\ due = Empty
  /\ due' = [i \in Installs |-> IF IsDue(Read[i], clock) THEN Read[i] ELSE Unset]
  /\ tickTime' = IF due' = Empty THEN 0 ELSE clock
  /\ MoveAsideIfTorn
  /\ UNCHANGED <<tmp, at, whose, mine, document, clock, saves, outages>>

(* _fire, up to the await of create_backup. *)
Fire(i) ==
  /\ at[Scheduler] = "idle" /\ due[i] # Unset
  /\ MovesTo(Scheduler, "backup")
  /\ whose' = [whose EXCEPT ![Scheduler] = i]
  /\ UNCHANGED <<scheduleFile, tmp, mine, document, fd, due, tickTime, clock, saves, outages>>

TickGoesOn ==
  /\ due' = [due EXCEPT ![whose[Scheduler]] = Unset]
  /\ tickTime' = IF due' = Empty THEN 0 ELSE tickTime

(* The cursor is computed from the time and the interval of the tick. *)
BackupSucceeds ==
  LET i == whose[Scheduler] IN
  /\ at[Scheduler] = "backup"
  /\ mine' = [mine EXCEPT ![Scheduler] = [due[i] EXCEPT !.next = tickTime + due[i].interval]]
  /\ TickGoesOn
  /\ MovesTo(Scheduler, "read")
  /\ UNCHANGED <<scheduleFile, tmp, whose, document, fd, clock, saves, outages>>

(* Mutant: an exception of create_backup ends the tick. *)
BackupFails_EndsTick ==
  /\ at[Scheduler] = "backup"
  /\ due' = Empty /\ tickTime' = 0
  /\ Ends(Scheduler)
  /\ UNCHANGED <<scheduleFile, tmp, fd, clock, saves, outages>>

(* The exception is caught, the cursor stays and the tick goes on. *)
BackupFails ==
  /\ at[Scheduler] = "backup"
  /\ TickGoesOn /\ Ends(Scheduler)
  /\ UNCHANGED <<scheduleFile, tmp, fd, clock, saves, outages>>

-----------------------------------------------------------------------------
Hour ==
  /\ clock < MaxClock /\ clock' = clock + 1
  /\ UNCHANGED <<scheduleFile, tmp, writerVars, due, tickTime, saves, outages>>

(* The process is lost and started again; what is on the disk stays. *)
ScheduleRestart ==
  /\ outages < MaxOutages /\ outages' = outages + 1
  /\ at' = [w \in Writers |-> "idle"]
  /\ whose' = [w \in Writers |-> Anyone]
  /\ mine' = [w \in Writers |-> Unset]
  /\ document' = [w \in Writers |-> Empty]
  /\ fd' = [w \in Writers |-> "none"]
  /\ due' = Empty /\ tickTime' = 0
  /\ UNCHANGED <<scheduleFile, tmp, clock, saves>>

WriterStep(w) == LoadCurrent(w) \/ ReadForSave(w) \/ OpenTmp(w) \/ WriteTmp(w) \/ Replace(w)

SchedulerStep ==
  \/ Tick \/ BackupSucceeds \/ BackupFails \/ ReadForCursor
  \/ WriterStep(Scheduler)
  \/ \E i \in Installs : Fire(i)

ScheduleStep ==
  \/ \E w \in Savers, i \in Installs, enabled \in BOOLEAN, n \in Intervals :
       BeginSave(w, i, enabled, n)
  \/ \E w \in Savers : WriterStep(w)
  \/ SchedulerStep \/ Hour \/ ScheduleRestart

Writing(w) == at[w] \in {"read", "open", "write", "replace"}

History ==
  serial' = IF at'[Scheduler] \in {"open", "write", "replace"}
              THEN serial /\ \A w \in Savers : ~Writing(w) /\ ~Writing(w)'
              ELSE TRUE

SchedulesNext == ScheduleStep /\ History

SchedulesSpec == SchedulesInit /\ [][SchedulesNext]_scheduleVars

(* The loop ticks and its awaits end: every docker call of create_backup   *)
(* has a timeout.  Whether a backup succeeds is not assumed.               *)
Loop == (Tick \/ BackupFails \/ ReadForCursor \/ WriterStep(Scheduler)) /\ History
Fires(i) == Fire(i) /\ History

SchedulesFairSpec ==
  SchedulesSpec /\ WF_scheduleVars(Loop) /\ \A i \in Installs : WF_scheduleVars(Fires(i))

-----------------------------------------------------------------------------
Settings(s) == <<s.enabled, s.interval>>

(* A save that is over before the cursor update reads the file survives    *)
(* it, whenever in the backup it came: a cursor written by a scheduler     *)
(* that no save overlaps changes no switch and no interval                 *)
(* (the comment of _persist_run_update).                                   *)
CursorKeepsSettings ==
  [][(/\ at[Scheduler] = "replace" /\ at'[Scheduler] = "idle" /\ serial
      /\ outages' = outages /\ scheduleFile'.kind = "whole")
       => \/ scheduleFile.kind # "whole"
          \/ \A i \in Installs :
               Settings(scheduleFile'.schedules[i]) = Settings(scheduleFile.schedules[i])]_scheduleVars

(* An enabled schedule that is due is fired, or is no longer there to fire *)
(* (another writer changed or lost it): no failing backup of another       *)
(* install and no restart keeps it waiting for ever.                       *)
DueFor(i) == IsDue(Read[i], clock)
DueIsFired ==
  \A i \in Installs :
    DueFor(i) ~> (~DueFor(i) \/ (at[Scheduler] = "backup" /\ whose[Scheduler] = i))

(* backup.py:563: "Recompute on every save so a flipped-enabled or         *)
(* shrunk-interval schedule fires off the new cadence, not the old one".   *)
SavedCadenceHolds ==
  scheduleFile.kind = "whole" =>
    \A i \in Installs :
      scheduleFile.schedules[i].enabled =>
        scheduleFile.schedules[i].next <= clock + scheduleFile.schedules[i].interval

(* What CursorKeepsSettings rests on.  Every entry has its three fields;   *)
(* and while a cursor update that no save overlaps goes on, no save holds  *)
(* a file, the one that is there is whole, the document differs from it in *)
(* nothing but cursors, and what the update has opened or written is the   *)
(* temporary file.                                                         *)
Entry == [enabled: BOOLEAN, interval: Nat, next: Int]
Documents == [Installs -> Entry]

EntriesAreWhole ==
  /\ scheduleFile \in {NoFile, Torn} \cup [kind: {"whole"}, schedules: Documents]
  /\ tmp \in {NoFile, Torn} \cup [kind: {"whole"}, schedules: Documents]
  /\ at \in [Writers -> {"idle", "backup", "load", "read", "open", "write", "replace"}]
  /\ whose \in [Writers -> Installs] /\ mine \in [Writers -> Entry]
  /\ document \in [Writers -> Documents] /\ due \in Documents
  /\ fd \in [Writers -> {"none", "tmp", "file", "unlinked"}]
  /\ clock \in Nat /\ tickTime \in Nat /\ outages \in Nat

CursorUpdateIsAlone ==
  (serial /\ at[Scheduler] \in {"open", "write", "replace"}) =>
    /\ \A w \in Savers : ~Writing(w)
    /\ scheduleFile.kind = "whole"
    /\ \A i \in Installs :
         Settings(document[Scheduler][i]) = Settings(scheduleFile.schedules[i])
    /\ at[Scheduler] = "write" => fd[Scheduler] = "tmp"
    /\ at[Scheduler] = "replace" => tmp = Whole(document[Scheduler])

ScheduleInv == EntriesAreWhole /\ CursorUpdateIsAlone
=============================================================================
