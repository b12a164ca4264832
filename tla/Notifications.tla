--------------------------- MODULE Notifications ----------------------------
(***************************************************************************)
(* The notification dispatcher (backend/notifications.py): a configuration *)
(* file, read again when its modification time changes, says through which *)
(* channels an event goes, and an event that repeats within the time its   *)
(* severity allows is dropped.                                             *)
(*                                                                         *)
(* The loop runs a reload, and a dispatch up to its first send, in one     *)
(* piece; the operator's editor runs beside it and may strike anywhere.    *)
(* A configuration is the channels a rule names with, among them, those    *)
(* that are enabled and have a driver.  The sends change nothing here.     *)
(***************************************************************************)
EXTENDS Naturals, FiniteSets

CONSTANTS
  Channels,
  DedupTTL,   \* [Severities -> the time within which a repeat is dropped]
  EventKeys,  \* pairs of an install and an event type
  MaxTime,    \* bound: the clock
  MaxEdits    \* bound: edits of the file

Severities == {"critical", "warn", "info"}

Longest == CHOOSE t \in {DedupTTL[s] : s \in Severities} : \A s \in Severities : DedupTTL[s] <= t

ASSUME NotifyAssumption ==
  /\ DedupTTL \in [Severities -> Nat \ {0}]
  /\ MaxTime \in Nat /\ Longest < MaxTime /\ MaxEdits \in Nat

Configs == [rule : SUBSET Channels, working : SUBSET Channels]
ToastOnly == [rule |-> {}, working |-> {"toast"} \cap Channels]
Absent == [kind |-> "absent", mtime |-> 0, config |-> ToastOnly]
Event == [key : EventKeys, severity : Severities, ts : 0..MaxTime]

VARIABLES
  clock,
  configFile, edits,
  mtime,     \* _mtime
  config,    \* _rules, _channel_cfg and _drivers
  phase,     \* "idle", "reading" (the stat is done), "read" or "reloaded"
  raw,       \* what was read
  stat,      \* the modification time that the stat of the reload found
  event,     \* the event being dispatched, none when the poll loop reloads
  dedup,     \* _dedup, 0 for a key it does not hold
  sent       \* history: [Keys -> the time of the last event that went out]

notifyVars == <<clock, configFile, edits, mtime, config, phase, raw, stat, event, dedup, sent>>

NotifyInit ==
  /\ clock = Longest + 1 /\ configFile = Absent /\ edits = 0 /\ mtime = 0 /\ config = ToastOnly
  /\ phase = "idle" /\ raw = Absent /\ stat = 0 /\ event = {}
  /\ dedup = [k \in EventKeys |-> 0] /\ sent = [k \in EventKeys |-> 0]

-----------------------------------------------------------------------------
(* The operator writes the file, whole or as something that cannot be      *)
(* parsed, or removes it; each time gives it another modification time.    *)
Edit ==
  /\ edits < MaxEdits /\ edits' = edits + 1
  /\ \/ \E c \in Configs : configFile' = [kind |-> "valid", mtime |-> edits', config |-> c]
     \/ configFile' = [kind |-> "invalid", mtime |-> edits', config |-> ToastOnly]
     \/ configFile # Absent /\ configFile' = Absent
  /\ UNCHANGED <<clock, mtime, config, phase, raw, stat, event, dedup, sent>>

Wait ==
  /\ clock < MaxTime /\ clock' = clock + 1
  /\ UNCHANGED <<configFile, edits, mtime, config, phase, raw, stat, event, dedup, sent>>

(* _maybe_reload, called by the poll loop and by every dispatch, up to the *)
(* stat: nothing to do, the file is gone, or it has to be read.            *)
BeginReload(who) ==
  /\ phase = "idle" /\ event' = who /\ stat' = configFile.mtime
  /\ IF configFile = Absent
     THEN /\ phase' = "reloaded" /\ mtime' = 0
          /\ config' = IF mtime = 0 THEN config ELSE ToastOnly
     ELSE /\ phase' = IF configFile.mtime = mtime THEN "reloaded" ELSE "reading"
          /\ UNCHANGED <<mtime, config>>
  /\ UNCHANGED <<clock, configFile, edits, raw, dedup, sent>>

Poll == BeginReload({})
Dispatch(k, severity) == BeginReload({[key |-> k, severity |-> severity, ts |-> clock]})

(* Mutant: the modification time is taken once the file has been read. *)
Stamped_Late == configFile.mtime

(* The modification time that is kept is the one of before the read. *)
Stamped == stat

(* _load_config_sync. *)
ReadConfig ==
  /\ phase = "reading" /\ phase' = "read"
  /\ raw' = configFile
  /\ UNCHANGED <<clock, configFile, edits, mtime, config, stat, event, dedup, sent>>

(* _apply_config; what cannot be used leaves the configuration as it was.  *)
Apply ==
  /\ phase = "read" /\ phase' = "reloaded"
  /\ config' = IF raw.kind = "valid" THEN raw.config ELSE config
  /\ mtime' = Stamped
  /\ UNCHANGED <<clock, configFile, edits, raw, stat, event, dedup, sent>>

(* Mutant: what is too old for the severity of this event is forgotten. *)
Pruned_ByOwnSeverity(table, e) ==
  [k \in EventKeys |-> IF table[k] + DedupTTL[e.severity] < e.ts THEN 0 ELSE table[k]]

(* Entries older than any severity looks back are forgotten. *)
Pruned(table, e) ==
  [k \in EventKeys |-> IF table[k] + Longest < e.ts THEN 0 ELSE table[k]]

(* dispatch after the reload.  The time is recorded before the first send, *)
(* whatever becomes of the sends.                                          *)
GoesOut(e) ==
  config.rule # {} /\ e.ts - dedup[e.key] >= DedupTTL[e.severity]

Finish ==
  /\ phase = "reloaded" /\ phase' = "idle" /\ event' = {}
  /\ \/ \E e \in event :
          /\ GoesOut(e)
          /\ dedup' = Pruned([dedup EXCEPT ![e.key] = e.ts], e)
          /\ sent' = [sent EXCEPT ![e.key] = e.ts]
     \/ (\A e \in event : ~GoesOut(e)) /\ UNCHANGED <<dedup, sent>>
  /\ UNCHANGED <<clock, configFile, edits, mtime, config, raw, stat>>

NotifyNext ==
  \/ Edit \/ Wait \/ Poll \/ ReadConfig \/ Apply \/ Finish
  \/ \E k \in EventKeys, s \in Severities : Dispatch(k, s)

NotifySpec == NotifyInit /\ [][NotifyNext]_notifyVars

-----------------------------------------------------------------------------
NotifyTypeOK ==
  /\ clock \in 0..MaxTime /\ edits \in 0..MaxEdits
  /\ configFile \in [kind : {"absent", "valid", "invalid"}, mtime : 0..MaxEdits, config : Configs]
  /\ raw \in [kind : {"absent", "valid", "invalid"}, mtime : 0..MaxEdits, config : Configs]
  /\ mtime \in 0..MaxEdits /\ stat \in 0..MaxEdits /\ config \in Configs
  /\ phase \in {"idle", "reading", "read", "reloaded"}
  /\ event \subseteq Event /\ \A e, f \in event : e = f
  /\ dedup \in [EventKeys -> 0..MaxTime] /\ sent \in [EventKeys -> 0..MaxTime]

(* An event goes out only when the time its severity allows has passed     *)
(* since the last one of its key went out: forgetting old entries, and     *)
(* whatever severities and reloads come in between, lets none through      *)
(* early.                                                                  *)
NoEarlySend ==
  \A e \in event : sent'[e.key] # sent[e.key] => sent'[e.key] - sent[e.key] >= DedupTTL[e.severity]
NoEarlyRepeat == [][NoEarlySend]_notifyVars

(* A dispatcher that sees no change of the file uses what is in it: an     *)
(* edit between the stat and the read is not taken for one already seen.   *)
SettledOnTheFile ==
  (phase = "idle" /\ mtime = configFile.mtime) =>
    CASE configFile.kind = "absent" -> config = ToastOnly
      [] configFile.kind = "valid" -> config = configFile.config
      [] OTHER -> TRUE

(* What it rests on.  An edit gives the file a modification time it never  *)
(* had; what is not there has none, and the configuration for it is the    *)
(* default; what was read after a stat that still holds is the file.       *)
FileMoves ==
  /\ configFile.mtime <= edits /\ mtime <= edits
  /\ configFile.mtime = 0 <=> configFile = Absent
  /\ configFile.kind = "absent" <=> configFile = Absent

ReadIsTheFile ==
  /\ phase \in {"reading", "read"} => stat \in 1..edits
  /\ phase = "read" /\ stat = configFile.mtime => raw = configFile

ConfigIsOfItsTime ==
  /\ mtime = 0 => config = ToastOnly
  /\ mtime = configFile.mtime /\ configFile.kind = "valid" => config = configFile.config

(* And what NoEarlySend rests on: an entry that was forgotten is older     *)
(* than any severity looks back, also for the event that is being looked   *)
(* at.                                                                     *)
ForgottenIsOld ==
  \A k \in EventKeys :
    \/ dedup[k] = sent[k]
    \/ /\ dedup[k] = 0 /\ sent[k] + Longest < clock
       /\ \A e \in event : sent[k] + Longest < e.ts

NotifyInv ==
  /\ NotifyTypeOK /\ (\A e \in event : e.ts <= clock)
  /\ FileMoves /\ ReadIsTheFile /\ ConfigIsOfItsTime /\ ForgottenIsOld
=============================================================================
