----------------------------- MODULE Registries -----------------------------
(***************************************************************************)
(* The registries kept in a JSON file beside the install records: data     *)
(* sources (backend/data_sources.py), destinations                         *)
(* (backend/destinations.py), data quality checks and their results        *)
(* (backend/data_quality.py).  Each is a map in memory, a lock, a dirty    *)
(* mark and a timer, written like the install records with two             *)
(* differences: a write whose replacement is refused five times is given   *)
(* up without an error, and nothing flushes them when the server stops.    *)
(*                                                                         *)
(* One registry is followed at a time; the two that hold secrets share the *)
(* key they are encrypted with.  An entry is reduced to the key of its     *)
(* secret and whether it has been tested.                                  *)
(***************************************************************************)
EXTENDS Naturals, FiniteSets

CONSTANTS
  Ids,       \* entries; one is never created twice
  RegistryKinds,     \* the registries followed
  EnvKeys,   \* what LHS_SECRETS_KEY may hold at first
  MaxStarts  \* bound: starts of the server

Unset == 0       \* LHS_SECRETS_KEY is not set, or not a key
GivenKey == 1    \* the key an operator set from the start
NoKey == 0

ASSUME RegistryAssumption ==
  /\ RegistryKinds \subseteq {"source", "destination", "check", "result"}
  /\ EnvKeys \subseteq {Unset, GivenKey} /\ MaxStarts \in Nat \ {0}

Keys == 0..(MaxStarts + 1)
Entry == [key : Keys, tested : BOOLEAN]
Outcomes == {"written", "given up", "raised"}

VARIABLES
  followed,   \* the registry that is followed
  up, starts,
  store,      \* [a set of Ids -> Entry]
  file,       \* what the JSON file holds, the same way
  dirty, timer,
  testing,    \* entries whose connection is being tested, as they were read
  fernet,     \* the key of the process, NoKey before its first use
  env, keyFile,
  used,       \* history: ids that have been given out
  held,       \* history: ids stored without an error, and not deleted since
  gone,       \* history: ids whose deletion was answered and written
  gaveUp,     \* history: the last write was given up
  keyLost     \* history: the key file could not be read and was replaced

registryVars == <<followed, up, starts, store, file, dirty, timer, testing, fernet, env,
                  keyFile, used, held, gone, gaveUp, keyLost>>
keyVars == <<fernet, env, keyFile, keyLost>>

Nothing == [i \in {} |-> [key |-> NoKey, tested |-> FALSE]]
With(i, entry) == [j \in DOMAIN store \cup {i} |-> IF j = i THEN entry ELSE store[j]]
Without(i) == [j \in DOMAIN store \ {i} |-> store[j]]

RegistryInit ==
  /\ followed \in RegistryKinds /\ env \in EnvKeys
  /\ up = TRUE /\ starts = 1
  /\ store = Nothing /\ file = Nothing /\ dirty = FALSE /\ timer = FALSE /\ testing = Nothing
  /\ fernet = NoKey /\ keyFile = NoKey
  /\ used = {} /\ held = {} /\ gone = {} /\ gaveUp = FALSE /\ keyLost = FALSE

-----------------------------------------------------------------------------
(* Persistence *)

(* _write_now_locked.  A refused replacement counts as a write; one that   *)
(* raises leaves the registry dirty.                                       *)
Write(outcome) ==
  /\ file' = IF outcome = "written" THEN store' ELSE file
  /\ dirty' = (outcome = "raised")
  /\ gaveUp' = (outcome = "given up" \/ (outcome = "raised" /\ gaveUp))

(* _persist_locked(force=True) *)
PersistNow(outcome) == timer' = FALSE /\ Write(outcome)

(* _persist_locked() *)
Debounce == dirty' = TRUE /\ timer' = TRUE /\ UNCHANGED <<file, gaveUp>>

(* _flush_from_timer *)
Flush(outcome) ==
  /\ up /\ timer /\ timer' = FALSE
  /\ store' = store
  /\ IF dirty THEN Write(outcome) ELSE UNCHANGED <<file, dirty, gaveUp>>
  /\ UNCHANGED <<followed, up, starts, testing, keyVars, used, held, gone>>

-----------------------------------------------------------------------------
(* The key *)

GeneratedKeyFile(key) == key

(* _get_fernet: the environment, then the file, then a key of its own,     *)
(* also when the file is there and cannot be read.  Keys of different      *)
(* starts differ.                                                          *)
GetFernet(readable) ==
  IF fernet # NoKey THEN readable /\ UNCHANGED keyVars
  ELSE IF env # Unset THEN readable /\ fernet' = env /\ UNCHANGED <<env, keyFile, keyLost>>
  ELSE IF keyFile # NoKey /\ readable
       THEN fernet' = keyFile /\ UNCHANGED <<env, keyFile, keyLost>>
  ELSE /\ readable = (keyFile = NoKey)
       /\ fernet' = starts + 1 /\ keyFile' = GeneratedKeyFile(starts + 1)
       /\ keyLost' = ~readable
       /\ UNCHANGED env

-----------------------------------------------------------------------------
(* The routes *)

Fresh(i, outcome) ==
  /\ up /\ i \in Ids \ used /\ used' = used \cup {i}
  /\ held' = IF outcome = "raised" THEN held ELSE held \cup {i}

(* create_source, with a password; create_destination, with or without     *)
(* credentials.                                                            *)
CreateSource(i, outcome, readable) ==
  /\ followed = "source" /\ Fresh(i, outcome)
  /\ GetFernet(readable)
  /\ store' = With(i, [key |-> fernet', tested |-> FALSE])
  /\ PersistNow(outcome)
  /\ UNCHANGED <<followed, up, starts, testing, gone>>

CreateDestination(i, outcome, readable, secret) ==
  /\ followed = "destination" /\ Fresh(i, outcome)
  /\ IF secret THEN GetFernet(readable) ELSE readable /\ UNCHANGED keyVars
  /\ store' = With(i, [key |-> IF secret THEN fernet' ELSE NoKey, tested |-> FALSE])
  /\ PersistNow(outcome)
  /\ UNCHANGED <<followed, up, starts, testing, gone>>

CreateCheck(i, outcome) ==
  /\ followed = "check" /\ Fresh(i, outcome)
  /\ store' = With(i, [key |-> NoKey, tested |-> FALSE])
  /\ PersistNow(outcome)
  /\ UNCHANGED <<followed, up, starts, testing, keyVars, gone>>

(* run_check, when the query is over, whether or not the check it read is  *)
(* still there.                                                            *)
RunCheck(i, outcome) ==
  /\ followed = "result" /\ Fresh(i, outcome)
  /\ store' = With(i, [key |-> NoKey, tested |-> FALSE])
  /\ PersistNow(outcome)
  /\ UNCHANGED <<followed, up, starts, testing, keyVars, gone>>

Remove(i, outcome) ==
  /\ up /\ i \in DOMAIN store
  /\ store' = Without(i)
  /\ PersistNow(outcome)
  /\ gone' = IF outcome = "written" THEN gone \cup {i} ELSE gone
  /\ held' = held \ {i}
  /\ UNCHANGED <<followed, up, starts, testing, keyVars, used>>

DeleteSource(i, outcome) == followed = "source" /\ Remove(i, outcome)
DeleteDestination(i, outcome) == followed = "destination" /\ Remove(i, outcome)
DeleteCheck(i, outcome) == followed = "check" /\ Remove(i, outcome)

(* test_source and test_destination up to the connection, and after it.    *)
BeginTest(i, readable) ==
  /\ up /\ followed \in {"source", "destination"} /\ i \in DOMAIN store \ DOMAIN testing
  /\ IF store[i].key # NoKey THEN GetFernet(readable) ELSE readable /\ UNCHANGED keyVars
  /\ testing' = [j \in DOMAIN testing \cup {i} |-> IF j = i THEN store[i] ELSE testing[j]]
  /\ UNCHANGED <<followed, up, starts, store, file, dirty, timer, used, held, gone, gaveUp>>

(* Mutant: the record that was read before the test is stored. *)
MarkTested_AsRead(i) ==
  store' = With(i, [testing[i] EXCEPT !.tested = TRUE]) /\ Debounce

(* _mark_tested_locked: nothing when the entry has been deleted meanwhile. *)
MarkTested(i) ==
  IF i \in DOMAIN store
  THEN store' = [store EXCEPT ![i].tested = TRUE] /\ Debounce
  ELSE UNCHANGED <<store, file, dirty, timer, gaveUp>>

TestSource(i, ok) ==
  /\ followed = "source" /\ i \in DOMAIN testing
  /\ IF ok /\ testing[i].key = fernet THEN MarkTested(i)
     ELSE UNCHANGED <<store, file, dirty, timer, gaveUp>>
  /\ testing' = [j \in DOMAIN testing \ {i} |-> testing[j]]
  /\ UNCHANGED <<followed, up, starts, keyVars, used, held, gone>>

TestDestination(i, ok) ==
  /\ followed = "destination" /\ i \in DOMAIN testing
  /\ IF ok /\ testing[i].key \in {NoKey, fernet} THEN MarkTested(i)
     ELSE UNCHANGED <<store, file, dirty, timer, gaveUp>>
  /\ testing' = [j \in DOMAIN testing \ {i} |-> testing[j]]
  /\ UNCHANGED <<followed, up, starts, keyVars, used, held, gone>>

-----------------------------------------------------------------------------
(* The server stops, asked to or not: no registry is flushed. *)
Exit ==
  /\ up /\ up' = FALSE
  /\ store' = Nothing /\ dirty' = FALSE /\ timer' = FALSE /\ testing' = Nothing /\ fernet' = NoKey
  /\ gaveUp' = FALSE
  /\ UNCHANGED <<followed, starts, file, env, keyFile, keyLost, used, held, gone>>

(* The generated key is moved to the environment, as the log advises. *)
AdoptKey ==
  /\ ~up /\ env = Unset /\ keyFile # NoKey /\ env' = keyFile
  /\ UNCHANGED <<followed, up, starts, store, file, dirty, timer, testing, fernet, keyFile,
                 keyLost, used, held, gone, gaveUp>>

(* The modules are imported, which loads the files. *)
Load ==
  /\ ~up /\ starts < MaxStarts /\ up' = TRUE /\ starts' = starts + 1
  /\ store' = file
  /\ UNCHANGED <<followed, file, dirty, timer, testing, keyVars, used, held, gone, gaveUp>>

RegistryNext ==
  \/ \E i \in Ids, outcome \in Outcomes :
       \/ \E r \in BOOLEAN : CreateSource(i, outcome, r)
       \/ \E r, secret \in BOOLEAN : CreateDestination(i, outcome, r, secret)
       \/ CreateCheck(i, outcome) \/ RunCheck(i, outcome)
       \/ DeleteSource(i, outcome) \/ DeleteDestination(i, outcome) \/ DeleteCheck(i, outcome)
  \/ \E i \in Ids, b \in BOOLEAN : BeginTest(i, b) \/ TestSource(i, b) \/ TestDestination(i, b)
  \/ \E outcome \in Outcomes : Flush(outcome)
  \/ Exit \/ AdoptKey \/ Load

RegistrySpec == RegistryInit /\ [][RegistryNext]_registryVars

-----------------------------------------------------------------------------
RegistryTypeOK ==
  /\ followed \in RegistryKinds /\ up \in BOOLEAN /\ starts \in 1..MaxStarts
  /\ DOMAIN store \subseteq used /\ \A i \in DOMAIN store : store[i] \in Entry
  /\ DOMAIN file \subseteq used /\ \A i \in DOMAIN file : file[i] \in Entry
  /\ dirty \in BOOLEAN /\ timer \in BOOLEAN /\ DOMAIN testing \subseteq Ids
  /\ {fernet, env, keyFile} \subseteq Keys
  /\ used \subseteq Ids /\ held \subseteq used /\ gone \subseteq used /\ gaveUp \in BOOLEAN /\ keyLost \in BOOLEAN

(* What was deleted, and the deletion written, never comes back: not with  *)
(* a test that was under way, a timer, or a restart.                       *)
DeletedStaysDeleted == gone \cap (DOMAIN store \cup DOMAIN file) = {}

(* A registry that takes itself for saved is saved, unless its last write  *)
(* was one of those given up.                                              *)
CleanIsSaved == (up /\ ~dirty /\ ~gaveUp) => file = store

(* Every secret can be read with the key of the process, across restarts   *)
(* and the move of the generated key to the environment, unless the key    *)
(* file could not be read when it was needed.                              *)
SecretsStayReadable ==
  (up /\ fernet # NoKey /\ ~keyLost) =>
    \A i \in DOMAIN store : store[i].key \in {NoKey, fernet}

(* The three promises of a registry together.                              *)
EntriesAreKept == DeletedStaysDeleted /\ CleanIsSaved /\ SecretsStayReadable

(* What they rest on.  A server that is down remembers nothing; as long as *)
(* the key file was not lost, there is one key, wherever it is kept, and   *)
(* the process and every secret in memory and in the file use it.          *)
StoppedIsEmpty ==
  ~up => store = Nothing /\ ~dirty /\ ~timer /\ testing = Nothing /\ fernet = NoKey /\ ~gaveUp

TheKey == IF env # Unset THEN env ELSE keyFile

ThereIsOneKey ==
  /\ keyLost => keyFile # NoKey
  /\ ~keyLost =>
       /\ fernet \in {NoKey, TheKey}
       /\ \A i \in DOMAIN store : store[i].key \in {NoKey, TheKey}
       /\ \A i \in DOMAIN file : file[i].key \in {NoKey, TheKey}

(* The inductive invariant behind EntriesAreKept. *)
RegistryInv == RegistryTypeOK /\ EntriesAreKept /\ StoppedIsEmpty /\ ThereIsOneKey

(* A registry implements the map with whole-file snapshots: what is given  *)
(* up or raises leaves the file of an earlier moment, whole, and a start   *)
(* takes every entry from it as it is.                                     *)
Shown(map) == [i \in Ids |-> IF i \in DOMAIN map THEN {map[i]} ELSE {}]
AsLoaded(d, v) == v = d

RegistryMap == INSTANCE WriteBackStore WITH
  Keys <- Ids,
  Blank <- {},
  Repair <- AsLoaded,
  volatile <- Shown(IF up THEN store ELSE file),
  durable <- Shown(file)

RegistriesWriteBack == RegistryMap!Spec

(* "leave the tmp so data isn't lost" (data_sources.py, destinations.py):   *)
(* what was stored without an error, and not deleted, is there after a     *)
(* restart.                                                                *)
StoredIsNotLost == [][Load => held \subseteq DOMAIN store']_registryVars
=============================================================================
