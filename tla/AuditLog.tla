------------------------------ MODULE AuditLog ------------------------------
(***************************************************************************)
(* The opt-in audit trail (backend/audit_log.py): a tap on the event bus   *)
(* fills a queue, one task empties it into a SQLite file, and a second     *)
(* task deletes the rows past their retention.                             *)
(*                                                                         *)
(* The insert runs in a worker thread that a cancelled task leaves behind. *)
(* An event is numbered in the order of publication; its payload, whose    *)
(* secrets are masked before the insert, is left out.                      *)
(***************************************************************************)
EXTENDS Naturals, Sequences, FiniteSets

CONSTANTS
  QueueCap,    \* maxsize of the queue
  Retention,   \* _retention_days
  MaxEvents,   \* bound: events published
  MaxDays,     \* bound: days that pass
  MaxTaps      \* bound: starts of the server

ASSUME AuditAssumption ==
  /\ QueueCap \in Nat \ {0} /\ Retention \in Nat \ {0}
  /\ MaxEvents \in Nat /\ MaxDays \in Nat /\ MaxTaps \in Nat

Kinds == {"state", "log"}
AuditedKinds == {"state"}     \* and error, step_start, step_end
Events == [n : 1..MaxEvents, kind : Kinds, ts : 0..MaxDays]

VARIABLES
  now, published,
  task,      \* the subscriber: "none", "waiting", "writing"
  tapped,    \* bus.publish is the wrapper
  queue,
  hand,      \* the events worker threads are inserting, at most one each
  table,     \* the rows of audit_log, [a set of ids -> Events]
  lastId,    \* the last id AUTOINCREMENT gave out; none is given twice
  audited,   \* history: the audited events the tap has seen
  excused,   \* history: those dropped, or lost with the process
  pruned,    \* history: those deleted for their age
  taps

auditVars == <<now, published, task, tapped, queue, hand, table, lastId, audited, excused,
               pruned, taps>>

Rows == {table[r] : r \in DOMAIN table}
Queued == {queue[q] : q \in 1..Len(queue)}
Audited(S) == {e \in S : e.kind \in AuditedKinds}

AuditInit ==
  /\ now = 0 /\ published = 0
  /\ task = "none" /\ tapped = FALSE /\ queue = <<>> /\ hand = {}
  /\ table = [r \in {} |-> 0] /\ lastId = 0
  /\ audited = {} /\ excused = {} /\ pruned = {} /\ taps = 0

-----------------------------------------------------------------------------
Day ==
  /\ now < MaxDays /\ now' = now + 1
  /\ UNCHANGED <<published, task, tapped, queue, hand, table, lastId, audited, excused, pruned,
                 taps>>

(* AuditSubscriber.start at the start of the server; init_audit_db may     *)
(* raise, and the server then runs without it.                             *)
StartTap(opens) ==
  /\ task = "none" /\ ~tapped /\ hand = {} /\ taps < MaxTaps /\ taps' = taps + 1
  /\ IF opens THEN task' = "waiting" /\ tapped' = TRUE ELSE UNCHANGED <<task, tapped>>
  /\ queue' = <<>>
  /\ UNCHANGED <<now, published, hand, table, lastId, audited, excused, pruned>>

(* wrapped_publish, and _tap_event when there is a tap; the event of a     *)
(* full queue is dropped.                                                  *)
Publish(kind) ==
  /\ published < MaxEvents /\ published' = published + 1
  /\ LET e == [n |-> published', kind |-> kind, ts |-> now]
         room == Len(queue) < QueueCap IN
     IF tapped
     THEN /\ queue' = IF room THEN Append(queue, e) ELSE queue
          /\ audited' = audited \cup Audited({e})
          /\ excused' = IF room THEN excused ELSE excused \cup Audited({e})
     ELSE UNCHANGED <<queue, audited, excused>>
  /\ UNCHANGED <<now, task, tapped, hand, table, lastId, pruned, taps>>

(* Mutant: the event stays at the head of the queue while it is written. *)
Remaining_Peek == IF Head(queue).kind \in AuditedKinds THEN queue ELSE Tail(queue)

Remaining == Tail(queue)

(* _run takes the next event; _handle passes over the other kinds. *)
TakeEvent ==
  /\ task = "waiting" /\ queue # <<>>
  /\ queue' = Remaining
  /\ IF Head(queue).kind \in AuditedKinds
     THEN task' = "writing" /\ hand' = hand \cup {Head(queue)}
     ELSE UNCHANGED <<task, hand>>
  /\ UNCHANGED <<now, published, tapped, table, lastId, audited, excused, pruned, taps>>

(* The thread commits, or the insert fails (the file is locked for longer  *)
(* than the busy timeout, the disk is full) and the event is dropped; the  *)
(* task, if there is one still, goes on.                                   *)
Commit(e) ==
  /\ e \in hand
  /\ lastId' = lastId + 1
  /\ table' = [r \in DOMAIN table \cup {lastId'} |-> IF r = lastId' THEN e ELSE table[r]]
  /\ hand' = hand \ {e} /\ task' = IF task = "writing" THEN "waiting" ELSE task
  /\ UNCHANGED <<now, published, tapped, queue, audited, excused, pruned, taps>>

InsertFails(e) ==
  /\ e \in hand
  /\ excused' = excused \cup {e}
  /\ hand' = hand \ {e} /\ task' = IF task = "writing" THEN "waiting" ELSE task
  /\ UNCHANGED <<now, published, tapped, queue, table, lastId, audited, pruned, taps>>

Old(e) == e.ts + Retention < now

(* retention_prune, at whatever time the scheduler wakes. *)
Prune ==
  /\ tapped /\ \E e \in Rows : Old(e)
  /\ table' = [r \in {s \in DOMAIN table : ~Old(table[s])} |-> table[r]]
  /\ pruned' = pruned \cup {e \in Rows : Old(e)}
  /\ UNCHANGED <<now, published, task, tapped, queue, hand, lastId, audited, excused, taps>>

(* stop: the tap is removed and the task cancelled; what is queued is      *)
(* dropped with it, what a thread is inserting is not.                     *)
Stop ==
  /\ tapped
  /\ tapped' = FALSE /\ task' = "none"
  /\ excused' = excused \cup Audited(Queued)
  /\ queue' = <<>>
  /\ UNCHANGED <<now, published, hand, table, lastId, audited, pruned, taps>>

Crash ==
  /\ tapped
  /\ tapped' = FALSE /\ task' = "none" /\ queue' = <<>> /\ hand' = {}
  /\ excused' = excused \cup Audited(Queued) \cup hand
  /\ UNCHANGED <<now, published, table, lastId, audited, pruned, taps>>

AuditNext ==
  \/ Day \/ TakeEvent \/ Prune \/ Stop \/ Crash
  \/ \E opens \in BOOLEAN : StartTap(opens)
  \/ \E kind \in Kinds : Publish(kind)
  \/ \E e \in hand : Commit(e) \/ InsertFails(e)

AuditSpec == AuditInit /\ [][AuditNext]_auditVars

-----------------------------------------------------------------------------
AuditTypeOK ==
  /\ now \in 0..MaxDays /\ published \in 0..MaxEvents
  /\ task \in {"none", "waiting", "writing"} /\ tapped \in BOOLEAN
  /\ queue \in Seq(Events) /\ Len(queue) <= QueueCap
  /\ hand \subseteq Events /\ lastId \in Nat
  /\ DOMAIN table \subseteq 1..lastId /\ \A r \in DOMAIN table : table[r] \in Events
  /\ audited \subseteq Events /\ excused \subseteq Events /\ pruned \subseteq Events
  /\ taps \in 0..MaxTaps

(* Where an audited event may be.                                           *)
Places == {"queue", "hand", "table", "pruned", "excused"}

IsIn(e, place) ==
  \/ place = "queue" /\ e \in Queued
  \/ place = "hand" /\ e \in hand
  \/ place = "table" /\ e \in Rows
  \/ place = "pruned" /\ e \in pruned
  \/ place = "excused" /\ e \in excused

(* The trail holds each audited event once and in the order of their       *)
(* publication, across stops, losses of the process and late inserts; and  *)
(* an event the tap saw is queued, being inserted, in the trail, deleted   *)
(* after its retention, or dropped for one of the reasons the code names.  *)
EachEventOnce ==
  /\ \A r, s \in DOMAIN table : r < s => table[r].n < table[s].n
  /\ \A e \in audited : \E p \in Places : \A q \in Places : IsIn(e, q) <=> q = p

(* What this rests on.  A task that waits has no insert under way, not even *)
(* one that an earlier task left behind, and without a tap nothing queues; *)
(* so the trail, the insert under way and the queue hold, one behind the   *)
(* other, events in the order of their publication.                        *)
InsertsAreAlone ==
  /\ tapped <=> task # "none"
  /\ ~tapped => queue = <<>>
  /\ \A e, f \in hand : e = f
  /\ task = "waiting" => hand = {}

InOrder ==
  /\ \A r \in DOMAIN table : \A e \in hand \cup Queued : table[r].n < e.n
  /\ \A e \in hand, f \in Queued : e.n < f.n
  /\ \A p, q \in 1..Len(queue) : p < q => queue[p].n < queue[q].n
  /\ \A e \in Rows \cup hand \cup Queued \cup audited \cup pruned \cup excused : e.n <= published

AuditInv ==
  /\ AuditTypeOK /\ audited = Audited(audited)
  /\ InsertsAreAlone /\ InOrder /\ EachEventOnce
=============================================================================
