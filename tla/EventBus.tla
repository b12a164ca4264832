------------------------------- MODULE EventBus -------------------------------
(***************************************************************************)
(* The live log of one install: the event bus (backend/events.py), the     *)
(* WebSocket handler that replays and follows it (ws_logs in               *)
(* backend/main.py), and the browser that resumes from the last sequence   *)
(* number it has shown (openLogStream in frontend/index.html).             *)
(*                                                                         *)
(* An event is its sequence number and the life of the server it belongs   *)
(* to; the code only ever looks at the number.  Everything on the server   *)
(* runs on one event loop, so publishing an event and each slice of a      *)
(* handler up to its next await are atomic; the sends of a replay are not, *)
(* and events are published in between.                                    *)
(***************************************************************************)
EXTENDS Integers, Sequences, FiniteSets

CONSTANTS
  HistorySize,     \* maxlen of the history deque
  QueueSize,       \* maxsize of a subscriber's queue
  MaxEvents,       \* bound: events published in one life of the server
  MaxSessions,     \* bound: WebSocket connections the browser opens
  MaxRestarts      \* bound: restarts of the server

ASSUME BusAssumption ==
  /\ HistorySize \in Nat \ {0} /\ QueueSize \in Nat \ {0}
  /\ MaxEvents \in Nat /\ MaxSessions \in Nat /\ MaxRestarts \in Nat

Sessions == 1..MaxSessions

Events == [life : 0..MaxRestarts, seq : 1..MaxEvents]

(* The browser's number before the first event, and what a reset makes it. *)
Nothing == [life |-> 0, seq |-> 0]
Reset == Nothing

Numbers == Events \cup {Nothing}

VARIABLES
  newest,          \* the sequence number assigned last
  history,         \* the buffered events
  handler,         \* [Sessions -> where the session's ws_logs stands]
  since,           \* [Sessions -> last_seq in the query of the session]
  queue,           \* [Sessions -> the subscriber queue]
  replay,          \* [Sessions -> messages of the snapshot still to send]
  upto,            \* [Sessions -> last_history_seq]
  wire,            \* [Sessions -> messages sent and not yet received]
  broken,          \* sessions whose connection is gone
  current,         \* the browser's open socket (state.ws), 0 when none
  lastSeq,         \* the browser's state._wsLastSeq
  view,            \* the events in the browser's log pane
  overflowed,      \* history: an event was dropped for the log pane as it is now
  restarts

serverVars  == <<newest, history, handler, since, queue, replay, upto>>
browserVars == <<current, lastSeq, view>>
busVars == <<serverVars, wire, broken, browserVars, overflowed, restarts>>

Init ==
  /\ newest = 0
  /\ history = <<>>
  /\ handler = [s \in Sessions |-> "unused"]
  /\ since = [s \in Sessions |-> Nothing]
  /\ queue = [s \in Sessions |-> <<>>]
  /\ replay = [s \in Sessions |-> <<>>]
  /\ upto = [s \in Sessions |-> 0]
  /\ wire = [s \in Sessions |-> <<>>]
  /\ broken = {}
  /\ current = 0
  /\ lastSeq = Nothing
  /\ view = <<>>
  /\ overflowed = FALSE
  /\ restarts = 0

-----------------------------------------------------------------------------
(* EventBus *)

(* Mutant: the handler subscribes after it has sent the history. *)
Subscribed_Late(s) == handler[s] = "live"

Subscribed(s) == handler[s] \in {"subscribed", "replaying", "live"}

(* publish_nowait: number the event, append it to the bounded history, put *)
(* it into every queue that has room.  The notice of a drop is put into    *)
(* the same full queue, where it is dropped too.                           *)
Buffered(e) ==
  LET longer == Append(history, e) IN
  IF Len(longer) > HistorySize THEN Tail(longer) ELSE longer

Publish ==
  /\ newest < MaxEvents
  /\ newest' = newest + 1
  /\ LET event == [life |-> restarts, seq |-> newest'] IN
     /\ history' = Buffered(event)
     /\ queue' = [s \in Sessions |->
          IF Subscribed(s) /\ Len(queue[s]) < QueueSize
          THEN Append(queue[s], event) ELSE queue[s]]
  /\ overflowed' = (overflowed \/ \E s \in Sessions :
                      s = current /\ Subscribed(s) /\ Len(queue[s]) = QueueSize)
  /\ UNCHANGED <<handler, since, replay, upto, wire, broken, browserVars, restarts>>

(* Mutant: a client is resumed however old its last_seq is. *)
ResetNeeded_Never(since_seq) == FALSE

(* history_snapshot(since_seq): whether the client has to start over, and  *)
(* the events it is to be sent.  The numbers in the history increase, so   *)
(* the events that are newer than since_seq are the last ones.             *)
ResetNeeded(since_seq) ==
  history # <<>> /\ since_seq > 0 /\ since_seq < Head(history).seq

Newer(since_seq) == {i \in 1..Len(history) : history[i].seq > since_seq}

Snapshot(since_seq) ==
  IF since_seq = 0 \/ ResetNeeded(since_seq)
  THEN history
  ELSE SubSeq(history, Len(history) - Cardinality(Newer(since_seq)) + 1, Len(history))

-----------------------------------------------------------------------------
(* ws_logs *)

(* subscribe comes before the snapshot, so that no event falls in between. *)
Subscribe(s) ==
  /\ handler[s] = "accepted"
  /\ handler' = [handler EXCEPT ![s] = "subscribed"]
  /\ UNCHANGED <<newest, history, since, queue, replay, upto, wire, broken,
                 browserVars, overflowed, restarts>>

TakeSnapshot(s) ==
  /\ handler[s] = "subscribed"
  /\ handler' = [handler EXCEPT ![s] = "replaying"]
  /\ replay' = [replay EXCEPT ![s] =
       (IF ResetNeeded(since[s].seq) THEN <<Reset>> ELSE <<>>) \o Snapshot(since[s].seq)]
  /\ upto' = [upto EXCEPT ![s] = IF history = <<>> THEN 0 ELSE newest]
  /\ UNCHANGED <<newest, history, since, queue, wire, broken, browserVars,
                 overflowed, restarts>>

(* send_text raises when the connection is gone, and the handler leaves    *)
(* through unsubscribe.                                                    *)
Send(s, message) ==
  IF s \in broken
  THEN /\ handler' = [handler EXCEPT ![s] = "closed"]
       /\ UNCHANGED wire
  ELSE /\ wire' = [wire EXCEPT ![s] = Append(@, message)]
       /\ UNCHANGED handler

SendReplay(s) ==
  /\ handler[s] = "replaying" /\ replay[s] # <<>>
  /\ Send(s, Head(replay[s]))
  /\ replay' = [replay EXCEPT ![s] = Tail(@)]
  /\ UNCHANGED <<newest, history, since, queue, upto, broken, browserVars,
                 overflowed, restarts>>

GoLive(s) ==
  /\ handler[s] = "replaying" /\ replay[s] = <<>>
  /\ handler' = [handler EXCEPT ![s] = "live"]
  /\ UNCHANGED <<newest, history, since, queue, replay, upto, wire, broken,
                 browserVars, overflowed, restarts>>

(* Mutant: no guard against what the snapshot already contained. *)
SendLive_All(s) ==
  /\ handler[s] = "live" /\ queue[s] # <<>>
  /\ queue' = [queue EXCEPT ![s] = Tail(@)]
  /\ Send(s, Head(queue[s]))
  /\ UNCHANGED <<newest, history, since, replay, upto, broken, browserVars,
                 overflowed, restarts>>

(* q.get(), and the guard against what the snapshot already contained.     *)
SendLive(s) ==
  /\ handler[s] = "live" /\ queue[s] # <<>>
  /\ queue' = [queue EXCEPT ![s] = Tail(@)]
  /\ IF Head(queue[s]).seq <= upto[s]
     THEN UNCHANGED <<handler, wire>>
     ELSE Send(s, Head(queue[s]))
  /\ UNCHANGED <<newest, history, since, replay, upto, broken, browserVars,
                 overflowed, restarts>>

-----------------------------------------------------------------------------
(* The browser *)

(* openLogStream: close the socket that is open, ask for what follows      *)
(* lastSeq.  Only a reconnect keeps what the pane shows.                   *)
Open(resumeOnly) ==
  \E s \in Sessions :
    /\ handler[s] = "unused" /\ \A r \in Sessions : r < s => handler[r] # "unused"
    /\ resumeOnly => current = 0
    /\ handler' = [handler EXCEPT ![s] = "accepted"]
    /\ since' = [since EXCEPT ![s] = lastSeq]
    /\ broken' = IF current = 0 THEN broken ELSE broken \cup {current}
    /\ current' = s
    /\ view' = IF resumeOnly THEN view ELSE <<>>
    /\ wire' = IF current = 0 THEN wire ELSE [wire EXCEPT ![current] = <<>>]
    /\ overflowed' = (resumeOnly /\ overflowed)
    /\ UNCHANGED <<newest, history, queue, replay, upto, lastSeq, restarts>>

(* onmessage of the current socket; the other ones are ignored. *)
Receive ==
  /\ current # 0 /\ wire[current] # <<>>
  /\ LET message == Head(wire[current]) IN
     /\ lastSeq' = message
     /\ view' = IF message = Reset THEN <<>> ELSE Append(view, message)
  /\ wire' = [wire EXCEPT ![current] = Tail(@)]
  /\ UNCHANGED <<serverVars, broken, current, overflowed, restarts>>

(* The network drops the connection and what was in flight on it. *)
Disconnect ==
  /\ current # 0
  /\ broken' = broken \cup {current}
  /\ wire' = [wire EXCEPT ![current] = <<>>]
  /\ current' = 0
  /\ UNCHANGED <<serverVars, lastSeq, view, overflowed, restarts>>

(* The bus is memory only: history and numbering start over. *)
Restart ==
  /\ restarts < MaxRestarts
  /\ restarts' = restarts + 1
  /\ newest' = 0
  /\ history' = <<>>
  /\ handler' = [s \in Sessions |-> IF handler[s] = "unused" THEN "unused" ELSE "closed"]
  /\ queue' = [s \in Sessions |-> <<>>]
  /\ replay' = [s \in Sessions |-> <<>>]
  /\ wire' = [s \in Sessions |-> <<>>]
  /\ broken' = IF current = 0 THEN broken ELSE broken \cup {current}
  /\ current' = 0
  /\ UNCHANGED <<since, upto, lastSeq, view, overflowed>>

-----------------------------------------------------------------------------
Handle(s) ==
  Subscribe(s) \/ TakeSnapshot(s) \/ SendReplay(s) \/ GoLive(s) \/ SendLive(s)

Next ==
  \/ Publish
  \/ \E s \in Sessions : Handle(s)
  \/ \E resumeOnly \in BOOLEAN : Open(resumeOnly)
  \/ Receive \/ Disconnect \/ Restart

Spec == Init /\ [][Next]_busVars

(* Every coroutine that can go on gets its turn, and the browser handles   *)
(* the messages it has received.                                           *)
FairSpec ==
  Spec /\ WF_busVars(Receive) /\ \A s \in Sessions : WF_busVars(Handle(s))

-----------------------------------------------------------------------------
(* Properties *)

(* Every variable stays in its domain; history and queues keep their sizes. *)
TypeOK ==
  /\ newest \in 0..MaxEvents
  /\ history \in Seq(Events) /\ Len(history) <= HistorySize
  /\ handler \in [Sessions ->
       {"unused", "accepted", "subscribed", "replaying", "live", "closed"}]
  /\ since \in [Sessions -> Numbers]
  /\ queue \in [Sessions -> Seq(Events)]
  /\ \A s \in Sessions : Len(queue[s]) <= QueueSize
  /\ replay \in [Sessions -> Seq(Numbers)]
  /\ upto \in [Sessions -> 0..MaxEvents]
  /\ wire \in [Sessions -> Seq(Numbers)]
  /\ broken \in SUBSET Sessions
  /\ current \in {0} \cup Sessions
  /\ lastSeq \in Numbers
  /\ view \in Seq(Events)
  /\ overflowed \in BOOLEAN
  /\ restarts \in 0..MaxRestarts

(* "seq numbers guarantee we don't double-deliver": no line is shown twice *)
(* or out of order, through replays that overlap the live queue, slow      *)
(* readers whose queue overflows, lost connections, resets, and servers    *)
(* that start over.                                                        *)
Before(e, f) == e.life < f.life \/ (e.life = f.life /\ e.seq < f.seq)

NoRepeat ==
  \A i \in 1..Len(view) - 1 : Before(view[i], view[i + 1])

(* Unless a queue overflowed the pane has no hole within one life of the   *)
(* server: a resume continues with the very next event, or starts over     *)
(* with a reset.                                                           *)
NoGap ==
  overflowed \/
    \A i \in 1..Len(view) - 1 :
      view[i].life = view[i + 1].life => view[i + 1].seq = view[i].seq + 1

(* The invariant the two rest on.  The history is an unbroken run of the   *)
(* numbers of this life, up to the newest.                                 *)
HistoryIsARun ==
  /\ Len(history) <= newest
  /\ newest > 0 => history # <<>>
  /\ \A i \in 1..Len(history) :
       history[i] = [life |-> restarts, seq |-> newest - Len(history) + i]

(* A session not yet opened is clean, and no one has broken it.            *)
UnusedAreClean ==
  \A s \in Sessions :
    handler[s] = "unused" =>
      /\ s \notin broken /\ s # current
      /\ queue[s] = <<>> /\ replay[s] = <<>> /\ wire[s] = <<>>

(* n may follow m in the pane: one of the same life is the very next one,  *)
(* unless events were lost.                                                *)
Link(lossy, m, n) ==
  \/ n = Reset
  \/ /\ Before(m, n)
     /\ lossy \/ m = Nothing \/ (m.life = n.life => n.seq = m.seq + 1)

InOrder(lossy, t) == \A i \in 1..Len(t) - 1 : Link(lossy, t[i], t[i + 1])

Past(m) == m.life < restarts \/ (m.life = restarts /\ m.seq <= newest)

(* What the browser has shown last, and what is on its way to it.          *)
Tape(s) == <<lastSeq>> \o (wire[s] \o replay[s])

LatestOn(s) == Tape(s)[Len(Tape(s))]

TapeIsInOrder ==
  current # 0 =>
    /\ InOrder(overflowed, Tape(current))
    /\ \A i \in 1..Len(Tape(current)) : Past(Tape(current)[i])

(* The handler of the open socket: nothing was sent before the snapshot,   *)
(* which is asked for with the number the browser has shown last.          *)
HandlerIsSound ==
  current # 0 =>
    /\ current \notin broken
    /\ handler[current] \notin {"unused", "closed"}
    /\ handler[current] \in {"accepted", "subscribed"} =>
         /\ wire[current] = <<>> /\ replay[current] = <<>>
         /\ since[current] = lastSeq
    /\ handler[current] = "accepted" => queue[current] = <<>>
    /\ handler[current] = "live" => replay[current] = <<>>

(* The number the head of the queue follows, if none was dropped.          *)
Served(s) == newest - Len(queue[s])

QueueIsARun ==
  current # 0 =>
    /\ \A i \in 1..Len(queue[current]) :
         /\ queue[current][i].life = restarts
         /\ queue[current][i].seq <= newest
         /\ \A j \in 1..i - 1 : queue[current][j].seq < queue[current][i].seq
    /\ overflowed \/
         /\ Served(current) >= 0
         /\ \A i \in 1..Len(queue[current]) :
              queue[current][i].seq = Served(current) + i

(* Where the snapshot ends and the queue goes on.                          *)
Seam(s) ==
  \/ LatestOn(s) = Nothing \/ LatestOn(s).life < restarts
  \/ LatestOn(s).seq = upto[s] /\ Served(s) <= upto[s]
  \/ LatestOn(s).seq = Served(s) /\ upto[s] <= Served(s)

SeamIsTight ==
  current # 0 /\ handler[current] \in {"replaying", "live"} =>
    /\ \A i \in 1..Len(queue[current]) :
         queue[current][i].seq > upto[current] =>
           Before(LatestOn(current), queue[current][i])
    /\ overflowed \/ Seam(current)

PaneEndsWithLastSeq ==
  /\ view # <<>> => lastSeq = view[Len(view)]
  /\ Past(lastSeq)

BusInv ==
  /\ TypeOK
  /\ HistoryIsARun
  /\ UnusedAreClean
  /\ TapeIsInOrder
  /\ HandlerIsSound
  /\ QueueIsARun
  /\ SeamIsTight
  /\ PaneEndsWithLastSeq
  /\ NoRepeat
  /\ NoGap

(* The session resumed from a number of an earlier life of the server.     *)
Foreign(s) == since[s] # Nothing /\ since[s].life # restarts

Quiescent ==
  /\ current # 0 /\ ~overflowed /\ history # <<>>
  /\ handler[current] = "live" /\ queue[current] = <<>> /\ wire[current] = <<>>

CaughtUp == lastSeq = history[Len(history)]

(* Once everything sent was handled, the browser has shown the newest      *)
(* event, whether it was replayed, queued during the replay, or live.      *)
QuietMeansCaughtUp == Quiescent /\ ~Foreign(current) => CaughtUp

(* events.py: "each event gets a monotonic per-install sequence number",   *)
(* and a resuming client is sent "only events with seq > last_seq", or "a  *)
(* reset marker if last_seq is older than what we still have buffered".    *)
(* So every resume, whatever happened since, ends up at the newest event.  *)
EveryResumeCatchesUp == Quiescent => CaughtUp

(* A browser that stays connected shows every event sooner or later.       *)
EveryEventIsShown ==
  \A n \in 1..MaxEvents :
    (current # 0 /\ newest = n /\ ~Foreign(current))
      ~> (lastSeq.seq >= n \/ overflowed \/ current = 0)
=============================================================================
