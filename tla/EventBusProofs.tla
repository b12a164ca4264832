--------------------------- MODULE EventBusProofs ---------------------------
(***************************************************************************)
(* The log pane of EventBus, for every size of the history and of the      *)
(* queues and any number of events, sessions and restarts: no line is      *)
(* shown twice or out of order, and none is missing unless a queue         *)
(* overflowed.  BusInv is inductive; both promises are conjuncts of it.    *)
(***************************************************************************)
EXTENDS EventBus, TLAPS, SequenceTheorems, FiniteSetTheorems

-----------------------------------------------------------------------------
(* Chains of messages *)

(* The rest of a chain is a chain. *)
LEMMA InOrderTail ==
  ASSUME NEW lossy, NEW t \in Seq(Numbers), t # <<>>, InOrder(lossy, t)
  PROVE  InOrder(lossy, Tail(t))
<1>1. /\ Len(Tail(t)) = Len(t) - 1 /\ Len(t) \in Nat
      /\ \A i \in 1..Len(Tail(t)) : Tail(t)[i] = t[i + 1]
  BY HeadTailProperties, LenProperties
<1> QED
  BY <1>1 DEF InOrder

(* A chain is continued by what may follow its last message. *)
LEMMA InOrderAppend ==
  ASSUME NEW lossy, NEW t \in Seq(Numbers), t # <<>>, NEW m \in Numbers,
         InOrder(lossy, t), Link(lossy, t[Len(t)], m)
  PROVE  InOrder(lossy, Append(t, m))
<1>1. /\ Len(Append(t, m)) = Len(t) + 1 /\ Len(t) \in Nat
      /\ \A i \in 1..Len(t) : Append(t, m)[i] = t[i]
      /\ Append(t, m)[Len(t) + 1] = m
  BY AppendProperties, LenProperties
<1> QED
  BY <1>1 DEF InOrder

(* A chain may be preceded by what its first message may follow. *)
LEMMA InOrderCons ==
  ASSUME NEW lossy, NEW m \in Numbers, NEW r \in Seq(Numbers),
         InOrder(lossy, r), r # <<>> => Link(lossy, m, r[1])
  PROVE  InOrder(lossy, <<m>> \o r)
<1>1. /\ <<m>> \in Seq(Numbers) /\ Len(<<m>>) = 1 /\ <<m>>[1] = m
      /\ Len(r) \in Nat /\ (Len(r) > 0 => r # <<>>)
  BY LenProperties, EmptySeq
<1>2. /\ Len(<<m>> \o r) = 1 + Len(r)
      /\ \A i \in 1..1 + Len(r) :
           (<<m>> \o r)[i] = IF i <= 1 THEN <<m>>[i] ELSE r[i - 1]
  BY <1>1, ConcatProperties
<1>3. ASSUME NEW i \in 1..Len(r)
      PROVE  Link(lossy, (<<m>> \o r)[i], (<<m>> \o r)[i + 1])
  <2>1. CASE i = 1
    BY <1>1, <1>2, <1>3, <2>1
  <2>2. CASE i > 1
    <3>1. (<<m>> \o r)[i] = r[i - 1] /\ (<<m>> \o r)[i + 1] = r[i]
      BY <1>1, <1>2, <1>3, <2>2
    <3>2. i - 1 \in 1..Len(r) - 1 /\ (i - 1) + 1 = i
      BY <1>1, <2>2
    <3>3. Link(lossy, r[i - 1], r[(i - 1) + 1])
      BY <3>2 DEF InOrder
    <3> QED
      BY <3>1, <3>2, <3>3
  <2> QED
    BY <1>1, <2>1, <2>2
<1> QED
  BY <1>1, <1>2, <1>3 DEF InOrder

(* Sending the head of a replay does not change what is to come. *)
LEMMA SendingMovesOn ==
  ASSUME NEW S, NEW w \in Seq(S), NEW r \in Seq(S), r # <<>>
  PROVE  Append(w, Head(r)) \o Tail(r) = w \o r
<1>1. /\ Head(r) \in S /\ Tail(r) \in Seq(S) /\ Append(w, Head(r)) = w \o <<Head(r)>>
      /\ <<Head(r)>> \in Seq(S)
  BY HeadTailProperties, AppendIsConcat
<1>2. r = <<Head(r)>> \o Tail(r)
  <2>1. Len(r) \in Nat /\ Len(r) > 0 /\ Len(Tail(r)) = Len(r) - 1
        /\ \A i \in 1..Len(Tail(r)) : Tail(r)[i] = r[i + 1]
    BY HeadTailProperties, EmptySeq
  <2>2. Head(r) = r[1] /\ Len(<<Head(r)>>) = 1 /\ <<Head(r)>>[1] = Head(r)
    OBVIOUS
  <2>3. /\ <<Head(r)>> \o Tail(r) \in Seq(S)
        /\ Len(<<Head(r)>> \o Tail(r)) = 1 + Len(Tail(r))
        /\ \A i \in 1..1 + Len(Tail(r)) : (<<Head(r)>> \o Tail(r))[i] =
             IF i <= 1 THEN <<Head(r)>>[i] ELSE Tail(r)[i - 1]
    BY <1>1, <2>2, ConcatProperties
  <2>4. \A i \in 1..Len(r) : r[i] = (<<Head(r)>> \o Tail(r))[i]
    BY <2>1, <2>2, <2>3
  <2> QED
    BY <2>1, <2>3, <2>4, SeqEqual
<1> QED
  BY <1>1, <1>2, ConcatAssociative

(* A message in front of a sequence moves the others by one. *)
LEMMA ConsShifts ==
  ASSUME NEW S, NEW x \in S, NEW t \in Seq(S)
  PROVE  /\ <<x>> \o t \in Seq(S) /\ Len(<<x>> \o t) = Len(t) + 1
         /\ (<<x>> \o t)[1] = x
         /\ \A i \in 1..Len(t) : (<<x>> \o t)[i + 1] = t[i]
<1>1. <<x>> \in Seq(S) /\ Len(<<x>>) = 1 /\ <<x>>[1] = x /\ Len(t) \in Nat
  BY LenProperties
<1>2. /\ <<x>> \o t \in Seq(S) /\ Len(<<x>> \o t) = 1 + Len(t)
      /\ \A i \in 1..1 + Len(t) : (<<x>> \o t)[i] = IF i <= 1 THEN <<x>>[i] ELSE t[i - 1]
  BY <1>1, ConcatProperties
<1>3. ASSUME NEW i \in 1..Len(t) PROVE (<<x>> \o t)[i + 1] = t[i]
  <2>1. i + 1 \in 1..1 + Len(t) /\ ~(i + 1 <= 1) /\ (i + 1) - 1 = i
    BY <1>1
  <2> QED
    BY <1>2, <2>1
<1> QED
  BY <1>1, <1>2, <1>3

(* Taking the first message off the wire takes it off what is to come. *)
LEMMA ReceivingMovesOn ==
  ASSUME NEW S, NEW w \in Seq(S), w # <<>>, NEW r \in Seq(S)
  PROVE  /\ w \o r \in Seq(S) /\ Len(w \o r) \in Nat \ {0}
         /\ w \o r = <<Head(w)>> \o (Tail(w) \o r)
         /\ (w \o r)[1] = Head(w)
<1>1. Head(w) \in S /\ Tail(w) \in Seq(S) /\ Len(w) \in Nat \ {0} /\ Len(r) \in Nat
  BY HeadTailProperties, EmptySeq, LenProperties
<1>2. <<>> \in Seq(S) /\ Append(<<>>, Head(w)) \o Tail(w) = <<>> \o w
  BY EmptySeq, SendingMovesOn
<1>3. <<>> \o w = w /\ Append(<<>>, Head(w)) = <<Head(w)>> /\ <<Head(w)>> \in Seq(S)
  BY <1>1, ConcatEmptySeq
<1>4. w = <<Head(w)>> \o Tail(w)
  BY <1>2, <1>3
<1>5. (<<Head(w)>> \o Tail(w)) \o r = <<Head(w)>> \o (Tail(w) \o r)
  BY <1>1, <1>3, ConcatAssociative
<1>6. w \o r = <<Head(w)>> \o (Tail(w) \o r)
  BY <1>4, <1>5
<1>7. w \o r \in Seq(S) /\ Len(w \o r) = Len(w) + Len(r)
  BY ConcatProperties
<1>8. Tail(w) \o r \in Seq(S)
  BY <1>1, ConcatProperties
<1>9. (<<Head(w)>> \o (Tail(w) \o r))[1] = Head(w)
  BY <1>1, <1>8, ConsShifts
<1>10. Len(w \o r) \in Nat \ {0}
  BY <1>1, <1>7
<1>11. (w \o r)[1] = Head(w)
  BY <1>6, <1>9
<1> QED
  BY <1>6, <1>7, <1>10, <1>11

(* A message put on the wire comes last. *)
LEMMA AppendingComesLast ==
  ASSUME NEW S, NEW m \in S, NEW w \in Seq(S), NEW e \in S
  PROVE  <<m>> \o Append(w, e) = Append(<<m>> \o w, e)
<1>1. <<m>> \in Seq(S) /\ <<e>> \in Seq(S) /\ <<m>> \o w \in Seq(S)
  BY ConcatProperties
<1>2. Append(w, e) = w \o <<e>> /\ Append(<<m>> \o w, e) = (<<m>> \o w) \o <<e>>
  BY <1>1, AppendIsConcat
<1>3. (<<m>> \o w) \o <<e>> = <<m>> \o (w \o <<e>>)
  BY <1>1, ConcatAssociative
<1> QED
  BY <1>2, <1>3

(* What is on its way to the browser, as one sequence. *)
LEMMA TapeShape ==
  ASSUME NEW m \in Numbers, NEW w \in Seq(Numbers), NEW r \in Seq(Numbers)
  PROVE  LET t == <<m>> \o (w \o r) IN
         /\ t \in Seq(Numbers) /\ t # <<>> /\ t[1] = m
         /\ Len(t) = 1 + Len(w) + Len(r) /\ Len(t) \in Nat \ {0}
         /\ t[Len(t)] \in Numbers
<1> DEFINE t == <<m>> \o (w \o r)
<1>1. <<m>> \in Seq(Numbers) /\ Len(<<m>>) = 1 /\ <<m>>[1] = m
  OBVIOUS
<1>2. w \o r \in Seq(Numbers) /\ Len(w \o r) = Len(w) + Len(r)
      /\ Len(w) \in Nat /\ Len(r) \in Nat
  BY ConcatProperties, LenProperties
<1>3. /\ t \in Seq(Numbers) /\ Len(t) = 1 + Len(w \o r)
      /\ \A i \in 1..1 + Len(w \o r) :
           t[i] = IF i <= 1 THEN <<m>>[i] ELSE (w \o r)[i - 1]
  BY <1>1, <1>2, ConcatProperties
<1>4. t # <<>> /\ t[1] = m /\ Len(t) \in Nat \ {0}
  BY <1>1, <1>2, <1>3, EmptySeq
<1>5. t[Len(t)] \in Numbers
  BY <1>3, <1>4, ElementOfSeq
<1> QED
  BY <1>2, <1>3, <1>4, <1>5
-----------------------------------------------------------------------------
(* The snapshot *)

(* What a snapshot holds is an unbroken run of numbers up to the newest,   *)
(* and one that is not the whole history starts right after since_seq.     *)
LEMMA SnapshotIsARun ==
  ASSUME TypeOK, HistoryIsARun, NEW q \in 0..MaxEvents
  PROVE  /\ Snapshot(q) \in Seq(Events)
         /\ Len(Snapshot(q)) \in 0..newest
         /\ \A i \in 1..Len(Snapshot(q)) :
              Snapshot(q)[i] = [life |-> restarts, seq |-> newest - Len(Snapshot(q)) + i]
         /\ Snapshot(q) = <<>> => newest <= q
         /\ Snapshot(q) # <<>> /\ q # 0 /\ ~ResetNeeded(q)
              => newest - Len(Snapshot(q)) = q
<1>1. /\ history \in Seq(Events) /\ Len(history) \in 0..newest
      /\ newest \in Nat /\ MaxEvents \in Nat /\ q \in Nat
      /\ history = <<>> => newest = 0
      /\ history # <<>> => Len(history) > 0
      /\ history = <<>> => Len(history) = 0
      /\ \A i \in 1..Len(history) :
           history[i] = [life |-> restarts, seq |-> newest - Len(history) + i]
  BY LenProperties, EmptySeq, BusAssumption DEF TypeOK, HistoryIsARun
<1>2. CASE q = 0 \/ ResetNeeded(q)
  BY <1>1, <1>2 DEF Snapshot, ResetNeeded
<1>3. CASE ~(q = 0 \/ ResetNeeded(q))
  <2> DEFINE n == Len(history)
             k == Cardinality(Newer(q))
             R == SubSeq(history, n - k + 1, n)
  <2>1. Snapshot(q) = R
    BY <1>3 DEF Snapshot
  <2>2. history # <<>> => Head(history).seq <= q /\ Head(history).seq = newest - n + 1
    <3> HAVE history # <<>>
    <3>1. Head(history) = history[1] /\ 1 \in 1..Len(history)
      BY <1>1
    <3>2. Head(history) = [life |-> restarts, seq |-> newest - n + 1]
      BY <1>1, <3>1
    <3>3. Head(history).seq = newest - n + 1
      BY <3>2
    <3> QED
      BY <1>1, <1>3, <3>3 DEF ResetNeeded
  <2>3. Newer(q) = (n + 1 - (newest - q)) .. n
    <3>1. ASSUME NEW i \in 1..n PROVE history[i].seq = newest - n + i
      <4>1. history[i] = [life |-> restarts, seq |-> newest - n + i]
        BY <1>1
      <4> QED
        BY <4>1
    <3>2. ASSUME NEW i \in Int, n + 1 - (newest - q) <= i, i <= n PROVE i >= 1
      BY <1>1, <2>2, <3>2
    <3> QED
      BY <1>1, <3>1, <3>2 DEF Newer
  <2>4. k = IF newest > q THEN newest - q ELSE 0
    <3>1. n \in Int /\ n + 1 - (newest - q) \in Int
      BY <1>1
    <3>2. k = IF n + 1 - (newest - q) > n THEN 0
              ELSE n - (n + 1 - (newest - q)) + 1
      BY <2>3, <3>1, FS_Interval
    <3> QED
      BY <1>1, <3>2
  <2>5. k \in 0..n
    BY <1>1, <2>2, <2>4
  <2>6. /\ R \in Seq(Events)
        /\ Len(R) = IF n - k + 1 <= n THEN n - (n - k + 1) + 1 ELSE 0
        /\ \A i \in 1..n - (n - k + 1) + 1 : R[i] = history[(n - k + 1) + i - 1]
    <3>1. n - k + 1 \in Int /\ n \in Int /\ \A i \in (n - k + 1)..n : history[i] \in Events
      BY <1>1, <2>5, ElementOfSeq
    <3> QED
      BY <3>1, SubSeqProperties
  <2>7. Len(R) = k
    BY <1>1, <2>5, <2>6
  <2>8. ASSUME NEW i \in 1..Len(R)
        PROVE  R[i] = [life |-> restarts, seq |-> newest - Len(R) + i]
    <3>1. /\ i \in 1..n - (n - k + 1) + 1
          /\ (n - k + 1) + i - 1 \in 1..n
          /\ newest - n + ((n - k + 1) + i - 1) = newest - k + i
      BY <1>1, <2>5, <2>7
    <3> HIDE DEF R, k
    <3> QED
      BY <1>1, <2>6, <2>7, <3>1
  <2>9. R = <<>> <=> k = 0
    BY <2>6, <2>7, <2>5, EmptySeq
  <2> HIDE DEF R, k
  <2> QED
    BY <1>1, <2>1, <2>4, <2>5, <2>6, <2>7, <2>8, <2>9
<1> QED
  BY <1>2, <1>3
-----------------------------------------------------------------------------
(* Types *)

(* The first message of a sequence and the others. *)
LEMMA HeadAndTail ==
  ASSUME NEW S, NEW q \in Seq(S), q # <<>>
  PROVE  /\ Head(q) \in S /\ Head(q) = q[1] /\ Tail(q) \in Seq(S)
         /\ Len(q) \in Nat \ {0} /\ Len(Tail(q)) = Len(q) - 1
         /\ \A i \in 1..Len(q) - 1 : Tail(q)[i] = q[i + 1]
BY HeadTailProperties, EmptySeq

(* send_text puts the message on the wire or ends the handler. *)
LEMMA SendTypes ==
  ASSUME TypeOK, NEW s \in Sessions, NEW m \in Numbers, Send(s, m)
  PROVE  /\ handler' \in [Sessions ->
              {"unused", "accepted", "subscribed", "replaying", "live", "closed"}]
         /\ wire' \in [Sessions -> Seq(Numbers)]
<1>1. CASE s \in broken
  BY <1>1 DEF Send, TypeOK
<1>2. CASE s \notin broken
  <2>1. Append(wire[s], m) \in Seq(Numbers)
    BY AppendProperties DEF TypeOK
  <2> QED
    BY <1>2, <2>1 DEF Send, TypeOK
<1> QED
  BY <1>1, <1>2

(* A handler's step keeps every variable in its domain. *)
LEMMA HandleTypes ==
  ASSUME BusInv, NEW s \in Sessions, Handle(s)
  PROVE  TypeOK'
<1> USE DEF BusInv
<1>1. CASE Subscribe(s) \/ GoLive(s)
  BY <1>1 DEF Subscribe, GoLive, TypeOK, browserVars
<1>2. CASE TakeSnapshot(s)
  <2>1. since[s].seq \in 0..MaxEvents
    BY BusAssumption DEF TypeOK, Numbers, Nothing, Events
  <2>2. Snapshot(since[s].seq) \in Seq(Numbers)
    BY <2>1, SnapshotIsARun, SeqMonotonic DEF Numbers
  <2>3. (IF ResetNeeded(since[s].seq) THEN <<Reset>> ELSE <<>>) \in Seq(Numbers)
    <3>1. Reset \in Numbers
      BY DEF Reset, Numbers
    <3> QED
      BY <3>1, EmptySeq
  <2>4. (IF ResetNeeded(since[s].seq) THEN <<Reset>> ELSE <<>>)
          \o Snapshot(since[s].seq) \in Seq(Numbers)
    BY <2>2, <2>3, ConcatProperties
  <2>5. replay' \in [Sessions -> Seq(Numbers)]
    BY <1>2, <2>4 DEF TakeSnapshot, TypeOK
  <2>6. upto' \in [Sessions -> 0..MaxEvents]
    BY <1>2, BusAssumption DEF TakeSnapshot, TypeOK
  <2>7. handler' \in [Sessions ->
          {"unused", "accepted", "subscribed", "replaying", "live", "closed"}]
    BY <1>2 DEF TakeSnapshot, TypeOK
  <2> QED
    BY <1>2, <2>5, <2>6, <2>7 DEF TakeSnapshot, TypeOK, browserVars
<1>3. CASE SendReplay(s)
  <2>1. Head(replay[s]) \in Numbers /\ Tail(replay[s]) \in Seq(Numbers)
    BY <1>3, HeadAndTail DEF SendReplay, TypeOK
  <2>2. replay' \in [Sessions -> Seq(Numbers)]
    BY <1>3, <2>1 DEF SendReplay, TypeOK
  <2> QED
    BY <1>3, <2>1, <2>2, SendTypes DEF SendReplay, TypeOK, browserVars
<1>4. CASE SendLive(s)
  <2>1. /\ Head(queue[s]) \in Numbers /\ Tail(queue[s]) \in Seq(Events)
        /\ Len(Tail(queue[s])) = Len(queue[s]) - 1 /\ Len(queue[s]) \in Nat
    BY <1>4, HeadAndTail DEF SendLive, TypeOK, Numbers
  <2>2. queue' = [queue EXCEPT ![s] = Tail(queue[s])]
    BY <1>4 DEF SendLive
  <2>3. queue' \in [Sessions -> Seq(Events)]
    BY <2>1, <2>2 DEF TypeOK
  <2>4. \A r \in Sessions : Len(queue'[r]) <= QueueSize
    BY <2>1, <2>2, BusAssumption DEF TypeOK
  <2>5. /\ handler' \in [Sessions ->
             {"unused", "accepted", "subscribed", "replaying", "live", "closed"}]
        /\ wire' \in [Sessions -> Seq(Numbers)]
    <3>1. CASE Head(queue[s]).seq <= upto[s]
      BY <1>4, <3>1 DEF SendLive, TypeOK
    <3>2. CASE ~(Head(queue[s]).seq <= upto[s])
      BY <1>4, <3>2, <2>1, SendTypes DEF SendLive
    <3> QED
      BY <3>1, <3>2
  <2> QED
    BY <1>4, <2>3, <2>4, <2>5 DEF SendLive, TypeOK, browserVars
<1> QED
  BY <1>1, <1>2, <1>3, <1>4 DEF Handle

(* The event that is published, and the history it is appended to. *)
LEMMA BufferedIsARun ==
  ASSUME TypeOK, HistoryIsARun, newest < MaxEvents,
         NEW e, e = [life |-> restarts, seq |-> newest + 1]
  PROVE  /\ e \in Events
         /\ Buffered(e) \in Seq(Events) /\ Buffered(e) # <<>>
         /\ Len(Buffered(e)) <= HistorySize /\ Len(Buffered(e)) <= newest + 1
         /\ \A i \in 1..Len(Buffered(e)) : Buffered(e)[i] =
              [life |-> restarts, seq |-> newest + 1 - Len(Buffered(e)) + i]
<1>1. e \in Events
  BY BusAssumption DEF TypeOK, Events
<1> DEFINE n == Len(history)
           longer == Append(history, e)
<1>2. /\ n \in Nat /\ n <= newest /\ newest \in Nat /\ n <= HistorySize
      /\ HistorySize \in Nat \ {0}
      /\ \A i \in 1..n : history[i] = [life |-> restarts, seq |-> newest - n + i]
  BY BusAssumption, LenProperties DEF TypeOK, HistoryIsARun
<1>3. /\ longer \in Seq(Events) /\ longer # <<>> /\ Len(longer) = n + 1
      /\ \A i \in 1..n : longer[i] = history[i]
      /\ longer[n + 1] = e
  <2>1. history \in Seq(Events)
    BY DEF TypeOK
  <2> QED
    BY <1>1, <2>1, AppendProperties
<1>4. \A i \in 1..n + 1 : longer[i] = [life |-> restarts, seq |-> newest - n + i]
  <2> SUFFICES ASSUME NEW i \in 1..n + 1
               PROVE  longer[i] = [life |-> restarts, seq |-> newest - n + i]
    OBVIOUS
  <2>1. CASE i \in 1..n
    BY <1>2, <1>3, <2>1
  <2>2. CASE i = n + 1
    <3>1. newest - n + i = newest + 1
      BY <1>2, <2>2
    <3> QED
      BY <1>3, <2>2, <3>1
  <2> QED
    BY <1>2, <2>1, <2>2
<1>5. CASE Len(longer) > HistorySize
  <2>1. Buffered(e) = Tail(longer)
    BY <1>5 DEF Buffered
  <2>2. /\ Tail(longer) \in Seq(Events) /\ Len(Tail(longer)) = n
        /\ \A i \in 1..n : Tail(longer)[i] = longer[i + 1]
    <3> HIDE DEF longer
    <3> QED
      BY <1>2, <1>3, HeadAndTail
  <2>3. ASSUME NEW i \in 1..n
        PROVE  Tail(longer)[i] = [life |-> restarts, seq |-> newest + 1 - n + i]
    <3>1. i + 1 \in 1..n + 1 /\ newest - n + (i + 1) = newest + 1 - n + i
      BY <1>2
    <3> HIDE DEF longer
    <3> QED
      BY <1>4, <2>2, <3>1
  <2>4. n > 0
    BY <1>2, <1>3, <1>5
  <2>5. Tail(longer) # <<>>
    BY <2>2, <2>4, EmptySeq
  <2> HIDE DEF longer
  <2>6. /\ Buffered(e) \in Seq(Events) /\ Len(Buffered(e)) = n /\ Buffered(e) # <<>>
        /\ \A i \in 1..n : Buffered(e)[i] =
             [life |-> restarts, seq |-> newest + 1 - n + i]
    BY <2>1, <2>2, <2>3, <2>5
  <2>7. n <= HistorySize /\ n <= newest + 1
    BY <1>2
  <2> HIDE DEF n
  <2> QED
    BY <1>1, <2>6, <2>7
<1>6. CASE ~(Len(longer) > HistorySize)
  <2>1. Buffered(e) = longer
    BY <1>6 DEF Buffered
  <2> HIDE DEF longer
  <2>2. ASSUME NEW i \in 1..n + 1
        PROVE  longer[i] = [life |-> restarts, seq |-> newest + 1 - (n + 1) + i]
    <3>1. newest - n + i = newest + 1 - (n + 1) + i
      BY <1>2
    <3> QED
      BY <1>4, <3>1
  <2>3. /\ Buffered(e) \in Seq(Events) /\ Len(Buffered(e)) = n + 1 /\ Buffered(e) # <<>>
        /\ \A i \in 1..n + 1 : Buffered(e)[i] =
             [life |-> restarts, seq |-> newest + 1 - (n + 1) + i]
    BY <1>3, <2>1, <2>2
  <2>4. n + 1 <= HistorySize /\ n + 1 <= newest + 1
    BY <1>2, <1>3, <1>6
  <2> HIDE DEF n
  <2> QED
    BY <1>1, <2>3, <2>4
<1> QED
  BY <1>5, <1>6

(* Publishing keeps every variable in its domain. *)
LEMMA PublishTypes ==
  ASSUME BusInv, Publish
  PROVE  TypeOK'
<1> DEFINE e == [life |-> restarts, seq |-> newest + 1]
<1>1. newest < MaxEvents /\ newest' = newest + 1 /\ history' = Buffered(e)
      /\ queue' = [s \in Sessions |->
            IF Subscribed(s) /\ Len(queue[s]) < QueueSize
            THEN Append(queue[s], e) ELSE queue[s]]
  BY DEF Publish
<1>2. e \in Events /\ history' \in Seq(Events) /\ Len(history') <= HistorySize
  BY <1>1, BufferedIsARun DEF BusInv
<1>3. \A s \in Sessions :
        /\ Append(queue[s], e) \in Seq(Events)
        /\ Len(Append(queue[s], e)) = Len(queue[s]) + 1
        /\ Len(queue[s]) \in Nat
  BY <1>2, AppendProperties, LenProperties DEF BusInv, TypeOK
<1>4. queue' \in [Sessions -> Seq(Events)] /\ \A s \in Sessions : Len(queue'[s]) <= QueueSize
  BY <1>1, <1>3, BusAssumption DEF BusInv, TypeOK
<1>5. newest' \in 0..MaxEvents
  BY <1>1, BusAssumption DEF BusInv, TypeOK
<1> QED
  BY <1>2, <1>4, <1>5 DEF Publish, BusInv, TypeOK, browserVars

(* The browser's steps and a restart keep every variable in its domain. *)
LEMMA BrowserTypes ==
  ASSUME BusInv, (\E resumeOnly \in BOOLEAN : Open(resumeOnly)) \/ Receive \/ Disconnect \/ Restart
  PROVE  TypeOK'
<1> USE DEF BusInv
<1>0. <<>> \in Seq(Numbers) /\ <<>> \in Seq(Events) /\ Len(<<>>) = 0
  BY EmptySeq
<1>1. ASSUME NEW resumeOnly \in BOOLEAN, Open(resumeOnly) PROVE TypeOK'
  BY <1>0, <1>1 DEF Open, TypeOK
<1>2. CASE Receive
  <2>1. current \in Sessions /\ wire[current] # <<>>
    BY <1>2 DEF Receive, TypeOK
  <2>2. Head(wire[current]) \in Numbers /\ Tail(wire[current]) \in Seq(Numbers)
    BY <2>1, HeadAndTail DEF TypeOK
  <2>3. view' \in Seq(Events)
    BY <1>0, <1>2, <2>2, AppendProperties DEF Receive, TypeOK, Reset, Numbers
  <2> QED
    BY <1>2, <2>1, <2>2, <2>3 DEF Receive, TypeOK, serverVars
<1>3. CASE Disconnect
  BY <1>0, <1>3 DEF Disconnect, TypeOK, serverVars
<1>4. CASE Restart
  <2>1. restarts' \in 0..MaxRestarts /\ newest' \in 0..MaxEvents
    BY <1>4, BusAssumption DEF Restart, TypeOK
  <2>2. handler' \in [Sessions ->
          {"unused", "accepted", "subscribed", "replaying", "live", "closed"}]
    BY <1>4 DEF Restart, TypeOK
  <2>3. Len(history') <= HistorySize /\ \A s \in Sessions : Len(queue'[s]) <= QueueSize
    BY <1>0, <1>4, BusAssumption DEF Restart
  <2> QED
    BY <1>0, <1>4, <2>1, <2>2, <2>3 DEF Restart, TypeOK
<1> QED
  BY <1>1, <1>2, <1>3, <1>4
-----------------------------------------------------------------------------
(* What a step leaves alone *)

(* The pane is as good as it was when neither it nor the bus moves on. *)
LEMMA PaneKeeps ==
  ASSUME BusInv, UNCHANGED <<newest, history, restarts, overflowed, lastSeq, view>>
  PROVE  HistoryIsARun' /\ PaneEndsWithLastSeq' /\ NoRepeat' /\ NoGap'
BY DEF BusInv, HistoryIsARun, PaneEndsWithLastSeq, Past, NoRepeat, NoGap

(* A step of one session leaves the sessions not yet opened alone. *)
LEMMA UnusedKeeps ==
  ASSUME BusInv, NEW s \in Sessions, handler[s] # "unused",
         UNCHANGED <<broken, current>>,
         \A r \in Sessions \ {s} :
           /\ handler'[r] = handler[r] /\ queue'[r] = queue[r]
           /\ replay'[r] = replay[r] /\ wire'[r] = wire[r],
         handler'[s] # "unused"
  PROVE  UnusedAreClean'
BY DEF BusInv, UnusedAreClean

(* A step that is none of the open session's leaves its stream alone. *)
LEMMA StreamKeeps ==
  ASSUME BusInv,
         UNCHANGED <<newest, history, restarts, overflowed, current, lastSeq, view, broken>>,
         current # 0 =>
           /\ handler'[current] = handler[current] /\ queue'[current] = queue[current]
           /\ replay'[current] = replay[current] /\ wire'[current] = wire[current]
           /\ upto'[current] = upto[current] /\ since'[current] = since[current]
  PROVE  TapeIsInOrder' /\ HandlerIsSound' /\ QueueIsARun' /\ SeamIsTight'
<1>1. CASE current = 0
  BY <1>1 DEF TapeIsInOrder, HandlerIsSound, QueueIsARun, SeamIsTight
<1>2. CASE current # 0
  <2>1. Tape(current)' = Tape(current)
    BY <1>2 DEF Tape
  <2>2. LatestOn(current)' = LatestOn(current) /\ Served(current)' = Served(current)
    BY <1>2, <2>1 DEF LatestOn, Served
  <2>3. TapeIsInOrder'
    BY <1>2, <2>1 DEF BusInv, TapeIsInOrder, Past
  <2>4. HandlerIsSound'
    BY <1>2 DEF BusInv, HandlerIsSound
  <2>5. QueueIsARun'
    BY <1>2, <2>2 DEF BusInv, QueueIsARun
  <2>6. SeamIsTight'
    BY <1>2, <2>2 DEF BusInv, SeamIsTight, Seam
  <2> QED
    BY <2>3, <2>4, <2>5, <2>6
<1> QED
  BY <1>1, <1>2

(* The tape of the open session, with its types. *)
LEMMA TapeFacts ==
  ASSUME TypeOK, NEW s \in Sessions
  PROVE  /\ Tape(s) \in Seq(Numbers) /\ Tape(s) # <<>> /\ Tape(s)[1] = lastSeq
         /\ Len(Tape(s)) = 1 + Len(wire[s]) + Len(replay[s])
         /\ Len(Tape(s)) \in Nat \ {0}
         /\ LatestOn(s) \in Numbers
BY TapeShape DEF TypeOK, Tape, LatestOn

(* When nothing is on its way, what was shown last is the latest.          *)
LEMMA EmptyTape ==
  ASSUME TypeOK, NEW s \in Sessions, wire[s] = <<>>, replay[s] = <<>>
  PROVE  Len(Tape(s)) = 1 /\ Tape(s)[1] = lastSeq /\ LatestOn(s) = lastSeq
<1>1. Len(wire[s]) = 0 /\ Len(replay[s]) = 0
  OBVIOUS
<1>2. Len(Tape(s)) = 1 + Len(wire[s]) + Len(replay[s]) /\ Tape(s)[1] = lastSeq
  BY TapeFacts
<1>3. Len(Tape(s)) = 1
  BY <1>1, <1>2
<1> QED
  BY <1>2, <1>3 DEF LatestOn

-----------------------------------------------------------------------------
(* The steps of a handler *)

(* The steps of a session that is not the open one. *)
LEMMA OtherHandlerKeeps ==
  ASSUME BusInv, NEW s \in Sessions, s # current, Handle(s)
  PROVE  BusInv'
<1>0. handler \in [Sessions -> {"unused", "accepted", "subscribed", "replaying", "live", "closed"}]
      /\ wire \in [Sessions -> Seq(Numbers)] /\ replay \in [Sessions -> Seq(Numbers)]
      /\ queue \in [Sessions -> Seq(Events)] /\ current \in {0} \cup Sessions
      /\ upto \in [Sessions -> 0..MaxEvents]
  BY DEF BusInv, TypeOK
<1>1. UNCHANGED <<newest, history, restarts, overflowed, current, lastSeq, view, broken, since>>
  BY DEF Handle, Subscribe, TakeSnapshot, SendReplay, GoLive, SendLive, browserVars
<1>2. handler[s] # "unused" /\ handler'[s] # "unused"
  BY <1>0 DEF Handle, Subscribe, TakeSnapshot, SendReplay, GoLive, SendLive, Send
<1>3. \A r \in Sessions \ {s} :
        /\ handler'[r] = handler[r] /\ queue'[r] = queue[r]
        /\ replay'[r] = replay[r] /\ wire'[r] = wire[r] /\ upto'[r] = upto[r]
  BY <1>0 DEF Handle, Subscribe, TakeSnapshot, SendReplay, GoLive, SendLive, Send
<1>4. TypeOK'
  BY HandleTypes
<1>5. UnusedAreClean'
  BY <1>1, <1>2, <1>3, UnusedKeeps
<1>6. current # 0 => current \in Sessions \ {s}
  BY <1>0
<1>7. TapeIsInOrder' /\ HandlerIsSound' /\ QueueIsARun' /\ SeamIsTight'
  BY <1>1, <1>3, <1>6, StreamKeeps
<1> QED
  BY <1>1, <1>4, <1>5, <1>7, PaneKeeps DEF BusInv
(* The history is snapshotted after the subscription: what the snapshot    *)
(* holds continues what the browser has shown, and the queue continues it. *)
LEMMA TakeSnapshotKeeps ==
  ASSUME BusInv, current # 0, current \in Sessions, TakeSnapshot(current)
  PROVE  TapeIsInOrder' /\ HandlerIsSound' /\ QueueIsARun' /\ SeamIsTight'
<1> DEFINE c == current
           q == since[c].seq
           R == Snapshot(q)
           first == IF ResetNeeded(q) THEN <<Reset>> ELSE <<>>
<1>0. /\ handler[c] = "subscribed" /\ handler' = [handler EXCEPT ![c] = "replaying"]
      /\ replay' = [replay EXCEPT ![c] = first \o R]
      /\ upto' = [upto EXCEPT ![c] = IF history = <<>> THEN 0 ELSE newest]
      /\ UNCHANGED <<newest, history, since, queue, wire, broken, current,
                     lastSeq, view, overflowed, restarts>>
  BY DEF TakeSnapshot, browserVars
<1>1. /\ TypeOK /\ HistoryIsARun /\ wire[c] = <<>> /\ since[c] = lastSeq
      /\ c \notin broken /\ lastSeq \in Numbers /\ Past(lastSeq)
      /\ newest \in Nat /\ restarts \in Nat /\ MaxEvents \in Nat
  BY <1>0, BusAssumption DEF BusInv, HandlerIsSound, TypeOK, PaneEndsWithLastSeq
<1>2. lastSeq.seq \in 0..MaxEvents /\ lastSeq.life \in Nat /\ q = lastSeq.seq
      /\ (q = 0 => lastSeq = Nothing)
  BY <1>1, BusAssumption DEF Numbers, Events, Nothing
<1>3. /\ R \in Seq(Events) /\ Len(R) \in 0..newest
      /\ \A i \in 1..Len(R) :
           R[i] = [life |-> restarts, seq |-> newest - Len(R) + i]
      /\ R = <<>> => newest <= q
      /\ R # <<>> /\ q # 0 /\ ~ResetNeeded(q) => newest - Len(R) = q
  BY <1>1, <1>2, SnapshotIsARun
<1>4. R \in Seq(Numbers)
  BY <1>3, SeqMonotonic DEF Numbers
<1>5. upto'[c] = newest /\ replay'[c] = first \o R /\ handler'[c] = "replaying"
  <2>1. history = <<>> => newest = 0
    BY <1>1 DEF HistoryIsARun, TypeOK
  <2> QED
    BY <1>0, <1>1, <2>1 DEF TypeOK
<1> HIDE DEF R
<1>6. InOrder(overflowed, R)
  <2>1. ASSUME NEW i \in 1..Len(R) - 1
        PROVE  Link(overflowed, R[i], R[i + 1])
    <3>1. /\ R[i] = [life |-> restarts, seq |-> newest - Len(R) + i]
          /\ R[i + 1] = [life |-> restarts, seq |-> newest - Len(R) + (i + 1)]
      BY <1>3
    <3>2. /\ R[i].life = restarts /\ R[i].seq = newest - Len(R) + i
          /\ R[i + 1].life = restarts /\ R[i + 1].seq = newest - Len(R) + (i + 1)
      BY <3>1
    <3> QED
      BY <1>1, <1>3, <3>2 DEF Link, Before
  <2> QED
    BY <2>1 DEF InOrder
<1>7. R # <<>> =>
        /\ R[1].life = restarts /\ R[1].seq = newest - Len(R) + 1
        /\ R[Len(R)].life = restarts /\ R[Len(R)].seq = newest
        /\ Len(R) > 0
  <2> HAVE R # <<>>
  <2>1. Len(R) > 0 /\ 1 \in 1..Len(R) /\ Len(R) \in 1..Len(R)
    BY <1>3, EmptySeq
  <2>2. /\ R[1] = [life |-> restarts, seq |-> newest - Len(R) + 1]
        /\ R[Len(R)] = [life |-> restarts, seq |-> newest - Len(R) + Len(R)]
    BY <1>3, <2>1
  <2> QED
    BY <1>1, <1>3, <2>1, <2>2
<1>8. \A i \in 1..Len(R) : R[i].life = restarts /\ R[i].seq <= newest
  <2> SUFFICES ASSUME NEW i \in 1..Len(R)
               PROVE  R[i].life = restarts /\ R[i].seq <= newest
    OBVIOUS
  <2>1. R[i] = [life |-> restarts, seq |-> newest - Len(R) + i]
    BY <1>3
  <2> QED
    BY <1>1, <1>3, <2>1
<1>9. Before(Reset, R[1]) \/ R = <<>>
  BY <1>1, <1>3, <1>7 DEF Before, Reset, Nothing
<1> DEFINE P == first \o R
           T == <<lastSeq>> \o P
<1>10. /\ P \in Seq(Numbers) /\ Len(P) = Len(first) + Len(R)
       /\ InOrder(overflowed, P)
       /\ P # <<>> => Link(overflowed, lastSeq, P[1])
       /\ \A i \in 1..Len(P) : Past(P[i])
       /\ R # <<>> => P # <<>> /\ P[Len(P)] = R[Len(R)]
       /\ R = <<>> => P = <<>>
  <2>1. CASE ResetNeeded(q)
    <3>1. first = <<Reset>> /\ Reset \in Numbers /\ Len(first) = 1 /\ first[1] = Reset
          /\ first \in Seq(Numbers) /\ P = <<Reset>> \o R
      BY <2>1 DEF Reset, Numbers
    <3>2. R # <<>>
      <4>1. history # <<>>
        BY <2>1 DEF ResetNeeded
      <4> QED
        BY <2>1, <4>1 DEF R, Snapshot
    <3>3. InOrder(overflowed, P)
      <4>1. Link(overflowed, Reset, R[1])
        BY <1>9, <3>2 DEF Link, Reset
      <4> QED
        BY <1>4, <1>6, <3>1, <4>1, InOrderCons
    <3>4. /\ P \in Seq(Numbers) /\ Len(P) = 1 + Len(R)
          /\ \A i \in 1..1 + Len(R) : P[i] = IF i <= 1 THEN first[i] ELSE R[i - 1]
      BY <1>4, <3>1, ConcatProperties
    <3> HIDE DEF P, first
    <3>5. P[1] = Reset /\ P[Len(P)] = R[Len(R)] /\ P # <<>>
      BY <1>3, <1>7, <3>1, <3>2, <3>4, EmptySeq
    <3>6. \A i \in 1..Len(P) : Past(P[i])
      <4> SUFFICES ASSUME NEW i \in 1..Len(P) PROVE Past(P[i])
        OBVIOUS
      <4>1. CASE i = 1
        BY <1>1, <3>5, <4>1 DEF Past, Reset, Nothing
      <4>2. CASE i # 1
        <5>1. P[i] = R[i - 1] /\ i - 1 \in 1..Len(R)
          BY <1>3, <3>4, <4>2
        <5> QED
          BY <1>8, <5>1 DEF Past
      <4> QED
        BY <4>1, <4>2
    <3> QED
      BY <3>1, <3>2, <3>3, <3>4, <3>5, <3>6 DEF Link
  <2>2. CASE ~ResetNeeded(q)
    <3>1. first = <<>> /\ P = R /\ Len(first) = 0
      BY <1>4, <2>2, ConcatEmptySeq
    <3>2. R # <<>> => Link(overflowed, lastSeq, R[1])
      <4> HAVE R # <<>>
      <4>1. CASE q = 0
        BY <1>2, <1>9, <4>1 DEF Link, Reset
      <4>2. CASE q # 0
        <5>1. R[1].seq = q + 1 /\ R[1].life = restarts
          BY <1>1, <1>2, <1>3, <1>7, <2>2, <4>2
        <5> QED
          BY <1>1, <1>2, <5>1 DEF Link, Before, Past
      <4> QED
        BY <4>1, <4>2
    <3>3. \A i \in 1..Len(R) : Past(R[i])
      BY <1>8 DEF Past
    <3>4. Len(P) = Len(first) + Len(R)
      BY <1>3, <3>1
    <3> HIDE DEF first, P
    <3> QED
      BY <1>4, <1>6, <3>1, <3>2, <3>3, <3>4
  <2> QED
    BY <2>1, <2>2
<1>11. Tape(c)' = T
  <2>1. <<>> \o P = P
    BY <1>10, ConcatEmptySeq
  <2>2. wire'[c] = <<>> /\ replay'[c] = P /\ lastSeq' = lastSeq /\ c' = c
    BY <1>0, <1>1, <1>5
  <2> QED
    BY <2>1, <2>2 DEF Tape
<1> HIDE DEF P, first
<1>12. /\ <<lastSeq>> \in Seq(Numbers) /\ Len(<<lastSeq>>) = 1
       /\ <<lastSeq>>[1] = lastSeq /\ Len(P) \in Nat
  BY <1>1, <1>10, LenProperties
<1>13. /\ T \in Seq(Numbers) /\ Len(T) = 1 + Len(P)
       /\ \A i \in 1..1 + Len(P) :
            T[i] = IF i <= 1 THEN <<lastSeq>>[i] ELSE P[i - 1]
  BY <1>10, <1>12, ConcatProperties
<1>14. InOrder(overflowed, T)
  BY <1>1, <1>10, InOrderCons
<1> HIDE DEF T
<1>15. \A i \in 1..Len(T) : Past(T[i])
  <2> SUFFICES ASSUME NEW i \in 1..Len(T) PROVE Past(T[i])
    OBVIOUS
  <2>1. CASE i = 1
    BY <1>1, <1>12, <1>13, <2>1
  <2>2. CASE i # 1
    <3>1. T[i] = P[i - 1] /\ i - 1 \in 1..Len(P)
      BY <1>12, <1>13, <2>2
    <3> QED
      BY <1>10, <3>1
  <2> QED
    BY <2>1, <2>2
<1>16. TapeIsInOrder'
  BY <1>0, <1>11, <1>14, <1>15 DEF TapeIsInOrder, Past
<1>17. HandlerIsSound'
  BY <1>0, <1>1, <1>5 DEF HandlerIsSound
<1>18. QueueIsARun'
  BY <1>0 DEF BusInv, QueueIsARun, Served
<1>19. LatestOn(c)' = IF R = <<>> THEN lastSeq ELSE R[Len(R)]
  <2>1. LatestOn(c)' = T[Len(T)]
    BY <1>0, <1>11 DEF LatestOn
  <2>2. CASE R = <<>>
    <3>1. Len(P) = 0
      BY <1>10, <2>2
    <3> QED
      BY <1>12, <1>13, <2>1, <2>2, <3>1
  <2>3. CASE R # <<>>
    <3>1. Len(P) > 0 /\ P[Len(P)] = R[Len(R)]
      BY <1>10, <2>3, EmptySeq
    <3>2. T[Len(T)] = P[Len(P)]
      BY <1>12, <1>13, <3>1
    <3> QED
      BY <2>1, <2>3, <3>1, <3>2
  <2> QED
    BY <2>2, <2>3
<1>20. SeamIsTight'
  <2>1. \A i \in 1..Len(queue[c]) : queue[c][i].seq <= newest
    BY DEF BusInv, QueueIsARun
  <2>2. \A i \in 1..Len(queue[c]) : queue[c][i].seq \in Nat
    <3>1. \A i \in 1..Len(queue[c]) : queue[c][i] \in Events
      BY <1>1, ElementOfSeq DEF TypeOK
    <3> QED
      BY <3>1, BusAssumption DEF Events
  <2>3. Served(c)' = Served(c) /\ Served(c) <= newest /\ queue'[c] = queue[c]
    BY <1>0, <1>1, LenProperties DEF Served, TypeOK
  <2>4. \/ LatestOn(c)' = Nothing \/ LatestOn(c)'.life < restarts
        \/ LatestOn(c)'.seq = newest
    BY <1>1, <1>2, <1>3, <1>7, <1>19 DEF Past
  <2>5. Seam(c)'
    BY <1>0, <1>5, <2>3, <2>4 DEF Seam
  <2>6. c' = c
    BY <1>0
  <2>7. \A i \in 1..Len(queue'[c]) : ~(queue'[c][i].seq > upto'[c])
    BY <1>1, <1>5, <2>1, <2>2, <2>3
  <2> QED
    BY <2>5, <2>6, <2>7 DEF SeamIsTight
<1> QED
  BY <1>16, <1>17, <1>18, <1>20
(* Subscribing and going live move no message. *)
LEMMA StandingKeeps ==
  ASSUME BusInv, current # 0, current \in Sessions,
         Subscribe(current) \/ GoLive(current)
  PROVE  TapeIsInOrder' /\ HandlerIsSound' /\ QueueIsARun' /\ SeamIsTight'
<1>1. UNCHANGED <<newest, history, since, queue, replay, upto, wire, broken, current,
                  lastSeq, view, overflowed, restarts>>
  BY DEF Subscribe, GoLive, browserVars
<1>2. /\ Tape(current)' = Tape(current) /\ LatestOn(current)' = LatestOn(current)
      /\ Served(current)' = Served(current)
  BY <1>1 DEF Tape, LatestOn, Served
<1>3. TapeIsInOrder' /\ QueueIsARun'
  BY <1>1, <1>2 DEF BusInv, TapeIsInOrder, Past, QueueIsARun
<1>4. HandlerIsSound'
  BY <1>1 DEF BusInv, TypeOK, HandlerIsSound, Subscribe, GoLive
<1>5. SeamIsTight'
  <2>1. handler'[current] \in {"replaying", "live"} => handler[current] = "replaying"
    BY DEF BusInv, TypeOK, Subscribe, GoLive
  <2> QED
    BY <1>1, <1>2, <2>1 DEF BusInv, SeamIsTight, Seam
<1> QED
  BY <1>3, <1>4, <1>5

(* The next message of the replay goes from the handler to the wire. *)
LEMMA SendReplayKeeps ==
  ASSUME BusInv, current # 0, current \in Sessions, SendReplay(current)
  PROVE  TapeIsInOrder' /\ HandlerIsSound' /\ QueueIsARun' /\ SeamIsTight'
<1> DEFINE c == current
<1>1. /\ handler[c] = "replaying" /\ replay[c] # <<>> /\ c \notin broken
      /\ wire[c] \in Seq(Numbers) /\ replay[c] \in Seq(Numbers)
  BY DEF BusInv, TypeOK, HandlerIsSound, SendReplay
<1>2. /\ wire' = [wire EXCEPT ![c] = Append(wire[c], Head(replay[c]))]
      /\ replay' = [replay EXCEPT ![c] = Tail(replay[c])]
      /\ UNCHANGED <<newest, history, handler, since, queue, upto, broken, current,
                     lastSeq, view, overflowed, restarts>>
  BY <1>1 DEF SendReplay, Send, browserVars
<1>3. wire'[c] = Append(wire[c], Head(replay[c])) /\ replay'[c] = Tail(replay[c])
  BY <1>2 DEF BusInv, TypeOK
<1>4. Append(wire[c], Head(replay[c])) \o Tail(replay[c]) = wire[c] \o replay[c]
  BY <1>1, SendingMovesOn
<1>5. Tape(c)' = Tape(c) /\ LatestOn(c)' = LatestOn(c) /\ Served(c)' = Served(c)
  BY <1>2, <1>3, <1>4 DEF Tape, LatestOn, Served
<1>6. TapeIsInOrder' /\ QueueIsARun'
  BY <1>2, <1>5 DEF BusInv, TapeIsInOrder, Past, QueueIsARun
<1>7. HandlerIsSound'
  BY <1>1, <1>2 DEF BusInv, HandlerIsSound
<1>8. SeamIsTight'
  BY <1>2, <1>5 DEF BusInv, SeamIsTight, Seam
<1> QED
  BY <1>6, <1>7, <1>8

(* The head of the queue is skipped when the snapshot already held it, and *)
(* sent when it did not: it then continues what was sent before.           *)
LEMMA SendLiveKeeps ==
  ASSUME BusInv, current # 0, current \in Sessions, SendLive(current)
  PROVE  TapeIsInOrder' /\ HandlerIsSound' /\ QueueIsARun' /\ SeamIsTight'
<1> DEFINE c == current
           Q == queue[c]
           e == Head(Q)
<1>1. /\ handler[c] = "live" /\ Q # <<>> /\ c \notin broken /\ replay[c] = <<>>
      /\ wire[c] \in Seq(Numbers) /\ Q \in Seq(Events) /\ TypeOK
  BY DEF BusInv, TypeOK, HandlerIsSound, SendLive
<1>2. /\ e \in Events /\ e = Q[1] /\ Tail(Q) \in Seq(Events)
      /\ Len(Q) \in Nat \ {0} /\ Len(Tail(Q)) = Len(Q) - 1
      /\ \A i \in 1..Len(Q) - 1 : Tail(Q)[i] = Q[i + 1]
  BY <1>1, HeadAndTail
<1>3. e \in Numbers /\ e # Reset /\ e # Nothing /\ e.life \in Nat /\ e.seq \in Nat
      /\ restarts \in Nat /\ newest \in Nat /\ upto[c] \in Nat
  <2> HIDE DEF e
  <2>1. e.seq \in 1..MaxEvents /\ e.life \in 0..MaxRestarts
    BY <1>2 DEF Events
  <2>2. e # Reset /\ e # Nothing
    BY <2>1 DEF Reset, Nothing
  <2>3. restarts \in Nat /\ newest \in Nat /\ upto[c] \in Nat
    BY <1>1, BusAssumption DEF TypeOK
  <2> QED
    BY <1>2, <2>1, <2>2, <2>3, BusAssumption DEF Numbers
<1>4. \A i \in 1..Len(Q) : Q[i] \in Events /\ Q[i].seq \in Nat
  <2>1. \A i \in 1..Len(Q) : Q[i] \in Events
    BY <1>1, ElementOfSeq
  <2> QED
    BY <2>1, BusAssumption DEF Events
<1>5. /\ \A i \in 1..Len(Q) :
           /\ Q[i].life = restarts /\ Q[i].seq <= newest
           /\ \A j \in 1..i - 1 : Q[j].seq < Q[i].seq
      /\ overflowed \/
           /\ Served(c) >= 0 /\ \A i \in 1..Len(Q) : Q[i].seq = Served(c) + i
  BY DEF BusInv, QueueIsARun
<1>6. /\ queue' = [queue EXCEPT ![c] = Tail(Q)] /\ queue'[c] = Tail(Q)
      /\ UNCHANGED <<newest, history, since, replay, upto, broken, current,
                     lastSeq, view, overflowed, restarts>>
  BY DEF SendLive, browserVars, BusInv, TypeOK
<1>7. Served(c) \in Int /\ Served(c)' = Served(c) + 1 /\ Served(c) = newest - Len(Q)
  <2>1. Served(c) = newest - Len(Q) /\ Served(c)' = newest - Len(Tail(Q))
    BY <1>6 DEF Served
  <2> HIDE DEF Q, e
  <2> QED
    BY <1>2, <1>3, <2>1
<1> HIDE DEF Q, e
<1>8. QueueIsARun'
  <2>1. ASSUME NEW i \in 1..Len(Tail(Q))
        PROVE  /\ Tail(Q)[i].life = restarts /\ Tail(Q)[i].seq <= newest
               /\ \A j \in 1..i - 1 : Tail(Q)[j].seq < Tail(Q)[i].seq
    <3>1. Tail(Q)[i] = Q[i + 1] /\ i + 1 \in 1..Len(Q)
      BY <1>2
    <3>2. \A j \in 1..i - 1 : Tail(Q)[j] = Q[j + 1] /\ j + 1 \in 1..(i + 1) - 1
      BY <1>2
    <3> QED
      BY <1>5, <3>1, <3>2
  <2>2. overflowed \/
          /\ Served(c) + 1 >= 0
          /\ \A i \in 1..Len(Tail(Q)) : Tail(Q)[i].seq = Served(c) + 1 + i
    <3>1. ASSUME NEW i \in 1..Len(Tail(Q)), Served(c) >= 0,
                 \A j \in 1..Len(Q) : Q[j].seq = Served(c) + j
          PROVE  Tail(Q)[i].seq = Served(c) + 1 + i
      <4>1. Tail(Q)[i] = Q[i + 1] /\ i + 1 \in 1..Len(Q)
        BY <1>2
      <4>2. Q[i + 1].seq = Served(c) + (i + 1)
        BY <3>1, <4>1
      <4> QED
        BY <1>7, <4>1, <4>2
    <3> QED
      BY <1>5, <1>7, <3>1
  <2>3. c' = c
    BY <1>6
  <2> QED
    BY <1>6, <1>7, <2>1, <2>2, <2>3 DEF QueueIsARun
<1>9. CASE e.seq <= upto[c]
  <2>1. UNCHANGED <<handler, wire>>
    BY <1>9 DEF SendLive, e, Q
  <2>2. Tape(c)' = Tape(c) /\ LatestOn(c)' = LatestOn(c)
    BY <1>6, <2>1 DEF Tape, LatestOn
  <2>3. TapeIsInOrder' /\ HandlerIsSound'
    BY <1>1, <1>6, <2>1, <2>2 DEF BusInv, TapeIsInOrder, Past, HandlerIsSound
  <2>4. \A i \in 1..Len(Tail(Q)) :
          Tail(Q)[i].seq > upto[c] => Before(LatestOn(c), Tail(Q)[i])
    <3>1. \A i \in 1..Len(Q) : Q[i].seq > upto[c] => Before(LatestOn(c), Q[i])
      BY <1>1 DEF BusInv, SeamIsTight, Q
    <3>2. \A i \in 1..Len(Tail(Q)) : Tail(Q)[i] = Q[i + 1] /\ i + 1 \in 1..Len(Q)
      BY <1>2
    <3> QED
      BY <3>1, <3>2
  <2>5. overflowed \/ Seam(c)'
    <3>1. overflowed \/ (Seam(c) /\ Q[1].seq = Served(c) + 1)
      BY <1>1, <1>2, <1>5 DEF BusInv, SeamIsTight
    <3> QED
      BY <1>2, <1>3, <1>6, <1>7, <1>9, <2>2, <3>1 DEF Seam
  <2> QED
    BY <1>6, <1>8, <2>1, <2>2, <2>3, <2>4, <2>5 DEF SeamIsTight
<1>10. CASE ~(e.seq <= upto[c])
  <2>1. /\ wire' = [wire EXCEPT ![c] = Append(wire[c], e)] /\ handler' = handler
        /\ wire'[c] = Append(wire[c], e)
    BY <1>1, <1>10 DEF SendLive, Send, e, Q, TypeOK
  <2>2. Tape(c)' = Append(Tape(c), e)
    <3>1. /\ wire[c] \o <<>> = wire[c]
          /\ Append(wire[c], e) \o <<>> = Append(wire[c], e)
      BY <1>1, <1>3, ConcatEmptySeq, AppendProperties
    <3>2. Tape(c) = <<lastSeq>> \o wire[c] /\ Tape(c)' = <<lastSeq>> \o Append(wire[c], e)
      BY <1>1, <1>6, <2>1, <3>1 DEF Tape
    <3>3. lastSeq \in Numbers
      BY <1>1 DEF TypeOK
    <3>4. <<lastSeq>> \o Append(wire[c], e) = Append(<<lastSeq>> \o wire[c], e)
      BY <1>1, <1>3, <3>3, AppendingComesLast
    <3> QED
      BY <3>2, <3>4
  <2>3. /\ Tape(c) \in Seq(Numbers) /\ Tape(c) # <<>> /\ Len(Tape(c)) \in Nat \ {0}
        /\ LatestOn(c) = Tape(c)[Len(Tape(c))]
    BY <1>1, TapeFacts DEF LatestOn
  <2>4. /\ Len(Tape(c)') = Len(Tape(c)) + 1 /\ LatestOn(c)' = e
        /\ \A i \in 1..Len(Tape(c)) : Tape(c)'[i] = Tape(c)[i]
        /\ Tape(c)'[Len(Tape(c)) + 1] = e
    <3>1. c' = c
      BY <1>6
    <3> QED
      BY <1>3, <2>2, <2>3, <3>1, AppendProperties DEF LatestOn
  <2>5. Link(overflowed, LatestOn(c), e)
    <3>1. Before(LatestOn(c), e)
      BY <1>1, <1>2, <1>3, <1>10 DEF BusInv, SeamIsTight, Q
    <3>2. overflowed \/ (Seam(c) /\ e.seq = Served(c) + 1 /\ e.life = restarts)
      BY <1>1, <1>2, <1>5 DEF BusInv, SeamIsTight
    <3> QED
      BY <1>3, <1>7, <1>10, <3>1, <3>2 DEF Link, Seam, Before
  <2>6. InOrder(overflowed, Tape(c)')
    BY <1>3, <2>2, <2>3, <2>5, InOrderAppend DEF BusInv, TapeIsInOrder
  <2>7. Past(e)
    BY <1>2, <1>5 DEF Past
  <2>8. TapeIsInOrder'
    <3>1. \A i \in 1..Len(Tape(c)) : Past(Tape(c)[i])
      BY DEF BusInv, TapeIsInOrder
    <3>2. \A i \in 1..Len(Tape(c)) + 1 : Past(Tape(c)'[i])
      BY <2>3, <2>4, <2>7, <3>1
    <3> QED
      BY <1>6, <2>4, <2>6, <3>2 DEF TapeIsInOrder, Past
  <2>9. HandlerIsSound'
    BY <1>1, <1>6, <2>1 DEF HandlerIsSound
  <2>10. \A i \in 1..Len(Tail(Q)) : Before(e, Tail(Q)[i])
    <3> SUFFICES ASSUME NEW i \in 1..Len(Tail(Q)) PROVE Before(e, Tail(Q)[i])
      OBVIOUS
    <3>1. Tail(Q)[i] = Q[i + 1] /\ i + 1 \in 1..Len(Q) /\ 1 \in 1..Len(Q)
          /\ 1 \in 1..(i + 1) - 1
      BY <1>2
    <3> QED
      BY <1>2, <1>5, <3>1 DEF Before
  <2>11. overflowed \/ Seam(c)'
    <3>1. overflowed \/ e.seq = Served(c) + 1
      BY <1>2, <1>5
    <3> QED
      BY <1>3, <1>6, <1>7, <1>10, <2>4, <3>1 DEF Seam
  <2> QED
    BY <1>6, <1>8, <2>4, <2>8, <2>9, <2>10, <2>11 DEF SeamIsTight
<1> QED
  BY <1>9, <1>10
(* A step of the open session's handler. *)
LEMMA OpenHandlerKeeps ==
  ASSUME BusInv, current # 0, current \in Sessions, Handle(current)
  PROVE  BusInv'
<1>1. UNCHANGED <<newest, history, restarts, overflowed, current, lastSeq, view, broken, since>>
  BY DEF Handle, Subscribe, TakeSnapshot, SendReplay, GoLive, SendLive, browserVars
<1>2. /\ handler[current] # "unused" /\ handler'[current] # "unused"
      /\ \A r \in Sessions \ {current} :
           /\ handler'[r] = handler[r] /\ queue'[r] = queue[r]
           /\ replay'[r] = replay[r] /\ wire'[r] = wire[r]
  BY DEF Handle, Subscribe, TakeSnapshot, SendReplay, GoLive, SendLive, Send, BusInv, TypeOK
<1>3. TypeOK'
  BY HandleTypes
<1>4. UnusedAreClean'
  BY <1>1, <1>2, UnusedKeeps
<1>5. HistoryIsARun' /\ PaneEndsWithLastSeq' /\ NoRepeat' /\ NoGap'
  BY <1>1, PaneKeeps
<1>6. TapeIsInOrder' /\ HandlerIsSound' /\ QueueIsARun' /\ SeamIsTight'
  BY TakeSnapshotKeeps, StandingKeeps, SendReplayKeeps, SendLiveKeeps DEF Handle
<1> QED
  BY <1>3, <1>4, <1>5, <1>6 DEF BusInv

-----------------------------------------------------------------------------
(* The bus and the browser *)

(* A new event continues the history and every queue that has room; for    *)
(* a queue that has none it is lost.                                       *)
LEMMA PublishKeeps ==
  ASSUME BusInv, Publish
  PROVE  BusInv'
<1> DEFINE e == [life |-> restarts, seq |-> newest + 1]
           c == current
           Q == queue[c]
<1>1. /\ newest < MaxEvents /\ newest' = newest + 1 /\ history' = Buffered(e)
      /\ queue' = [s \in Sessions |->
            IF Subscribed(s) /\ Len(queue[s]) < QueueSize
            THEN Append(queue[s], e) ELSE queue[s]]
      /\ overflowed' = (overflowed \/ \E s \in Sessions :
                          s = current /\ Subscribed(s) /\ Len(queue[s]) = QueueSize)
      /\ UNCHANGED <<handler, since, replay, upto, wire, broken, current, lastSeq,
                     view, restarts>>
  BY DEF Publish, browserVars
<1>2. TypeOK'
  BY PublishTypes
<1>3. /\ TypeOK /\ newest \in Nat /\ restarts \in Nat /\ lastSeq \in Numbers
      /\ QueueSize \in Nat
  BY BusAssumption DEF BusInv, TypeOK
<1>4. HistoryIsARun'
  BY <1>1, <1>3, BufferedIsARun DEF BusInv, HistoryIsARun
<1>5. UnusedAreClean'
  BY <1>1 DEF BusInv, UnusedAreClean, Subscribed
<1>6. \A m : Past(m) => m.life < restarts \/ (m.life = restarts /\ m.seq <= newest)
  BY DEF Past
<1>7. \A m \in Numbers : Past(m) => Past(m)'
  <2>1. \A m \in Numbers : m.seq \in Nat
    BY BusAssumption DEF Numbers, Events, Nothing
  <2> QED
    BY <1>1, <1>3, <2>1 DEF Past
<1>8. PaneEndsWithLastSeq' /\ NoRepeat' /\ NoGap'
  BY <1>1, <1>3, <1>7 DEF BusInv, PaneEndsWithLastSeq, NoRepeat, NoGap
<1>9. CASE c = 0
  BY <1>1, <1>2, <1>4, <1>5, <1>8, <1>9
  DEF BusInv, TapeIsInOrder, HandlerIsSound, QueueIsARun, SeamIsTight
<1>10. CASE c # 0
  <2>1. c \in Sessions /\ c' = c
    BY <1>1, <1>3, <1>10 DEF TypeOK
  <2>2. Tape(c)' = Tape(c) /\ LatestOn(c)' = LatestOn(c)
    BY <1>1 DEF Tape, LatestOn
  <2>3. /\ Tape(c) \in Seq(Numbers) /\ LatestOn(c) \in Numbers
        /\ LatestOn(c) = Tape(c)[Len(Tape(c))] /\ Len(Tape(c)) \in Nat \ {0}
    BY <1>3, <2>1, TapeFacts DEF LatestOn
  <2>4. /\ InOrder(overflowed, Tape(c))
        /\ \A i \in 1..Len(Tape(c)) : Tape(c)[i] \in Numbers /\ Past(Tape(c)[i])
    BY <1>10, <2>3, ElementOfSeq DEF BusInv, TapeIsInOrder
  <2>5. InOrder(overflowed', Tape(c))
    BY <1>1, <2>4 DEF InOrder, Link
  <2>6. TapeIsInOrder'
    BY <1>7, <2>1, <2>2, <2>4, <2>5 DEF TapeIsInOrder
  <2>7. HandlerIsSound'
    BY <1>1, <1>10, <2>1 DEF BusInv, HandlerIsSound, Subscribed
  <2>8. /\ Q \in Seq(Events) /\ Len(Q) \in Nat /\ Len(Q) <= QueueSize
        /\ \A i \in 1..Len(Q) : Q[i] \in Events /\ Q[i].seq \in Nat
    <3>1. Q \in Seq(Events) /\ Len(Q) <= QueueSize
      BY <1>3, <2>1 DEF TypeOK
    <3>2. Len(Q) \in Nat /\ \A i \in 1..Len(Q) : Q[i] \in Events
      BY <3>1, LenProperties, ElementOfSeq
    <3> QED
      BY <3>1, <3>2, BusAssumption DEF Events
  <2>9. /\ \A i \in 1..Len(Q) :
             /\ Q[i].life = restarts /\ Q[i].seq <= newest
             /\ \A j \in 1..i - 1 : Q[j].seq < Q[i].seq
        /\ overflowed \/
             /\ newest - Len(Q) >= 0
             /\ \A i \in 1..Len(Q) : Q[i].seq = newest - Len(Q) + i
    BY <1>10 DEF BusInv, QueueIsARun, Served
  <2>10. e \in Events /\ e.life = restarts /\ e.seq = newest + 1
    BY <1>1, <1>3, BufferedIsARun DEF BusInv
  <2>11. Before(LatestOn(c), e)
    <3>1. Past(LatestOn(c)) /\ LatestOn(c).seq \in Nat
      BY <2>3, <2>4, BusAssumption DEF Numbers, Events, Nothing
    <3> QED
      BY <1>3, <2>10, <3>1 DEF Past, Before
  <2>12. handler[c] \in {"replaying", "live"} =>
           /\ \A i \in 1..Len(Q) : Q[i].seq > upto[c] => Before(LatestOn(c), Q[i])
           /\ overflowed \/ Seam(c)
    BY <1>10 DEF BusInv, SeamIsTight
  <2> HIDE DEF e, Q
  <2>13. Served(c)' = newest + 1 - Len(queue'[c])
    <3>1. newest' = newest + 1 /\ current' = current
      BY <1>1
    <3>2. Served(c)' = newest' - Len(queue'[c])
      BY <3>1 DEF Served
    <3> QED
      BY <1>3, <3>1, <3>2
  <2>14. CASE Subscribed(c) /\ Len(Q) < QueueSize
    <3> DEFINE q == Append(Q, e)
    <3>1. queue'[c] = q
      BY <1>1, <2>1, <2>14 DEF Q
    <3>2. /\ Len(q) = Len(Q) + 1 /\ \A i \in 1..Len(Q) : q[i] = Q[i]
          /\ q[Len(Q) + 1] = e
      BY <2>8, <2>10, AppendProperties
    <3> HIDE DEF q
    <3>3. newest + 1 - Len(q) = newest - Len(Q) /\ Served(c)' = newest - Len(Q)
          /\ Served(c) = newest - Len(Q)
      <4>1. Served(c)' = newest + 1 - Len(q)
        BY <2>13, <3>1
      <4>2. newest + 1 - Len(q) = newest - Len(Q)
        BY <1>3, <2>8, <3>2
      <4> QED
        BY <4>1, <4>2 DEF Served, Q
    <3>4. \A i \in 1..Len(q) :
            /\ q[i].life = restarts /\ q[i].seq <= newest + 1
            /\ \A j \in 1..i - 1 : q[j].seq < q[i].seq
      <4> SUFFICES ASSUME NEW i \in 1..Len(q)
                   PROVE  /\ q[i].life = restarts /\ q[i].seq <= newest + 1
                          /\ \A j \in 1..i - 1 : q[j].seq < q[i].seq
        OBVIOUS
      <4>1. CASE i \in 1..Len(Q)
        <5>1. q[i] = Q[i] /\ \A j \in 1..i - 1 : j \in 1..Len(Q) /\ q[j] = Q[j]
          BY <2>8, <3>2, <4>1
        <5> QED
          BY <1>3, <2>8, <2>9, <4>1, <5>1
      <4>2. CASE i = Len(Q) + 1
        <5>1. q[i] = e /\ \A j \in 1..i - 1 : j \in 1..Len(Q) /\ q[j] = Q[j]
          BY <2>8, <3>2, <4>2
        <5> QED
          BY <1>3, <2>8, <2>9, <2>10, <5>1
      <4> QED
        BY <2>8, <3>2, <4>1, <4>2
    <3>5. overflowed \/
            /\ newest - Len(Q) >= 0
            /\ \A i \in 1..Len(q) : q[i].seq = newest - Len(Q) + i
      <4>1. ASSUME NEW i \in 1..Len(q), ~overflowed
            PROVE  q[i].seq = newest - Len(Q) + i
        <5>1. CASE i \in 1..Len(Q)
          BY <2>9, <3>2, <4>1, <5>1
        <5>2. CASE i = Len(Q) + 1
          <6>1. newest - Len(Q) + i = newest + 1
            BY <1>3, <2>8, <5>2
          <6> QED
            BY <2>10, <3>2, <5>2, <6>1
        <5> QED
          BY <2>8, <3>2, <5>1, <5>2
      <4> QED
        BY <2>9, <4>1
    <3>6. QueueIsARun'
      BY <1>1, <2>1, <3>1, <3>3, <3>4, <3>5 DEF QueueIsARun
    <3>7. handler[c] \in {"replaying", "live"} =>
            \A i \in 1..Len(q) : q[i].seq > upto[c] => Before(LatestOn(c), q[i])
      <4> SUFFICES ASSUME handler[c] \in {"replaying", "live"}, NEW i \in 1..Len(q),
                          q[i].seq > upto[c]
                   PROVE  Before(LatestOn(c), q[i])
        OBVIOUS
      <4>1. i \in 1..Len(Q) \/ q[i] = e
        BY <2>8, <3>2
      <4> QED
        BY <2>11, <2>12, <3>2, <4>1
    <3>8. SeamIsTight'
      BY <1>1, <2>1, <2>2, <2>12, <3>1, <3>3, <3>7 DEF SeamIsTight, Seam
    <3> QED
      BY <1>2, <1>4, <1>5, <1>8, <2>6, <2>7, <3>6, <3>8 DEF BusInv
  <2>15. CASE Subscribed(c) /\ ~(Len(Q) < QueueSize)
    <3>1. overflowed' = TRUE
      <4>1. Len(queue[c]) = QueueSize /\ Subscribed(c)
        BY <1>3, <2>8, <2>15 DEF Q
      <4> QED
        BY <1>1, <2>1, <4>1
    <3>2. queue'[c] = Q
      BY <1>1, <2>1, <2>15 DEF Q
    <3>3. QueueIsARun'
      <4>1. \A i \in 1..Len(Q) :
              /\ Q[i].life = restarts /\ Q[i].seq <= newest + 1
              /\ \A j \in 1..i - 1 : Q[j].seq < Q[i].seq
        BY <1>3, <2>8, <2>9
      <4>2. newest' = newest + 1 /\ current' = current /\ restarts' = restarts
        BY <1>1
      <4> QED
        BY <3>1, <3>2, <4>1, <4>2 DEF QueueIsARun
    <3>4. SeamIsTight'
      BY <1>1, <2>1, <2>2, <2>12, <3>1, <3>2 DEF SeamIsTight
    <3> QED
      BY <1>2, <1>4, <1>5, <1>8, <2>6, <2>7, <3>3, <3>4 DEF BusInv
  <2>16. CASE ~Subscribed(c)
    <3>1. Q = <<>> /\ handler[c] \notin {"replaying", "live"}
      BY <1>3, <1>10, <2>1, <2>16 DEF BusInv, HandlerIsSound, Subscribed, TypeOK, Q
    <3>2. queue'[c] = <<>>
      BY <1>1, <2>1, <2>16, <3>1 DEF Q
    <3>3. Served(c)' = newest + 1
      BY <1>3, <2>13, <3>2, EmptySeq
    <3>4. QueueIsARun'
      BY <1>1, <1>3, <2>1, <3>2, <3>3, EmptySeq DEF QueueIsARun
    <3>5. SeamIsTight'
      BY <1>1, <2>1, <3>1 DEF SeamIsTight
    <3> QED
      BY <1>2, <1>4, <1>5, <1>8, <2>6, <2>7, <3>4, <3>5 DEF BusInv
  <2> QED
    BY <2>14, <2>15, <2>16
<1> QED
  BY <1>9, <1>10
(* What the browser receives continues what it has shown, or clears it. *)
LEMMA ReceiveKeeps ==
  ASSUME BusInv, Receive
  PROVE  BusInv'
<1> DEFINE c == current
           m == Head(wire[c])
<1>1. /\ c # 0 /\ c \in Sessions /\ wire[c] # <<>> /\ wire[c] \in Seq(Numbers)
      /\ replay[c] \in Seq(Numbers) /\ TypeOK
  BY DEF Receive, BusInv, TypeOK
<1>2. /\ lastSeq' = m /\ view' = (IF m = Reset THEN <<>> ELSE Append(view, m))
      /\ wire' = [wire EXCEPT ![c] = Tail(wire[c])] /\ wire'[c] = Tail(wire[c])
      /\ UNCHANGED <<newest, history, handler, since, queue, replay, upto, broken,
                     current, overflowed, restarts>>
  BY <1>1 DEF Receive, serverVars, TypeOK
<1>3. m \in Numbers /\ Tail(wire[c]) \in Seq(Numbers)
  BY <1>1, HeadAndTail
<1> DEFINE t == wire[c] \o replay[c]
<1>4. t \in Seq(Numbers) /\ Len(t) \in Nat \ {0} /\ t[1] = m
  BY <1>1, ReceivingMovesOn
<1>5. Tape(c)' = t
  <2>1. ASSUME NEW w \in Seq(Numbers), w # <<>>, NEW r \in Seq(Numbers)
        PROVE  w \o r = <<Head(w)>> \o (Tail(w) \o r)
    BY <2>1, ReceivingMovesOn
  <2>2. t = <<m>> \o (Tail(wire[c]) \o replay[c])
    BY <1>1, <2>1
  <2> HIDE DEF t
  <2> QED
    BY <1>2, <2>2 DEF Tape
<1> HIDE DEF m, t
<1>6. Tape(c) = <<lastSeq>> \o t /\ lastSeq \in Numbers
  BY <1>1 DEF Tape, t, TypeOK
<1>7. /\ Len(Tape(c)) = Len(t) + 1 /\ Tape(c)[1] = lastSeq
      /\ \A i \in 1..Len(t) : Tape(c)[i + 1] = t[i]
  BY <1>4, <1>6, ConsShifts
<1>8. /\ InOrder(overflowed, Tape(c))
      /\ \A i \in 1..Len(Tape(c)) : Past(Tape(c)[i])
  BY <1>1 DEF BusInv, TapeIsInOrder
<1>9. InOrder(overflowed, t) /\ \A i \in 1..Len(t) : Past(t[i])
  <2>1. ASSUME NEW i \in 1..Len(t) - 1 PROVE Link(overflowed, t[i], t[i + 1])
    <3>1. i + 1 \in 1..Len(Tape(c)) - 1 /\ i \in 1..Len(t) /\ i + 1 \in 1..Len(t)
      BY <1>4, <1>7
    <3>2. Link(overflowed, Tape(c)[i + 1], Tape(c)[(i + 1) + 1])
      BY <1>8, <3>1 DEF InOrder
    <3> QED
      BY <1>7, <3>1, <3>2
  <2>2. ASSUME NEW i \in 1..Len(t) PROVE Past(t[i])
    <3>1. i + 1 \in 1..Len(Tape(c)) /\ Tape(c)[i + 1] = t[i]
      BY <1>4, <1>7
    <3> QED
      BY <1>8, <3>1
  <2> QED
    BY <2>1, <2>2 DEF InOrder
<1>10. Link(overflowed, lastSeq, m) /\ Past(m)
  <2>1. 1 \in 1..Len(Tape(c)) - 1 /\ 1 \in 1..Len(t)
    BY <1>4, <1>7
  <2>2. Link(overflowed, Tape(c)[1], Tape(c)[1 + 1])
    BY <1>8, <2>1 DEF InOrder
  <2> QED
    BY <1>4, <1>7, <1>9, <2>1, <2>2
<1>11. LatestOn(c)' = LatestOn(c)
  <2>1. LatestOn(c)' = t[Len(t)]
    BY <1>2, <1>5 DEF LatestOn
  <2>2. Len(t) \in 1..Len(t) /\ Len(Tape(c)) = Len(t) + 1
    BY <1>4, <1>7
  <2> QED
    BY <1>7, <2>1, <2>2 DEF LatestOn
<1>12. TypeOK'
  BY BrowserTypes
<1>13. HistoryIsARun'
  BY <1>2 DEF BusInv, HistoryIsARun
<1>14. UnusedAreClean'
  BY <1>1, <1>2 DEF BusInv, UnusedAreClean, TypeOK
<1>15. TapeIsInOrder'
  BY <1>2, <1>5, <1>9 DEF TapeIsInOrder, Past
<1>16. HandlerIsSound'
  <2>1. handler[c] \notin {"accepted", "subscribed"}
    BY <1>1 DEF BusInv, HandlerIsSound
  <2> QED
    BY <1>1, <1>2, <2>1 DEF BusInv, HandlerIsSound
<1>17. QueueIsARun'
  BY <1>2 DEF BusInv, QueueIsARun, Served
<1>18. SeamIsTight'
  <2>1. Served(c)' = Served(c)
    BY <1>2 DEF Served
  <2> QED
    BY <1>1, <1>2, <1>11, <2>1 DEF BusInv, SeamIsTight, Seam
<1>19. PaneEndsWithLastSeq' /\ NoRepeat' /\ NoGap'
  <2>1. m.life < restarts \/ (m.life = restarts /\ m.seq <= newest)
    BY <1>10 DEF Past
  <2>2. CASE m = Reset
    BY <1>2, <2>1, <2>2 DEF PaneEndsWithLastSeq, NoRepeat, NoGap, Past
  <2>3. CASE m # Reset
    <3>1. m \in Events /\ view \in Seq(Events)
      BY <1>1, <1>3, <2>3 DEF Numbers, Reset, TypeOK
    <3>2. /\ view' = Append(view, m) /\ Len(view') = Len(view) + 1 /\ Len(view) \in Nat
          /\ \A i \in 1..Len(view) : view'[i] = view[i]
          /\ view'[Len(view) + 1] = m
      BY <1>2, <2>3, <3>1, AppendProperties, LenProperties
    <3>3. /\ Before(lastSeq, m)
          /\ overflowed \/ lastSeq = Nothing \/ (lastSeq.life = m.life => m.seq = lastSeq.seq + 1)
      BY <1>10, <2>3 DEF Link
    <3>4. Len(view) > 0 => lastSeq = view[Len(view)] /\ lastSeq # Nothing
      <4> HAVE Len(view) > 0
      <4>1. view # <<>> /\ Len(view) \in 1..Len(view)
        BY <3>1, <3>2, EmptySeq
      <4>2. lastSeq = view[Len(view)] /\ view[Len(view)] \in Events
        BY <3>1, <4>1, ElementOfSeq DEF BusInv, PaneEndsWithLastSeq
      <4> QED
        BY <4>2, BusAssumption DEF Events, Nothing
    <3>5. ASSUME NEW i \in 1..Len(view') - 1
          PROVE  /\ Before(view'[i], view'[i + 1])
                 /\ overflowed \/ (view'[i].life = view'[i + 1].life
                                     => view'[i + 1].seq = view'[i].seq + 1)
      <4>1. CASE i < Len(view)
        <5>1. /\ i \in 1..Len(view) - 1
              /\ view'[i] = view[i] /\ view'[i + 1] = view[i + 1]
          BY <3>2, <4>1
        <5> QED
          BY <5>1 DEF BusInv, NoRepeat, NoGap
      <4>2. CASE ~(i < Len(view))
        <5>1. i = Len(view) /\ Len(view) > 0
          BY <3>2, <4>2
        <5>2. view'[i] = lastSeq /\ view'[i + 1] = m /\ lastSeq # Nothing
          BY <3>2, <3>4, <5>1
        <5> QED
          BY <3>3, <5>2
      <4> QED
        BY <4>1, <4>2
    <3>6. lastSeq' = view'[Len(view')]
      BY <1>2, <3>2
    <3> QED
      BY <1>2, <2>1, <3>5, <3>6 DEF PaneEndsWithLastSeq, NoRepeat, NoGap, Past
  <2> QED
    BY <2>2, <2>3
<1> QED
  BY <1>12, <1>13, <1>14, <1>15, <1>16, <1>17, <1>18, <1>19 DEF BusInv
(* A new socket starts with nothing on its way and asks for what follows   *)
(* the number shown last; only a reconnect keeps the pane.                 *)
LEMMA OpenKeeps ==
  ASSUME BusInv, NEW resumeOnly \in BOOLEAN, Open(resumeOnly)
  PROVE  BusInv'
<1> PICK s \in Sessions :
      /\ handler[s] = "unused"
      /\ handler' = [handler EXCEPT ![s] = "accepted"]
      /\ since' = [since EXCEPT ![s] = lastSeq]
      /\ broken' = (IF current = 0 THEN broken ELSE broken \cup {current})
      /\ current' = s
      /\ view' = (IF resumeOnly THEN view ELSE <<>>)
      /\ wire' = (IF current = 0 THEN wire ELSE [wire EXCEPT ![current] = <<>>])
      /\ overflowed' = (resumeOnly /\ overflowed)
      /\ UNCHANGED <<newest, history, queue, replay, upto, lastSeq, restarts>>
  BY DEF Open
<1>1. /\ TypeOK /\ TypeOK' /\ s \notin broken /\ s # current
      /\ queue[s] = <<>> /\ replay[s] = <<>> /\ wire[s] = <<>> /\ s # 0
      /\ lastSeq \in Numbers /\ newest \in Nat /\ Past(lastSeq)
  <2>1. TypeOK /\ TypeOK'
    BY BrowserTypes DEF BusInv
  <2>2. /\ s \notin broken /\ s # current
        /\ queue[s] = <<>> /\ replay[s] = <<>> /\ wire[s] = <<>>
    BY DEF BusInv, UnusedAreClean
  <2>3. lastSeq \in Numbers /\ newest \in Nat /\ Past(lastSeq)
    BY BusAssumption DEF BusInv, TypeOK, PaneEndsWithLastSeq
  <2>4. s # 0
    BY DEF Sessions
  <2> QED
    BY <2>1, <2>2, <2>3, <2>4
<1>2. /\ handler'[s] = "accepted" /\ since'[s] = lastSeq /\ s \notin broken'
      /\ wire'[s] = <<>> /\ queue'[s] = <<>> /\ replay'[s] = <<>>
  BY <1>1 DEF TypeOK
<1>3. HistoryIsARun'
  BY DEF BusInv, HistoryIsARun
<1>4. UnusedAreClean'
  BY <1>1 DEF BusInv, UnusedAreClean, TypeOK
<1>5. Tape(s)' = <<lastSeq>>
  <2>1. <<>> \o <<>> = <<>> /\ <<lastSeq>> \o <<>> = <<lastSeq>>
    BY <1>1, EmptySeq, ConcatEmptySeq
  <2> QED
    BY <1>2, <2>1 DEF Tape
<1>6. TapeIsInOrder'
  <2>1. Len(<<lastSeq>>) = 1 /\ <<lastSeq>>[1] = lastSeq
    OBVIOUS
  <2>2. InOrder(overflowed', <<lastSeq>>)
    BY <2>1 DEF InOrder
  <2> QED
    BY <1>1, <1>5, <2>1, <2>2 DEF TapeIsInOrder, Past
<1>7. HandlerIsSound'
  BY <1>2 DEF HandlerIsSound
<1>8. QueueIsARun'
  <2>1. Served(s)' = newest
    BY <1>1, <1>2, EmptySeq DEF Served
  <2> QED
    BY <1>1, <1>2, <2>1, EmptySeq DEF QueueIsARun
<1>9. SeamIsTight'
  BY <1>2 DEF SeamIsTight
<1>10. PaneEndsWithLastSeq' /\ NoRepeat' /\ NoGap'
  <2>1. CASE resumeOnly
    BY <2>1 DEF BusInv, PaneEndsWithLastSeq, NoRepeat, NoGap, Past
  <2>2. CASE ~resumeOnly
    BY <1>1, <2>2, EmptySeq DEF PaneEndsWithLastSeq, NoRepeat, NoGap, Past
  <2> QED
    BY <2>1, <2>2
<1> QED
  BY <1>1, <1>3, <1>4, <1>6, <1>7, <1>8, <1>9, <1>10 DEF BusInv

(* Without a socket only the pane and the history are left. *)
LEMMA ClosingKeeps ==
  ASSUME BusInv, Disconnect \/ Restart
  PROVE  BusInv'
<1>1. TypeOK'
  BY BrowserTypes
<1>2. current' = 0
  BY DEF Disconnect, Restart
<1>3. TapeIsInOrder' /\ HandlerIsSound' /\ QueueIsARun' /\ SeamIsTight'
  BY <1>2 DEF TapeIsInOrder, HandlerIsSound, QueueIsARun, SeamIsTight
<1>4. HistoryIsARun'
  BY EmptySeq DEF BusInv, HistoryIsARun, Disconnect, Restart, serverVars
<1>5. UnusedAreClean'
  <2>1. current = 0 \/ handler[current] # "unused"
    BY DEF BusInv, HandlerIsSound
  <2>2. \A s \in Sessions : s # 0
    BY DEF Sessions
  <2>3. CASE Disconnect
    BY <1>2, <2>1, <2>2, <2>3 DEF BusInv, UnusedAreClean, TypeOK, Disconnect, serverVars
  <2>4. CASE Restart
    BY <1>2, <2>1, <2>2, <2>4 DEF BusInv, UnusedAreClean, TypeOK, Restart
  <2> QED
    BY <2>3, <2>4
<1>6. Past(lastSeq)'
  <2>1. Past(lastSeq) /\ lastSeq.life \in Nat /\ restarts \in Nat
    BY BusAssumption DEF BusInv, PaneEndsWithLastSeq, TypeOK, Numbers, Events, Nothing
  <2>2. CASE Disconnect
    BY <2>1, <2>2 DEF Disconnect, serverVars, Past
  <2>3. CASE Restart
    BY <2>1, <2>3 DEF Restart, Past
  <2> QED
    BY <2>2, <2>3
<1>7. PaneEndsWithLastSeq' /\ NoRepeat' /\ NoGap'
  BY <1>6 DEF BusInv, Disconnect, Restart, PaneEndsWithLastSeq, NoRepeat, NoGap
<1> QED
  BY <1>1, <1>3, <1>4, <1>5, <1>7 DEF BusInv

-----------------------------------------------------------------------------
(* Nothing has happened: everything is empty and in order. *)
LEMMA InitBusInv == Init => BusInv
<1> SUFFICES ASSUME Init PROVE BusInv
  OBVIOUS
<1>1. <<>> \in Seq(Events) /\ <<>> \in Seq(Numbers) /\ Len(<<>>) = 0
  BY EmptySeq
<1>2. TypeOK
  <2>1. Nothing \in Numbers /\ 0 \in 0..MaxEvents /\ 0 \in 0..MaxRestarts
        /\ 0 <= HistorySize /\ 0 <= QueueSize
    BY BusAssumption DEF Numbers
  <2>2. /\ history \in Seq(Events) /\ Len(history) <= HistorySize
        /\ queue \in [Sessions -> Seq(Events)]
        /\ \A s \in Sessions : Len(queue[s]) <= QueueSize
        /\ replay \in [Sessions -> Seq(Numbers)] /\ wire \in [Sessions -> Seq(Numbers)]
        /\ view \in Seq(Events)
    BY <1>1, <2>1 DEF Init
  <2>3. since \in [Sessions -> Numbers] /\ upto \in [Sessions -> 0..MaxEvents]
    BY <2>1 DEF Init
  <2> QED
    BY <2>1, <2>2, <2>3 DEF Init, TypeOK
<1>3. HistoryIsARun
  BY <1>1 DEF Init, HistoryIsARun
<1>4. UnusedAreClean
  BY DEF Init, UnusedAreClean, Sessions
<1>5. TapeIsInOrder /\ HandlerIsSound /\ QueueIsARun /\ SeamIsTight
  BY DEF Init, TapeIsInOrder, HandlerIsSound, QueueIsARun, SeamIsTight
<1>6. PaneEndsWithLastSeq /\ NoRepeat /\ NoGap
  BY <1>1 DEF Init, PaneEndsWithLastSeq, NoRepeat, NoGap, Past, Nothing
<1> QED
  BY <1>2, <1>3, <1>4, <1>5, <1>6 DEF BusInv

(* BusInv is inductive: one case per action. *)
LEMMA NextKeepsBusInv == BusInv /\ [Next]_busVars => BusInv'
<1> SUFFICES ASSUME BusInv, [Next]_busVars PROVE BusInv'
  OBVIOUS
<1>1. CASE Publish
  BY <1>1, PublishKeeps
<1>2. ASSUME NEW s \in Sessions, Handle(s) PROVE BusInv'
  <2>1. CASE s = current
    <3>1. current # 0
      BY <2>1 DEF Sessions
    <3> QED
      BY <1>2, <2>1, <3>1, OpenHandlerKeeps
  <2>2. CASE s # current
    BY <1>2, <2>2, OtherHandlerKeeps
  <2> QED
    BY <2>1, <2>2
<1>3. ASSUME NEW resumeOnly \in BOOLEAN, Open(resumeOnly) PROVE BusInv'
  BY <1>3, OpenKeeps
<1>4. CASE Receive
  BY <1>4, ReceiveKeeps
<1>5. CASE Disconnect \/ Restart
  BY <1>5, ClosingKeeps
<1>6. CASE UNCHANGED busVars
  <2>1. UNCHANGED <<newest, history, handler, since, queue, replay, upto, wire, broken,
                    current, lastSeq, view, overflowed, restarts>>
    BY <1>6 DEF busVars, serverVars, browserVars
  <2>2. TypeOK' /\ UnusedAreClean'
    BY <2>1 DEF BusInv, TypeOK, UnusedAreClean
  <2>3. HistoryIsARun' /\ PaneEndsWithLastSeq' /\ NoRepeat' /\ NoGap'
    BY <2>1, PaneKeeps
  <2>4. TapeIsInOrder' /\ HandlerIsSound' /\ QueueIsARun' /\ SeamIsTight'
    BY <2>1, StreamKeeps
  <2> QED
    BY <2>2, <2>3, <2>4 DEF BusInv
<1> QED
  BY <1>1, <1>2, <1>3, <1>4, <1>5, <1>6 DEF Next

(* Every reachable state of the stream satisfies the inductive invariant.  *)
THEOREM BusInvHolds == Spec => []BusInv
BY InitBusInv, NextKeepsBusInv, PTL DEF Spec

(* The variables of the bus, its handlers and the browser stay in their    *)
(* domains: the history and every queue keep to their sizes.               *)
THEOREM BusTypeOK == Spec => []TypeOK
<1>1. BusInv => TypeOK
  BY DEF BusInv
<1> QED
  BY <1>1, BusInvHolds, PTL

(* No line is shown twice or out of order, through replays that overlap    *)
(* the live queue, overflows, lost connections, resets and restarts.       *)
THEOREM NoLineIsShownTwice == Spec => []NoRepeat
<1>1. BusInv => NoRepeat
  BY DEF BusInv
<1> QED
  BY <1>1, BusInvHolds, PTL

(* Unless a queue overflowed no line is missing from the pane within one   *)
(* life of the server: every resume continues with the very next event.    *)
THEOREM NoLineIsMissing == Spec => []NoGap
<1>1. BusInv => NoGap
  BY DEF BusInv
<1> QED
  BY <1>1, BusInvHolds, PTL
=============================================================================
