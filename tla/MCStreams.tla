----------------------------- MODULE MCStreams ------------------------------
(***************************************************************************)
(* The two kinds of event streams, for model checking: the log of an       *)
(* install, which the event bus numbers and replays, and the stream of a   *)
(* provisioning job, a queue that every reader takes from.  They share     *)
(* nothing, and the run follows one of them at a time.                     *)
(***************************************************************************)
EXTENDS EventBus, AiProvisioning

VARIABLE part

streamVars == <<part, busVars, provisionVars>>

StreamsInit == part \in {"log", "provision"} /\ Init /\ ProvisionInit

StreamsNext ==
  \/ part = "log" /\ Next /\ UNCHANGED <<part, provisionVars>>
  \/ part = "provision" /\ ProvisionNext /\ UNCHANGED <<part, busVars>>

(* The fairness of the one that is followed; the other one does nothing.   *)
LogTurn(A) == part = "log" /\ A /\ UNCHANGED <<part, provisionVars>>
ProvisionTurn(A) == part = "provision" /\ A /\ UNCHANGED <<part, busVars>>

StreamsSpec ==
  /\ StreamsInit /\ [][StreamsNext]_streamVars
  /\ WF_streamVars(LogTurn(Receive))
  /\ \A s \in Sessions : WF_streamVars(LogTurn(Handle(s)))
  /\ \A v \in Viewers :
       WF_streamVars(ProvisionTurn(Take(v) \/ Heartbeat(v)))
=============================================================================
