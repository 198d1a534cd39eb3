----------------------------- MODULE Detectors ------------------------------
(***************************************************************************)
(* The event and network detectors, the firewall driver and the guest      *)
(* agent's stream, fed by one clock.  run_live_sentinel_daemon_ext gives   *)
(* each consumer a mutex of its own, the agent is another process, and     *)
(* none reads what another holds, so a behaviour of all is one of each:    *)
(* the model feeds one of them at a time.                                  *)
(***************************************************************************)
EXTENDS Events, Beacon, Wfp, GuestAgent

VARIABLE feed  \* whose inputs this behaviour has

detectorVars ==
  <<now, inputs, feed, eventVars, beaconVars, wfpVars, agentVars>>

Feeds == {"events", "packets", "commands", "writes"}

DetectorsInit ==
  /\ now = 0 /\ inputs = 0 /\ feed \in Feeds
  /\ EventsInit /\ BeaconInit /\ WfpInit /\ AgentInit

Input == inputs < MaxInputs /\ inputs' = inputs + 1

\* Only events and packets are stamped.
Tick ==
  /\ feed \in {"events", "packets"} /\ now < MaxTime
  /\ now' = now + 1
  /\ UNCHANGED <<inputs, feed, eventVars, beaconVars, wfpVars, agentVars>>

EventsNext ==
  /\ Input
  /\ \E kind \in EventIds, user \in Users, t \in Stamps :
       IngestEvent(SecurityEventRecord(kind, t, user))

BeaconNext ==
  \/ /\ Input
     /\ \E p \in Packets, t \in Stamps :
          IngestPacket([key |-> p.key, direction |-> p.direction,
                        small |-> p.small, ts |-> t])
  \/ seen # <<>> /\ ClearFlows /\ UNCHANGED inputs

\* Commands of the operator count as inputs.  An id is released by whom it was
\* given to, any number of times, or is one that was never given out.
WfpNext ==
  /\ Input
  /\ \/ OpenEngine \/ DropDriver
     \/ \E t \in Targets : AddQuarantine(t)
     \/ \E n \in DOMAIN issued : RemoveQuarantine(issued[n].id, n)
     \/ \E id \in 0 .. MaxInputs :
          /\ \A n \in DOMAIN issued : issued[n].id # id
          /\ RemoveQuarantine(id, 0)
     \/ \E failure \in SuspendFailures : SuspendProcess(failure)

AgentNext ==
  \/ /\ Input
     /\ AgentRestarts \/ \E path \in GuestPaths : RecordOperation(path)
  \/ /\ UNCHANGED inputs
     /\ ReceiveFrame \/ \E n \in Cuts : ConnectionEnds(n)

DetectorsNext ==
  \/ Tick
  \/ feed = "events" /\ EventsNext
     /\ UNCHANGED <<now, feed, beaconVars, wfpVars, agentVars>>
  \/ feed = "packets" /\ BeaconNext
     /\ UNCHANGED <<now, feed, eventVars, wfpVars, agentVars>>
  \/ feed = "commands" /\ WfpNext
     /\ UNCHANGED <<now, feed, eventVars, beaconVars, agentVars>>
  \/ feed = "writes" /\ AgentNext
     /\ UNCHANGED <<now, feed, eventVars, beaconVars, wfpVars>>

DetectorsSpec == DetectorsInit /\ [][DetectorsNext]_detectorVars

=============================================================================
