---------------------------- MODULE MCBroadcasts ----------------------------
(***************************************************************************)
(* Small instances of further components that share no state in these      *)
(* models, explored side by side, with the fairness of those about which   *)
(* something is said to happen in the end: part says which of them moves,  *)
(* and the others stay in their initial states.                            *)
(***************************************************************************)
EXTENDS AlertForwarding, CAPFetch, RwtScheduler, SDRReceiver, AutoStreaming,
        BroadcastQueue, SampleRing, MasterLock

CONSTANT Parts    \* the components to explore

VARIABLE part

(* One tornado warning by two ways: the air and the operator.              *)
Tornado(i, v) ==
    [id |-> i, header |-> i, via |-> v, event |-> "TOR", code |-> "TOR",
     places |-> {1}, locations |-> {1}, named |-> TRUE, upgrade |-> FALSE, heard |-> TRUE]
MCAired == {Tornado(2, "monitor")}
MCActivations == {Tornado(3, "web")}

(* Copies of a warning with every kind of collision, and another product.  *)
Product(i, a, k, s, e) ==
    [id |-> i, event |-> 1, action |-> a, kind |-> k, sent |-> s, text |-> 1,
     polygon |-> FALSE, endpoint |-> e, match |-> "same"]
MCCopies == {Product(1, "NEW", "ALERT", 1, "noaa"),
             [Product(1, "NEW", "ALERT", 1, "ipaws") EXCEPT !.polygon = TRUE],
             Product(1, "NEW", "UPDATE", 1, "noaa"),
             Product(1, "NEW", "CANCEL", 2, "noaa"),
             Product(1, "NEW", "CANCEL", 2, "ipaws"),
             Product(1, "NEW", "UPDATE", 3, "ipaws"),
             [Product(1, "NEW", "CANCEL", 3, "ipaws") EXCEPT !.text = 2],
             Product(2, "EXT", "ALERT", 1, "noaa")}

(* A watcher and the one that replaces it under its name.                  *)
MCNameOf == [a \in {"watcher", "successor"} |-> "eas"]

-----------------------------------------------------------------------------
MCInit ==
    /\ part \in Parts
    /\ FwdInit
    /\ FetchInit /\ (part # "fetch" => listed = {})
    /\ RwtInit
    /\ SdrInit
    /\ AutoInit /\ (part # "streaming" => station = [s \in Stations |-> "absent"])
    /\ QueueInit
    /\ RingInit
    /\ LockInit

MCNext ==
    \/ part = "forwarding" /\ FwdNext
       /\ UNCHANGED <<part, fetchVars, rwtVars, sdrVars, autoVars,
                     queueVars, ringVars, lockVars>>
    \/ part = "fetch" /\ FetchNext
       /\ UNCHANGED <<part, fwdVars, rwtVars, sdrVars, autoVars,
                     queueVars, ringVars, lockVars>>
    \/ part = "rwt" /\ RwtNext
       /\ UNCHANGED <<part, fwdVars, fetchVars, sdrVars, autoVars,
                     queueVars, ringVars, lockVars>>
    \/ part = "sdr" /\ SdrNext
       /\ UNCHANGED <<part, fwdVars, fetchVars, rwtVars, autoVars,
                     queueVars, ringVars, lockVars>>
    \/ part = "streaming" /\ AutoNext
       /\ UNCHANGED <<part, fwdVars, fetchVars, rwtVars, sdrVars,
                     queueVars, ringVars, lockVars>>
    \/ part = "queue" /\ QueueNext
       /\ UNCHANGED <<part, fwdVars, fetchVars, rwtVars, sdrVars,
                     autoVars, ringVars, lockVars>>
    \/ part = "ring" /\ RingNext
       /\ UNCHANGED <<part, fwdVars, fetchVars, rwtVars, sdrVars,
                     autoVars, queueVars, lockVars>>
    \/ part = "lock" /\ LockNext
       /\ UNCHANGED <<part, fwdVars, fetchVars, rwtVars, sdrVars,
                     autoVars, queueVars, ringVars>>

mcVars == <<part, fwdVars, fetchVars, rwtVars, sdrVars, autoVars, queueVars,
            ringVars, lockVars>>

MCSpec ==
    /\ MCInit /\ [][MCNext]_mcVars
    /\ \A p \in Programs :
         WF_fwdVars(/\ part = "forwarding"
                    /\ \/ CheckMessages(p) \/ CheckActivations(p) \/ Build(p)
                       \/ Commit(p) \/ OnAir(p) \/ OffAir(p))
    /\ WF_fwdVars(part = "forwarding" /\ File)
    /\ WF_fwdVars(part = "forwarding" /\ SendEnds)
    /\ WF_fwdVars(part = "forwarding" /\ ExpireActive)
    /\ WF_fwdVars(part = "forwarding" /\ ExpireIncoming)
    /\ WF_fwdVars(part = "forwarding" /\ (PollActive \/ PollIncoming))
    /\ WF_sdrVars(part = "sdr" /\ CallerStep)
    /\ \A l \in Loops : WF_sdrVars(part = "sdr" /\ LoopStep(l))
    /\ \A m \in Monitors : WF_autoVars(part = "streaming" /\ MonitorStep(m))
    /\ WF_autoVars(part = "streaming" /\ OrderStep)

=============================================================================
