----------------------------- MODULE MasterLock -----------------------------
(***************************************************************************)
(* The election of a master worker by a Redis key with a time to live      *)
(* (app_core/audio/worker_coordinator_redis.py) and the wrapper in front   *)
(* of it (worker_coordinator.py). The master's heartbeat thread renews the *)
(* key and writes the shared metrics every 5 seconds; the key lives for    *)
(* 30. Renewal and release read the owner and act on it in two calls to    *)
(* Redis, and any call may fail. How long a thread stays away between two  *)
(* calls is not bounded, so the key may expire between any two steps, and  *)
(* a stop that waits 10 seconds for the heartbeat may give up on it: the   *)
(* stop event is shared, so the next start brings the old thread back.     *)
(***************************************************************************)
EXTENDS Naturals, FiniteSets

CONSTANTS
    Workers,        \* processes; at most one should be the master
    Heartbeats,     \* bound: names for the heartbeat threads of one process
    MaxLockEvents   \* bound: expiries, Redis errors, late threads and crashes

ASSUME LockAssumption == MaxLockEvents \in Nat
ASSUME WorkersAssumption == IsFiniteSet(Workers)

Nobody == "nobody"
Gone == "gone"    \* a process that no longer exists
NoBeat == "no thread"
ASSUME NamesAssumption ==
    Nobody \notin Workers /\ Gone \notin Workers /\ NoBeat \notin Heartbeats

(* waiting for the stop event; asking: about to read the owner; owned and  *)
(* lost: the answer; writing: about to write the metrics.                  *)
BeatPlaces == {"none", "waiting", "asking", "owned", "lost", "writing"}
MainPlaces == {"slave", "acquired", "master", "joining", "stopping", "deleting"}

VARIABLES
    owner,     \* value of the lock key
    flag,      \* _is_master_worker of worker_coordinator_redis
    outer,     \* _is_master_worker of worker_coordinator
    beat,      \* where each heartbeat thread is
    heartbeat, \* _heartbeat_thread
    stop,      \* _heartbeat_stop_flag
    main,      \* where the worker's main thread is
    lapsed,    \* history: since the release under way read the owner, did the
               \* key expire, or was it taken by a release that was late as well?
    astray,    \* history: metrics each thread wrote since its worker last
               \* owned the key
    gaveUp,    \* history: joins of the process that gave up on a thread
    expiries,  \* history: how often the key expired
    lockEvents \* how many so far

lockVars == <<owner, flag, outer, beat, heartbeat, stop, main, lapsed, astray, gaveUp,
              expiries, lockEvents>>

LockTypeOK ==
    /\ owner \in Workers \cup {Nobody, Gone}
    /\ flag \in [Workers -> BOOLEAN] /\ outer \in [Workers -> BOOLEAN]
    /\ beat \in [Workers -> [Heartbeats -> BeatPlaces]]
    /\ heartbeat \in [Workers -> Heartbeats \cup {NoBeat}]
    /\ stop \in [Workers -> BOOLEAN]
    /\ main \in [Workers -> MainPlaces]
    /\ lapsed \in [Workers -> BOOLEAN]
    /\ astray \in [Workers -> [Heartbeats -> Nat]] /\ gaveUp \in [Workers -> Nat]
    /\ expiries \in Nat /\ lockEvents \in 0 .. MaxLockEvents

AllBeats(v) == [h \in Heartbeats |-> v]

LockInit ==
    /\ owner = Nobody
    /\ flag = [w \in Workers |-> FALSE] /\ outer = [w \in Workers |-> FALSE]
    /\ beat = [w \in Workers |-> AllBeats("none")]
    /\ heartbeat = [w \in Workers |-> NoBeat] /\ stop = [w \in Workers |-> FALSE]
    /\ main = [w \in Workers |-> "slave"]
    /\ lapsed = [w \in Workers |-> FALSE]
    /\ astray = [w \in Workers |-> AllBeats(0)] /\ gaveUp = [w \in Workers |-> 0]
    /\ expiries = 0 /\ lockEvents = 0

LockEvent == lockEvents < MaxLockEvents /\ lockEvents' = lockEvents + 1

-----------------------------------------------------------------------------
(* try_acquire_master_lock and start_heartbeat_writer. SET NX fails for    *)
(* any owner, the worker itself included, and leaves the inner flag as it  *)
(* was.                                                                    *)

Acquire(w) ==
    /\ main[w] = "slave"
    /\ IF owner = Nobody
         THEN /\ owner' = w
              /\ flag' = [flag EXCEPT ![w] = TRUE] /\ outer' = [outer EXCEPT ![w] = TRUE]
              /\ main' = [main EXCEPT ![w] = "acquired"]
              /\ astray' = [astray EXCEPT ![w] = AllBeats(0)]
         ELSE outer' = [outer EXCEPT ![w] = FALSE] /\ UNCHANGED <<owner, flag, main, astray>>
    /\ UNCHANGED <<beat, heartbeat, stop, lapsed, gaveUp, lockEvents>>

(* The stop event is cleared, whoever was told to stop by it.              *)
StartHeartbeat(w) ==
    /\ main[w] = "acquired"
    /\ main' = [main EXCEPT ![w] = "master"]
    /\ IF outer[w] /\ flag[w]
         THEN \E h \in Heartbeats :
                /\ beat[w][h] = "none"
                /\ beat' = [beat EXCEPT ![w][h] = "waiting"]
                /\ astray' = [astray EXCEPT ![w][h] = 0]
                /\ heartbeat' = [heartbeat EXCEPT ![w] = h]
                /\ stop' = [stop EXCEPT ![w] = FALSE]
         ELSE UNCHANGED <<beat, astray, heartbeat, stop>>
    /\ UNCHANGED <<owner, flag, outer, lapsed, gaveUp, lockEvents>>

-----------------------------------------------------------------------------
(* heartbeat_loop: refresh_master_lock reads the owner and extends the     *)
(* key, whosever it is by then, and write_shared_metrics follows.          *)

BeatGoes(w, h, from, to) ==
    /\ beat[w][h] = from
    /\ beat' = [beat EXCEPT ![w][h] = to]
    /\ UNCHANGED <<outer, heartbeat, stop, main, lapsed, gaveUp>>

NextRound(w, h) ==
    /\ BeatGoes(w, h, "waiting", IF ~stop[w] /\ flag[w] THEN "asking" ELSE "none")
    /\ UNCHANGED <<owner, flag, astray, lockEvents>>

(* Redis does not answer: the heartbeat ends, and the flag stays.          *)
RefreshFails(w, h) ==
    /\ BeatGoes(w, h, "asking", "none") \/ BeatGoes(w, h, "owned", "none")
    /\ LockEvent
    /\ UNCHANGED <<owner, flag, astray>>

CheckOwner_Fault(w, h) ==
    /\ BeatGoes(w, h, "asking", "owned")
    /\ UNCHANGED <<owner, flag, astray, lockEvents>>

CheckOwner(w, h) ==
    /\ BeatGoes(w, h, "asking", IF owner = w THEN "owned" ELSE "lost")
    /\ UNCHANGED <<owner, flag, astray, lockEvents>>

(* The flag is cleared for what the owner was when it was read.            *)
LoseLock(w, h) ==
    /\ BeatGoes(w, h, "lost", "none")
    /\ flag' = [flag EXCEPT ![w] = FALSE]
    /\ UNCHANGED <<owner, astray, lockEvents>>

(* The key is extended, the metrics are collected, the flag is read.       *)
Extend(w, h) ==
    /\ BeatGoes(w, h, "owned", IF flag[w] THEN "writing" ELSE "waiting")
    /\ UNCHANGED <<owner, flag, astray, lockEvents>>

(* A write that fails is logged, and the heartbeat goes on.                *)
WriteMetrics(w, h) ==
    /\ BeatGoes(w, h, "writing", "waiting")
    /\ \/ /\ astray' = IF owner = w THEN astray ELSE [astray EXCEPT ![w][h] = @ + 1]
          /\ UNCHANGED lockEvents
       \/ LockEvent /\ UNCHANGED astray
    /\ UNCHANGED <<owner, flag>>

-----------------------------------------------------------------------------
(* cleanup_coordinator of the wrapper: the heartbeat is stopped, then the  *)
(* lock is released. (The call of the inner cleanup_coordinator after that *)
(* finds the flag cleared, and then fails on a name that does not exist,   *)
(* which is logged.)                                                       *)

StopHeartbeat(w) ==
    /\ main[w] = "master"
    /\ IF heartbeat[w] # NoBeat
         THEN /\ stop' = [stop EXCEPT ![w] = TRUE]
              /\ main' = [main EXCEPT ![w] = "joining"]
         ELSE main' = [main EXCEPT ![w] = "stopping"] /\ UNCHANGED stop
    /\ UNCHANGED <<owner, flag, outer, beat, heartbeat, lapsed, astray, gaveUp, lockEvents>>

(* The thread has left, or the join gives up on one that is busy with its  *)
(* round after 10 seconds.                                                 *)
JoinHeartbeat(w) ==
    /\ main[w] = "joining"
    /\ main' = [main EXCEPT ![w] = "stopping"]
    /\ heartbeat' = [heartbeat EXCEPT ![w] = NoBeat]
    /\ \/ beat[w][heartbeat[w]] = "none" /\ UNCHANGED <<gaveUp, lockEvents>>
       \/ /\ beat[w][heartbeat[w]] \notin {"none", "waiting"}
          /\ LockEvent
          /\ gaveUp' = [gaveUp EXCEPT ![w] = @ + 1]
    /\ UNCHANGED <<owner, flag, outer, beat, stop, lapsed, astray>>

(* Fault: the worker goes on taking itself for the master.                 *)
ReleaseEnds_KeepsFlag(w) ==
    /\ main' = [main EXCEPT ![w] = "slave"]
    /\ outer' = [outer EXCEPT ![w] = FALSE] /\ UNCHANGED flag

ReleaseEnds(w) ==
    /\ main' = [main EXCEPT ![w] = "slave"]
    /\ flag' = [flag EXCEPT ![w] = FALSE] /\ outer' = [outer EXCEPT ![w] = FALSE]

ReadOwner_Fault(w) ==
    /\ main[w] = "stopping"
    /\ lapsed' = [lapsed EXCEPT ![w] = FALSE]
    /\ main' = [main EXCEPT ![w] = "deleting"] /\ UNCHANGED <<flag, outer>>
    /\ UNCHANGED <<owner, beat, heartbeat, stop, astray, gaveUp, lockEvents>>

ReadOwner(w) ==
    /\ main[w] = "stopping"
    /\ lapsed' = [lapsed EXCEPT ![w] = FALSE]
    /\ IF flag[w] /\ owner = w
         THEN main' = [main EXCEPT ![w] = "deleting"] /\ UNCHANGED <<flag, outer>>
         ELSE ReleaseEnds(w)
    /\ UNCHANGED <<owner, beat, heartbeat, stop, astray, gaveUp, lockEvents>>

DeleteKey(w) ==
    /\ main[w] = "deleting"
    /\ owner' = Nobody
    /\ lapsed' = [u \in Workers |-> lapsed[u] \/ lapsed[w]]
    /\ ReleaseEnds(w)
    /\ UNCHANGED <<beat, heartbeat, stop, astray, gaveUp, lockEvents>>

(* Redis does not answer: the flag is cleared, the key stays.              *)
ReleaseFails(w) ==
    /\ main[w] \in {"stopping", "deleting"}
    /\ LockEvent
    /\ ReleaseEnds(w)
    /\ UNCHANGED <<owner, beat, heartbeat, stop, lapsed, astray, gaveUp>>

-----------------------------------------------------------------------------
Expire ==
    /\ owner # Nobody
    /\ LockEvent
    /\ owner' = Nobody
    /\ lapsed' = [w \in Workers |-> TRUE]
    /\ expiries' = expiries + 1
    /\ UNCHANGED <<flag, outer, beat, heartbeat, stop, main, astray, gaveUp>>

(* The process dies with its threads; its successor has another id.        *)
Die(w) ==
    /\ main[w] # "slave"
    /\ LockEvent
    /\ owner' = IF owner = w THEN Gone ELSE owner
    /\ flag' = [flag EXCEPT ![w] = FALSE] /\ outer' = [outer EXCEPT ![w] = FALSE]
    /\ beat' = [beat EXCEPT ![w] = AllBeats("none")]
    /\ heartbeat' = [heartbeat EXCEPT ![w] = NoBeat] /\ stop' = [stop EXCEPT ![w] = FALSE]
    /\ main' = [main EXCEPT ![w] = "slave"]
    /\ astray' = [astray EXCEPT ![w] = AllBeats(0)] /\ gaveUp' = [gaveUp EXCEPT ![w] = 0]
    /\ UNCHANGED lapsed

LockNext ==
    \/ /\ \E w \in Workers :
            \/ Acquire(w) \/ StartHeartbeat(w)
            \/ \E h \in Heartbeats :
                 \/ NextRound(w, h) \/ RefreshFails(w, h) \/ CheckOwner(w, h)
                 \/ LoseLock(w, h) \/ Extend(w, h) \/ WriteMetrics(w, h)
            \/ StopHeartbeat(w) \/ JoinHeartbeat(w)
            \/ ReadOwner(w) \/ DeleteKey(w) \/ ReleaseFails(w) \/ Die(w)
       /\ UNCHANGED expiries
    \/ Expire

LockSpec == LockInit /\ [][LockNext]_lockVars

-----------------------------------------------------------------------------
(* A heartbeat of a worker that lost the key writes at most one more set  *)
(* of metrics over those of its successor: the owner is read again before  *)
(* every write. A worker has one heartbeat, and one more for each join     *)
(* that gave up on a thread the next start brought back                    *)
(* (worker_coordinator_redis.py:211, worker_coordinator_redis.py:452,      *)
(* worker_coordinator_redis.py:469).                                       *)
Beating(w) == {h \in Heartbeats : beat[w][h] # "none"}
StaleMetricsOnce ==
    \A w \in Workers :
        /\ \A h \in Heartbeats : astray[w][h] <= 1
        /\ Cardinality(Beating(w)) <= 1 + gaveUp[w]

(* A worker takes itself for the master only while at most as many others  *)
(* do as the key expired: without an expiry there is one master, though    *)
(* workers crash, Redis fails, and releases come late and take the key of  *)
(* another (worker_coordinator_redis.py:128, worker_coordinator_redis.py:238). *)
Election == INSTANCE MasterElection WITH
    masters <- {w \in Workers : flag[w]}, lapses <- expiries
ImplementsElection == Election!ElectionSpec

(* A release takes the key of another worker only if the key expired       *)
(* between its two calls, or between those of a release that took the key  *)
(* from this one (worker_coordinator_redis.py:238).                        *)
RobsOnlyAfterExpiry ==
    \A w \in Workers : main[w] = "deleting" /\ owner \in Workers \ {w} => lapsed[w]

=============================================================================
