------------------------- MODULE CoordinationProofs -------------------------
(***************************************************************************)
(* Proofs about what is coordinated through Redis and the database: the    *)
(* master lock, the weekly tests and the commands to the audio service,    *)
(* for any number of workers, schedulers and requests and with no bound on *)
(* expiries, errors, crashes and time that the runs have.                  *)
(***************************************************************************)
EXTENDS MasterLock, RwtScheduler, SourceCommands, SequenceTheorems, FiniteSetTheorems,
        TLAPS


-----------------------------------------------------------------------------
(* The master lock.                                                        *)

(* The heartbeats of one worker: one that wrote without owning the key is  *)
(* past its round, and of those that are alive all but the one the worker  *)
(* knows were given up by a join.                                          *)
Astray(w) ==
    \A h \in Heartbeats :
        /\ astray[w][h] \in {0, 1}
        /\ astray[w][h] = 1 => owner # w /\ beat[w][h] \notin {"owned", "writing"}

Left(w) == Beating(w) \ {heartbeat[w]}
Counted(w) ==
    /\ main[w] \in {"slave", "acquired", "stopping", "deleting"} => heartbeat[w] = NoBeat
    /\ main[w] = "joining" => heartbeat[w] # NoBeat
    /\ IsFiniteSet(Left(w)) /\ Cardinality(Left(w)) <= gaveUp[w]

(* A release between its two calls still owns the key, unless something    *)
(* lapsed.                                                                 *)
Releases(w) == main[w] = "deleting" /\ ~lapsed[w] => owner = w

LockInv ==
    /\ LockTypeOK
    /\ \A w \in Workers : Astray(w)
    /\ \A w \in Workers : Counted(w)
    /\ \A w \in Workers : Releases(w)

LEMMA LockInvInit == LockInit => LockInv
  <1> SUFFICES ASSUME LockInit PROVE LockInv
    OBVIOUS
  <1>1. LockTypeOK
    BY LockAssumption DEF LockInit, LockTypeOK, AllBeats, BeatPlaces, MainPlaces
  <1>2. \A w \in Workers : Left(w) = {}
    BY DEF LockInit, Left, Beating, AllBeats
  <1>3. ASSUME NEW w \in Workers PROVE Counted(w)
    BY <1>2, FS_EmptySet DEF LockInit, Counted
  <1>4. \A w \in Workers : Astray(w) /\ Releases(w)
    BY DEF LockInit, Astray, Releases, AllBeats
  <1> QED
    BY <1>1, <1>3, <1>4 DEF LockInv

(* Typing, one action at a time.                                           *)
LEMMA GoesType ==
    ASSUME LockTypeOK, NEW w \in Workers, NEW h \in Heartbeats,
           NEW from, NEW to \in BeatPlaces, BeatGoes(w, h, from, to)
    PROVE  /\ beat' \in [Workers -> [Heartbeats -> BeatPlaces]]
           /\ UNCHANGED <<outer, heartbeat, stop, main, lapsed, gaveUp>>
  <1>1. beat' = [beat EXCEPT ![w] = [beat[w] EXCEPT ![h] = to]]
    BY DEF BeatGoes, LockTypeOK
  <1>2. [beat[w] EXCEPT ![h] = to] \in [Heartbeats -> BeatPlaces]
    BY DEF LockTypeOK
  <1> QED
    BY <1>1, <1>2 DEF BeatGoes, LockTypeOK

LEMMA LockTypeStep == LockTypeOK /\ [LockNext]_lockVars => LockTypeOK'
  <1> SUFFICES ASSUME LockTypeOK, [LockNext]_lockVars PROVE LockTypeOK'
    OBVIOUS
  <1>0. expiries' \in Nat
    BY DEF LockTypeOK, LockNext, Expire, lockVars
  <1>a. /\ AllBeats("none") \in [Heartbeats -> BeatPlaces]
        /\ AllBeats(0) \in [Heartbeats -> Nat]
    BY DEF AllBeats, BeatPlaces
  <1>p. /\ {"none", "waiting", "asking", "owned", "lost", "writing"} \subseteq BeatPlaces
        /\ {"slave", "acquired", "master", "joining", "stopping", "deleting"} \subseteq MainPlaces
    BY DEF BeatPlaces, MainPlaces
  <1>e. LockEvent \/ UNCHANGED lockEvents => lockEvents' \in 0 .. MaxLockEvents
    BY LockAssumption DEF LockEvent, LockTypeOK
  <1>1. ASSUME NEW w \in Workers, Acquire(w) PROVE LockTypeOK'
    <2>1. CASE owner = Nobody
      <3>1. flag' \in [Workers -> BOOLEAN] /\ outer' \in [Workers -> BOOLEAN]
        BY <1>1, <2>1 DEF Acquire, LockTypeOK
      <3>2. main' \in [Workers -> MainPlaces]
        BY <1>1, <1>p, <2>1 DEF Acquire, LockTypeOK
      <3>3. owner' \in Workers \cup {Nobody, Gone}
            /\ astray' \in [Workers -> [Heartbeats -> Nat]]
        BY <1>1, <1>a, <2>1 DEF Acquire, LockTypeOK
      <3> QED
        BY <1>0, <1>1, <3>1, <3>2, <3>3 DEF Acquire, LockTypeOK
    <2>2. CASE owner # Nobody
      BY <1>0, <1>1, <2>2 DEF Acquire, LockTypeOK
    <2> QED
      BY <2>1, <2>2
  <1>2. ASSUME NEW w \in Workers, StartHeartbeat(w) PROVE LockTypeOK'
    <2>1. main' \in [Workers -> MainPlaces]
      BY <1>2, <1>p DEF StartHeartbeat, LockTypeOK
    <2>2. CASE outer[w] /\ flag[w]
      <3>1. PICK h \in Heartbeats :
              /\ beat' = [beat EXCEPT ![w][h] = "waiting"]
              /\ astray' = [astray EXCEPT ![w][h] = 0]
              /\ heartbeat' = [heartbeat EXCEPT ![w] = h]
              /\ stop' = [stop EXCEPT ![w] = FALSE]
        BY <1>2, <2>2 DEF StartHeartbeat
      <3>2. [beat[w] EXCEPT ![h] = "waiting"] \in [Heartbeats -> BeatPlaces]
        BY <1>p DEF LockTypeOK
      <3>3. [astray[w] EXCEPT ![h] = 0] \in [Heartbeats -> Nat]
        BY DEF LockTypeOK
      <3>4. beat' = [beat EXCEPT ![w] = [beat[w] EXCEPT ![h] = "waiting"]]
        BY <3>1 DEF LockTypeOK
      <3>5. astray' = [astray EXCEPT ![w] = [astray[w] EXCEPT ![h] = 0]]
        BY <3>1 DEF LockTypeOK
      <3>6. beat' \in [Workers -> [Heartbeats -> BeatPlaces]]
        BY <3>2, <3>4 DEF LockTypeOK
      <3>7. astray' \in [Workers -> [Heartbeats -> Nat]]
        BY <3>3, <3>5 DEF LockTypeOK
      <3>8. heartbeat' \in [Workers -> Heartbeats \cup {NoBeat}] /\ stop' \in [Workers -> BOOLEAN]
        BY <3>1 DEF LockTypeOK
      <3> QED
        BY <1>0, <1>2, <2>1, <3>6, <3>7, <3>8 DEF StartHeartbeat, LockTypeOK
    <2>3. CASE ~(outer[w] /\ flag[w])
      BY <1>0, <1>2, <2>1, <2>3 DEF StartHeartbeat, LockTypeOK
    <2> QED
      BY <2>2, <2>3
  <1>3. ASSUME NEW w \in Workers, NEW h \in Heartbeats,
               \/ NextRound(w, h) \/ RefreshFails(w, h) \/ CheckOwner(w, h) \/ Extend(w, h)
               \/ LoseLock(w, h)
        PROVE  LockTypeOK'
    <2>1. /\ beat' \in [Workers -> [Heartbeats -> BeatPlaces]]
          /\ UNCHANGED <<outer, heartbeat, stop, main, lapsed, gaveUp>>
      BY <1>3, <1>p, GoesType DEF NextRound, RefreshFails, CheckOwner, Extend, LoseLock
    <2>2. flag' \in [Workers -> BOOLEAN] /\ UNCHANGED <<owner, astray>>
      BY <1>3 DEF NextRound, RefreshFails, CheckOwner, Extend, LoseLock, LockTypeOK
    <2>3. lockEvents' \in 0 .. MaxLockEvents
      BY <1>3, <1>e DEF NextRound, RefreshFails, CheckOwner, Extend, LoseLock
    <2> QED
      BY <1>0, <2>1, <2>2, <2>3 DEF LockTypeOK
  <1>4. ASSUME NEW w \in Workers, NEW h \in Heartbeats, WriteMetrics(w, h) PROVE LockTypeOK'
    <2>1. /\ beat' \in [Workers -> [Heartbeats -> BeatPlaces]]
          /\ UNCHANGED <<outer, heartbeat, stop, main, lapsed, gaveUp>>
      BY <1>4, <1>p, GoesType DEF WriteMetrics
    <2>2. astray' \in [Workers -> [Heartbeats -> Nat]]
      <3>1. CASE UNCHANGED astray
        BY <3>1 DEF LockTypeOK
      <3>2. CASE astray' = [astray EXCEPT ![w][h] = @ + 1]
        <4>1. astray[w][h] + 1 \in Nat
          BY DEF LockTypeOK
        <4>2. [astray[w] EXCEPT ![h] = astray[w][h] + 1] \in [Heartbeats -> Nat]
          BY <4>1 DEF LockTypeOK
        <4>3. astray' = [astray EXCEPT ![w] = [astray[w] EXCEPT ![h] = astray[w][h] + 1]]
          BY <3>2 DEF LockTypeOK
        <4> QED
          BY <4>2, <4>3 DEF LockTypeOK
      <3> QED
        BY <1>4, <3>1, <3>2 DEF WriteMetrics
    <2>3. lockEvents' \in 0 .. MaxLockEvents /\ UNCHANGED <<owner, flag>>
      BY <1>4, <1>e DEF WriteMetrics
    <2> QED
      BY <1>0, <2>1, <2>2, <2>3 DEF LockTypeOK
  <1>5. ASSUME NEW w \in Workers, StopHeartbeat(w) PROVE LockTypeOK'
    BY <1>0, <1>5, <1>p DEF StopHeartbeat, LockTypeOK
  <1>6. ASSUME NEW w \in Workers, JoinHeartbeat(w) PROVE LockTypeOK'
    <2>1. main' \in [Workers -> MainPlaces] /\ heartbeat' \in [Workers -> Heartbeats \cup {NoBeat}]
      BY <1>6, <1>p DEF JoinHeartbeat, LockTypeOK
    <2>2. gaveUp' \in [Workers -> Nat] /\ lockEvents' \in 0 .. MaxLockEvents
      BY <1>6, <1>e DEF JoinHeartbeat, LockTypeOK
    <2> QED
      BY <1>0, <1>6, <2>1, <2>2 DEF JoinHeartbeat, LockTypeOK
  <1>7. ASSUME NEW w \in Workers, ReleaseEnds(w)
        PROVE  /\ main' \in [Workers -> MainPlaces]
               /\ flag' \in [Workers -> BOOLEAN] /\ outer' \in [Workers -> BOOLEAN]
    BY <1>7, <1>p DEF ReleaseEnds, LockTypeOK
  <1>8. ASSUME NEW w \in Workers, ReadOwner(w) PROVE LockTypeOK'
    <2>1. /\ main' \in [Workers -> MainPlaces]
          /\ flag' \in [Workers -> BOOLEAN] /\ outer' \in [Workers -> BOOLEAN]
      BY <1>7, <1>8, <1>p DEF ReadOwner, LockTypeOK
    <2>2. lapsed' \in [Workers -> BOOLEAN]
      BY <1>8 DEF ReadOwner, LockTypeOK
    <2> QED
      BY <1>0, <1>8, <2>1, <2>2 DEF ReadOwner, LockTypeOK
  <1>9. ASSUME NEW w \in Workers, DeleteKey(w) PROVE LockTypeOK'
    <2>1. lapsed' \in [Workers -> BOOLEAN]
      <3>1. \A u \in Workers : (lapsed[u] \/ lapsed[w]) \in BOOLEAN
        BY Zenon
      <3>2. lapsed' = [u \in Workers |-> lapsed[u] \/ lapsed[w]]
        BY <1>9, Zenon DEF DeleteKey
      <3> QED
        BY <3>1, <3>2, Zenon
    <2>2. owner' \in Workers \cup {Nobody, Gone}
      BY <1>9 DEF DeleteKey
    <2>3. /\ main' \in [Workers -> MainPlaces]
          /\ flag' \in [Workers -> BOOLEAN] /\ outer' \in [Workers -> BOOLEAN]
      BY <1>7, <1>9 DEF DeleteKey
    <2>4. UNCHANGED <<beat, heartbeat, stop, astray, gaveUp, lockEvents>>
      BY <1>9 DEF DeleteKey
    <2> QED
      BY <1>0, <2>1, <2>2, <2>3, <2>4 DEF LockTypeOK
  <1>10. ASSUME NEW w \in Workers, ReleaseFails(w) PROVE LockTypeOK'
    <2>1. /\ main' \in [Workers -> MainPlaces]
          /\ flag' \in [Workers -> BOOLEAN] /\ outer' \in [Workers -> BOOLEAN]
      BY <1>7, <1>10 DEF ReleaseFails
    <2> QED
      BY <1>0, <1>10, <1>e, <2>1 DEF ReleaseFails, LockTypeOK
  <1>11. ASSUME NEW w \in Workers, Die(w) PROVE LockTypeOK'
    <2>1. flag' \in [Workers -> BOOLEAN] /\ outer' \in [Workers -> BOOLEAN]
          /\ stop' \in [Workers -> BOOLEAN] /\ main' \in [Workers -> MainPlaces]
      BY <1>11, <1>p DEF Die, LockTypeOK
    <2>2. beat' \in [Workers -> [Heartbeats -> BeatPlaces]]
          /\ astray' \in [Workers -> [Heartbeats -> Nat]] /\ gaveUp' \in [Workers -> Nat]
      BY <1>11, <1>a DEF Die, LockTypeOK
    <2>3. owner' \in Workers \cup {Nobody, Gone}
          /\ heartbeat' \in [Workers -> Heartbeats \cup {NoBeat}] /\ UNCHANGED lapsed
      BY <1>11 DEF Die, LockTypeOK
    <2>4. lockEvents' \in 0 .. MaxLockEvents
      BY <1>11, <1>e DEF Die
    <2> QED
      BY <1>0, <2>1, <2>2, <2>3, <2>4 DEF LockTypeOK
  <1>12. CASE Expire
    BY <1>0, <1>12, <1>e DEF Expire, LockTypeOK
  <1>13. CASE UNCHANGED lockVars
    BY <1>0, <1>13 DEF lockVars, LockTypeOK
  <1> QED
    BY <1>1, <1>2, <1>3, <1>4, <1>5, <1>6, <1>8, <1>9, <1>10, <1>11, <1>12, <1>13
    DEF LockNext

(* Where a step of worker w takes its heartbeat h, and no other.           *)
LEMMA GoesOnly ==
    ASSUME LockTypeOK, NEW w \in Workers, NEW h \in Heartbeats,
           NEW from, NEW to, BeatGoes(w, h, from, to), NEW u \in Workers, NEW g \in Heartbeats
    PROVE  beat'[u][g] = IF u = w /\ g = h THEN to ELSE beat[u][g]
  BY DEF BeatGoes, LockTypeOK

(* A heartbeat that is on its way stays one of the heartbeats it was.      *)
LEMMA FewerLeft ==
    ASSUME LockTypeOK, NEW u \in Workers, Counted(u), Left(u)' \subseteq Left(u),
           UNCHANGED gaveUp
    PROVE  IsFiniteSet(Left(u)') /\ Cardinality(Left(u)') <= gaveUp'[u]
  <1>1. IsFiniteSet(Left(u)') /\ Cardinality(Left(u)') <= Cardinality(Left(u))
    BY FS_Subset DEF Counted
  <1>2. Cardinality(Left(u)') \in Nat /\ Cardinality(Left(u)) \in Nat /\ gaveUp[u] \in Nat
    BY <1>1, FS_CardinalityType DEF Counted, LockTypeOK
  <1> QED
    BY <1>1, <1>2 DEF Counted

LEMMA CountedStep == LockInv /\ [LockNext]_lockVars => \A u \in Workers : Counted(u)'
  <1> SUFFICES ASSUME LockInv, [LockNext]_lockVars, NEW u \in Workers PROVE Counted(u)'
    OBVIOUS
  <1>0. LockTypeOK /\ Counted(u) /\ NoBeat \notin Heartbeats
    BY NamesAssumption DEF LockInv
  <1>a. ASSUME UNCHANGED <<beat, heartbeat, gaveUp>>,
               main'[u] \in {"slave", "acquired", "stopping", "deleting"}
                  => heartbeat[u] = NoBeat,
               main'[u] = "joining" => heartbeat[u] # NoBeat
        PROVE  Counted(u)'
    BY <1>0, <1>a DEF Counted, Left, Beating
  <1>1. ASSUME NEW w \in Workers, Acquire(w) PROVE Counted(u)'
    BY <1>0, <1>1, <1>a DEF Acquire, Counted, LockTypeOK
  <1>2. ASSUME NEW w \in Workers, StartHeartbeat(w) PROVE Counted(u)'
    <2>0. main'[u] = IF u = w THEN "master" ELSE main[u]
      BY <1>0, <1>2 DEF StartHeartbeat, LockTypeOK
    <2>1. CASE outer[w] /\ flag[w]
      <3>1. PICK h \in Heartbeats :
              /\ beat' = [beat EXCEPT ![w][h] = "waiting"]
              /\ heartbeat' = [heartbeat EXCEPT ![w] = h]
        BY <1>2, <2>1 DEF StartHeartbeat
      <3>2. Left(u)' \subseteq Left(u)
        <4>1. CASE u = w
          <5>1. heartbeat[u] = NoBeat /\ heartbeat'[u] = h
            BY <1>0, <1>2, <3>1, <4>1 DEF StartHeartbeat, Counted, LockTypeOK
          <5>2. \A g \in Heartbeats \ {h} : beat'[u][g] = beat[u][g]
            BY <1>0, <3>1, <4>1 DEF LockTypeOK
          <5> QED
            BY <1>0, <5>1, <5>2 DEF Left, Beating
        <4>2. CASE u # w
          BY <1>0, <3>1, <4>2 DEF Left, Beating, LockTypeOK
        <4> QED
          BY <4>1, <4>2
      <3>3. UNCHANGED gaveUp
        BY <1>2 DEF StartHeartbeat
      <3>4. u # w => heartbeat'[u] = heartbeat[u]
        BY <1>0, <3>1 DEF LockTypeOK
      <3> QED
        BY <1>0, <2>0, <3>2, <3>3, <3>4, FewerLeft DEF Counted
    <2>2. CASE ~(outer[w] /\ flag[w])
      BY <1>0, <1>2, <1>a, <2>0, <2>2 DEF StartHeartbeat, Counted
    <2> QED
      BY <2>1, <2>2
  <1>3. ASSUME NEW w \in Workers, NEW h \in Heartbeats, NEW from \in BeatPlaces \ {"none"},
               NEW to, BeatGoes(w, h, from, to)
        PROVE  Counted(u)'
    <2>1. \A g \in Heartbeats : beat[u][g] = "none" => beat'[u][g] = "none"
      BY <1>0, <1>3, GoesOnly DEF BeatGoes
    <2>2. UNCHANGED <<heartbeat, main, gaveUp>>
      BY <1>3 DEF BeatGoes
    <2>3. Left(u)' \subseteq Left(u)
      BY <2>1, <2>2 DEF Left, Beating
    <2> QED
      BY <1>0, <2>2, <2>3, FewerLeft DEF Counted
  <1>4. ASSUME NEW w \in Workers, NEW h \in Heartbeats,
               \/ NextRound(w, h) \/ RefreshFails(w, h) \/ CheckOwner(w, h)
               \/ LoseLock(w, h) \/ Extend(w, h) \/ WriteMetrics(w, h)
        PROVE  Counted(u)'
    BY <1>3, <1>4 DEF NextRound, RefreshFails, CheckOwner, LoseLock, Extend, WriteMetrics,
                      BeatPlaces
  <1>5. ASSUME NEW w \in Workers, StopHeartbeat(w) PROVE Counted(u)'
    <2>1. main'[u] = IF u = w THEN IF heartbeat[w] # NoBeat THEN "joining" ELSE "stopping"
                     ELSE main[u]
      BY <1>0, <1>5 DEF StopHeartbeat, LockTypeOK
    <2> QED
      BY <1>0, <1>5, <1>a, <2>1 DEF StopHeartbeat, Counted
  <1>6. ASSUME NEW w \in Workers, JoinHeartbeat(w) PROVE Counted(u)'
    <2>1. CASE u # w
      <3>1. main'[u] = main[u] /\ heartbeat'[u] = heartbeat[u] /\ gaveUp'[u] = gaveUp[u]
            /\ beat' = beat
        BY <1>0, <1>6, <2>1 DEF JoinHeartbeat, LockTypeOK
      <3> QED
        BY <1>0, <3>1 DEF Counted, Left, Beating
    <2>2. CASE u = w
      <3>1. /\ main'[u] = "stopping" /\ heartbeat'[u] = NoBeat /\ beat' = beat
            /\ heartbeat[u] \in Heartbeats
        BY <1>0, <1>6, <2>2 DEF JoinHeartbeat, LockTypeOK, Counted
      <3>2. CASE beat[u][heartbeat[u]] = "none" /\ UNCHANGED gaveUp
        <4>1. Left(u)' = Left(u)
          BY <1>0, <3>1, <3>2 DEF Left, Beating
        <4> QED
          BY <1>0, <3>1, <3>2, <4>1 DEF Counted
      <3>3. CASE gaveUp' = [gaveUp EXCEPT ![w] = @ + 1]
        <4>1. Left(u)' \subseteq Left(u) \cup {heartbeat[u]}
          BY <3>1 DEF Left, Beating
        <4>2. /\ IsFiniteSet(Left(u) \cup {heartbeat[u]})
              /\ Cardinality(Left(u) \cup {heartbeat[u]})
                   \in {Cardinality(Left(u)), Cardinality(Left(u)) + 1}
          BY <1>0, FS_AddElement DEF Counted
        <4>3. /\ IsFiniteSet(Left(u)')
              /\ Cardinality(Left(u)') <= Cardinality(Left(u) \cup {heartbeat[u]})
          BY <4>1, <4>2, FS_Subset
        <4>4. /\ Cardinality(Left(u)') \in Nat /\ Cardinality(Left(u)) \in Nat
              /\ gaveUp[u] \in Nat /\ gaveUp'[u] = gaveUp[u] + 1
          BY <1>0, <2>2, <3>3, <4>3, FS_CardinalityType DEF Counted, LockTypeOK
        <4>5. Cardinality(Left(u)') <= gaveUp'[u]
          BY <1>0, <4>2, <4>3, <4>4 DEF Counted
        <4> QED
          BY <3>1, <4>3, <4>5 DEF Counted
      <3> QED
        BY <1>6, <2>2, <3>2, <3>3 DEF JoinHeartbeat
    <2> QED
      BY <2>1, <2>2
  <1>7. ASSUME NEW w \in Workers, ReadOwner(w) \/ DeleteKey(w) \/ ReleaseFails(w)
        PROVE  Counted(u)'
    <2>1. main'[u] \in {main[u], "slave", "deleting"}
          /\ (u # w => main'[u] = main[u])
          /\ main[w] \in {"stopping", "deleting"} /\ UNCHANGED <<beat, heartbeat, gaveUp>>
      BY <1>0, <1>7 DEF ReadOwner, DeleteKey, ReleaseFails, ReleaseEnds, LockTypeOK
    <2> QED
      BY <1>0, <1>a, <2>1 DEF Counted
  <1>8. ASSUME NEW w \in Workers, Die(w) PROVE Counted(u)'
    <2>1. CASE u = w
      <3>1. /\ main'[u] = "slave" /\ heartbeat'[u] = NoBeat /\ gaveUp'[u] = 0
            /\ \A h \in Heartbeats : beat'[u][h] = "none"
        BY <1>0, <1>8, <2>1 DEF Die, LockTypeOK, AllBeats
      <3>2. Left(u)' = {}
        BY <3>1 DEF Left, Beating
      <3> QED
        BY <3>1, <3>2, FS_EmptySet DEF Counted
    <2>2. CASE u # w
      <3>1. /\ main'[u] = main[u] /\ heartbeat'[u] = heartbeat[u] /\ gaveUp'[u] = gaveUp[u]
            /\ beat'[u] = beat[u]
        BY <1>0, <1>8, <2>2 DEF Die, LockTypeOK
      <3> QED
        BY <1>0, <3>1 DEF Counted, Left, Beating
    <2> QED
      BY <2>1, <2>2
  <1>9. CASE Expire \/ UNCHANGED lockVars
    BY <1>0, <1>9, <1>a DEF Expire, lockVars, Counted
  <1> QED
    BY <1>1, <1>2, <1>4, <1>5, <1>6, <1>7, <1>8, <1>9 DEF LockNext

LEMMA AstrayStep == LockInv /\ [LockNext]_lockVars => \A u \in Workers : Astray(u)'
  <1> SUFFICES ASSUME LockInv, [LockNext]_lockVars, NEW u \in Workers, NEW g \in Heartbeats
               PROVE  /\ astray'[u][g] \in {0, 1}
                      /\ astray'[u][g] = 1 =>
                           owner' # u /\ beat'[u][g] \notin {"owned", "writing"}
    BY DEF Astray
  <1> DEFINE Goal == /\ astray'[u][g] \in {0, 1}
                     /\ astray'[u][g] = 1 =>
                          owner' # u /\ beat'[u][g] \notin {"owned", "writing"}
  <1>0. /\ LockTypeOK /\ Nobody \notin Workers /\ Gone \notin Workers
        /\ astray[u][g] \in {0, 1}
        /\ astray[u][g] = 1 => owner # u /\ beat[u][g] \notin {"owned", "writing"}
    BY NamesAssumption DEF LockInv, Astray
  <1>1. ASSUME NEW w \in Workers, Acquire(w) PROVE Goal
    BY <1>0, <1>1 DEF Acquire, LockTypeOK, AllBeats
  <1>2. ASSUME NEW w \in Workers, StartHeartbeat(w) PROVE Goal
    <2>1. CASE outer[w] /\ flag[w]
      <3>1. PICK h \in Heartbeats :
              /\ beat' = [beat EXCEPT ![w][h] = "waiting"]
              /\ astray' = [astray EXCEPT ![w][h] = 0]
        BY <1>2, <2>1 DEF StartHeartbeat
      <3>2. /\ astray'[u][g] = IF u = w /\ g = h THEN 0 ELSE astray[u][g]
            /\ beat'[u][g] = IF u = w /\ g = h THEN "waiting" ELSE beat[u][g]
        BY <1>0, <3>1 DEF LockTypeOK
      <3>3. UNCHANGED owner
        BY <1>2 DEF StartHeartbeat
      <3> QED
        BY <1>0, <3>2, <3>3
    <2>2. CASE ~(outer[w] /\ flag[w])
      BY <1>0, <1>2, <2>2 DEF StartHeartbeat
    <2> QED
      BY <2>1, <2>2
  <1>3. ASSUME NEW w \in Workers, NEW h \in Heartbeats,
               NextRound(w, h) \/ RefreshFails(w, h) \/ LoseLock(w, h)
        PROVE  Goal
    <2>1. UNCHANGED <<owner, astray>>
      BY <1>3 DEF NextRound, RefreshFails, LoseLock
    <2>2. beat'[u][g] \in {beat[u][g], "none", "asking"}
      BY <1>0, <1>3, GoesOnly DEF NextRound, RefreshFails, LoseLock
    <2> QED
      BY <1>0, <2>1, <2>2
  <1>4. ASSUME NEW w \in Workers, NEW h \in Heartbeats, CheckOwner(w, h) PROVE Goal
    <2>1. beat'[u][g] = IF u = w /\ g = h THEN (IF owner = w THEN "owned" ELSE "lost")
                        ELSE beat[u][g]
      BY <1>0, <1>4, GoesOnly DEF CheckOwner
    <2> QED
      BY <1>0, <1>4, <2>1 DEF CheckOwner
  <1>5. ASSUME NEW w \in Workers, NEW h \in Heartbeats, Extend(w, h) PROVE Goal
    <2>1. /\ beat[w][h] = "owned"
          /\ (u = w /\ g = h) \/ beat'[u][g] = beat[u][g]
      BY <1>0, <1>5, GoesOnly DEF Extend, BeatGoes
    <2> QED
      BY <1>0, <1>5, <2>1 DEF Extend
  <1>6. ASSUME NEW w \in Workers, NEW h \in Heartbeats, WriteMetrics(w, h) PROVE Goal
    <2>0. BeatGoes(w, h, "writing", "waiting") /\ UNCHANGED owner
      BY <1>6 DEF WriteMetrics
    <2>1. /\ beat[w][h] = "writing" /\ UNCHANGED owner
          /\ beat'[u][g] = IF u = w /\ g = h THEN "waiting" ELSE beat[u][g]
      <3>1. beat'[u][g] = IF u = w /\ g = h THEN "waiting" ELSE beat[u][g]
        BY <1>0, <2>0, GoesOnly
      <3> QED
        BY <2>0, <3>1 DEF BeatGoes
    <2>2. CASE UNCHANGED astray
      BY <1>0, <2>1, <2>2
    <2>3. CASE owner # w /\ astray' = [astray EXCEPT ![w][h] = @ + 1]
      <3>1. astray'[u][g] = IF u = w /\ g = h THEN astray[u][g] + 1 ELSE astray[u][g]
        BY <1>0, <2>3 DEF LockTypeOK
      <3> QED
        BY <1>0, <2>1, <2>3, <3>1
    <2> QED
      BY <1>6, <2>2, <2>3 DEF WriteMetrics
  <1>7. ASSUME NEW w \in Workers,
               \/ StopHeartbeat(w) \/ JoinHeartbeat(w) \/ ReadOwner(w) \/ DeleteKey(w)
               \/ ReleaseFails(w)
        PROVE  Goal
    <2>1. UNCHANGED <<beat, astray>> /\ owner' \in {owner, Nobody}
      BY <1>7 DEF StopHeartbeat, JoinHeartbeat, ReadOwner, DeleteKey, ReleaseFails
    <2> QED
      BY <1>0, <2>1
  <1>8. ASSUME NEW w \in Workers, Die(w) PROVE Goal
    <2>1. /\ owner' \in {owner, Gone}
          /\ astray'[u] = IF u = w THEN AllBeats(0) ELSE astray[u]
          /\ beat'[u] = IF u = w THEN AllBeats("none") ELSE beat[u]
      BY <1>0, <1>8 DEF Die, LockTypeOK
    <2> QED
      BY <1>0, <2>1 DEF AllBeats
  <1>9. CASE Expire \/ UNCHANGED lockVars
    BY <1>0, <1>9 DEF Expire, lockVars
  <1> QED
    BY <1>1, <1>2, <1>3, <1>4, <1>5, <1>6, <1>7, <1>8, <1>9 DEF LockNext

LEMMA ReleasesStep == LockInv /\ [LockNext]_lockVars => \A u \in Workers : Releases(u)'
  <1> SUFFICES ASSUME LockInv, [LockNext]_lockVars, NEW u \in Workers PROVE Releases(u)'
    OBVIOUS
  <1>0. LockTypeOK /\ Releases(u) /\ Nobody \notin Workers /\ Gone \notin Workers
    BY NamesAssumption DEF LockInv
  <1>1. ASSUME NEW w \in Workers, Acquire(w) PROVE Releases(u)'
    BY <1>0, <1>1 DEF Acquire, LockTypeOK, Releases
  <1>2. ASSUME UNCHANGED <<owner, lapsed>>, main'[u] = main[u] \/ main'[u] # "deleting"
        PROVE  Releases(u)'
    BY <1>0, <1>2 DEF Releases
  <1>3. ASSUME NEW w \in Workers, StartHeartbeat(w) \/ StopHeartbeat(w) \/ JoinHeartbeat(w)
        PROVE  Releases(u)'
    <2>1. UNCHANGED <<owner, lapsed>>
      BY <1>3 DEF StartHeartbeat, StopHeartbeat, JoinHeartbeat
    <2>2. main'[u] = main[u] \/ main'[u] # "deleting"
      BY <1>0, <1>3 DEF StartHeartbeat, StopHeartbeat, JoinHeartbeat, LockTypeOK
    <2> QED
      BY <1>2, <2>1, <2>2
  <1>4. ASSUME NEW w \in Workers, NEW h \in Heartbeats,
               \/ NextRound(w, h) \/ RefreshFails(w, h) \/ CheckOwner(w, h)
               \/ LoseLock(w, h) \/ Extend(w, h) \/ WriteMetrics(w, h)
        PROVE  Releases(u)'
    <2>1. UNCHANGED <<owner, lapsed, main>>
      BY <1>4 DEF NextRound, RefreshFails, CheckOwner, LoseLock, Extend, WriteMetrics, BeatGoes
    <2> QED
      BY <1>2, <2>1
  <1>5. ASSUME NEW w \in Workers, ReadOwner(w) PROVE Releases(u)'
    BY <1>0, <1>5 DEF ReadOwner, ReleaseEnds, LockTypeOK, Releases
  <1>6. ASSUME NEW w \in Workers, DeleteKey(w) PROVE Releases(u)'
    <2>1. CASE u = w
      BY <1>0, <1>6, <2>1 DEF DeleteKey, ReleaseEnds, LockTypeOK, Releases
    <2>2. CASE u # w /\ lapsed[w]
      BY <1>0, <1>6, <2>2 DEF DeleteKey, Releases
    <2>3. CASE u # w /\ ~lapsed[w]
      <3>1. owner = w
        BY <1>6, <2>3 DEF DeleteKey, LockInv, Releases
      <3>2. main[u] # "deleting" \/ lapsed[u]
        BY <1>0, <2>3, <3>1 DEF Releases
      <3> QED
        BY <1>0, <1>6, <2>3, <3>2 DEF DeleteKey, ReleaseEnds, LockTypeOK, Releases
    <2> QED
      BY <2>1, <2>2, <2>3
  <1>7. ASSUME NEW w \in Workers, ReleaseFails(w) PROVE Releases(u)'
    BY <1>0, <1>7 DEF ReleaseFails, ReleaseEnds, LockTypeOK, Releases
  <1>8. ASSUME NEW w \in Workers, Die(w) PROVE Releases(u)'
    BY <1>0, <1>8 DEF Die, LockTypeOK, Releases
  <1>9. CASE Expire \/ UNCHANGED lockVars
    BY <1>0, <1>9 DEF Expire, lockVars, LockTypeOK, Releases
  <1> QED
    BY <1>1, <1>3, <1>4, <1>5, <1>6, <1>7, <1>8, <1>9 DEF LockNext

LEMMA LockInvStep == LockInv /\ [LockNext]_lockVars => LockInv'
  BY LockTypeStep, AstrayStep, CountedStep, ReleasesStep DEF LockInv

(* Flags, threads and the key are well typed with any number of workers    *)
(* (worker_coordinator_redis.py:128).                                      *)
THEOREM LockTypeCorrect == LockSpec => []LockTypeOK
  <1>1. LockInv => LockTypeOK
    BY DEF LockInv
  <1> QED
    BY <1>1, LockInvInit, LockInvStep, PTL DEF LockSpec

(* A heartbeat of a worker that lost the key writes at most one more set   *)
(* of metrics, and a worker has at most one heartbeat more than joins of   *)
(* its process gave up, for any number of threads                          *)
(* (worker_coordinator_redis.py:438, worker_coordinator_redis.py:469).     *)
THEOREM MetricsStaleOnce == LockSpec => []StaleMetricsOnce
  <1>1. LockInv => StaleMetricsOnce
    <2> SUFFICES ASSUME LockInv, NEW w \in Workers
                 PROVE  /\ \A h \in Heartbeats : astray[w][h] <= 1
                        /\ Cardinality(Beating(w)) <= 1 + gaveUp[w]
      BY DEF StaleMetricsOnce
    <2>1. \A h \in Heartbeats : astray[w][h] <= 1
      BY DEF LockInv, Astray
    <2>2. IsFiniteSet(Left(w)) /\ Cardinality(Left(w)) <= gaveUp[w] /\ gaveUp[w] \in Nat
      BY DEF LockInv, Counted, LockTypeOK
    <2>3. Beating(w) \subseteq Left(w) \cup {heartbeat[w]}
      BY DEF Left
    <2>4. /\ IsFiniteSet(Left(w) \cup {heartbeat[w]})
          /\ Cardinality(Left(w) \cup {heartbeat[w]})
               \in {Cardinality(Left(w)), Cardinality(Left(w)) + 1}
      BY <2>2, FS_AddElement
    <2>5. /\ IsFiniteSet(Beating(w))
          /\ Cardinality(Beating(w)) <= Cardinality(Left(w) \cup {heartbeat[w]})
      BY <2>3, <2>4, FS_Subset
    <2>6. Cardinality(Beating(w)) \in Nat /\ Cardinality(Left(w)) \in Nat
      BY <2>2, <2>5, FS_CardinalityType
    <2> QED
      BY <2>1, <2>2, <2>4, <2>5, <2>6
  <1> QED
    BY <1>1, LockInvInit, LockInvStep, PTL DEF LockSpec

(* A release takes another worker's key only after an expiry               *)
(* (worker_coordinator_redis.py:238).                                      *)
THEOREM RobberyNeedsExpiry == LockSpec => []RobsOnlyAfterExpiry
  <1>1. LockInv => RobsOnlyAfterExpiry
    BY DEF LockInv, Releases, RobsOnlyAfterExpiry
  <1> QED
    BY <1>1, LockInvInit, LockInvStep, PTL DEF LockSpec

(* Those who take themselves for the master, or are about to delete the    *)
(* key, and do not own it. There are at most as many as the key expired: a *)
(* release that takes the key from its owner makes one more of them, and   *)
(* ends being one itself.                                                  *)
Flags == {w \in Workers : flag[w]}
Strays == {w \in Workers : (flag[w] \/ main[w] = "deleting") /\ owner # w}
FlagsOK == \A w \in Workers : main[w] = "slave" => ~flag[w]
ElectionInv == LockInv /\ FlagsOK /\ Cardinality(Strays) <= expiries

LEMMA StraysFinite ==
    /\ IsFiniteSet(Strays) /\ Cardinality(Strays) \in Nat
    /\ IsFiniteSet(Strays') /\ Cardinality(Strays') \in Nat
  BY WorkersAssumption, FS_Subset, FS_CardinalityType DEF Strays

(* No new stray.                                                           *)
LEMMA FewerStrays ==
    ASSUME LockTypeOK, Strays' \subseteq Strays, UNCHANGED expiries,
           Cardinality(Strays) <= expiries
    PROVE  Cardinality(Strays') <= expiries'
  <1>1. Cardinality(Strays') <= Cardinality(Strays)
    BY StraysFinite, FS_Subset
  <1> QED
    BY <1>1, StraysFinite DEF LockTypeOK

(* One stray more than there were, at most.                                *)
LEMMA OneStrayMore ==
    ASSUME NEW v, Strays' \subseteq Strays \cup {v}
    PROVE  Cardinality(Strays') <= Cardinality(Strays) + 1
  <1>1. /\ IsFiniteSet(Strays \cup {v})
        /\ Cardinality(Strays \cup {v}) \in {Cardinality(Strays), Cardinality(Strays) + 1}
    BY StraysFinite, FS_AddElement
  <1>2. Cardinality(Strays') <= Cardinality(Strays \cup {v})
    BY <1>1, FS_Subset
  <1> QED
    BY <1>1, <1>2, StraysFinite

LEMMA SameCardinality == \A S : Election!Cardinality(S) = Cardinality(S)
  BY DEF Cardinality, Election!Cardinality

LEMMA FlagsStep == LockInv /\ FlagsOK /\ [LockNext]_lockVars => FlagsOK'
  <1> SUFFICES ASSUME LockInv, FlagsOK, [LockNext]_lockVars, NEW u \in Workers
               PROVE  main'[u] = "slave" => ~flag'[u]
    BY DEF FlagsOK
  <1> DEFINE Goal == main'[u] = "slave" => ~flag'[u]
  <1>0. LockTypeOK /\ (main[u] = "slave" => ~flag[u])
    BY DEF LockInv, FlagsOK
  <1> USE DEF LockTypeOK
  <1>1. ASSUME NEW w \in Workers, Acquire(w) PROVE Goal
    BY <1>0, <1>1 DEF Acquire
  <1>2. ASSUME NEW w \in Workers, StartHeartbeat(w) \/ StopHeartbeat(w) \/ JoinHeartbeat(w)
        PROVE  Goal
    BY <1>0, <1>2 DEF StartHeartbeat, StopHeartbeat, JoinHeartbeat
  <1>3. ASSUME NEW w \in Workers, NEW h \in Heartbeats,
               \/ NextRound(w, h) \/ RefreshFails(w, h) \/ CheckOwner(w, h)
               \/ LoseLock(w, h) \/ Extend(w, h) \/ WriteMetrics(w, h)
        PROVE  Goal
    <2>1. UNCHANGED main /\ (UNCHANGED flag \/ flag' = [flag EXCEPT ![w] = FALSE])
      BY <1>3 DEF NextRound, RefreshFails, CheckOwner, LoseLock, Extend, WriteMetrics, BeatGoes
    <2> QED
      BY <1>0, <2>1
  <1>4. ASSUME NEW w \in Workers, ReadOwner(w) \/ DeleteKey(w) \/ ReleaseFails(w) PROVE Goal
    BY <1>0, <1>4 DEF ReadOwner, DeleteKey, ReleaseFails, ReleaseEnds
  <1>5. ASSUME NEW w \in Workers, Die(w) PROVE Goal
    BY <1>0, <1>5 DEF Die
  <1>6. CASE Expire \/ UNCHANGED lockVars
    BY <1>0, <1>6 DEF Expire, lockVars
  <1> QED
    BY <1>1, <1>2, <1>3, <1>4, <1>5, <1>6 DEF LockNext

(* How many strays a step leaves, and what it means to the election.       *)
LEMMA ElectionStep ==
    ElectionInv /\ [LockNext]_lockVars =>
        /\ Cardinality(Strays') <= expiries'
        /\ [Election!ElectionNext]_(Election!electionVars)
  <1> SUFFICES ASSUME ElectionInv, [LockNext]_lockVars
               PROVE  /\ Cardinality(Strays') <= expiries'
                      /\ [Election!ElectionNext]_(Election!electionVars)
    OBVIOUS
  <1> DEFINE Maps == [Election!ElectionNext]_(Election!electionVars)
             Goal == Cardinality(Strays') <= expiries' /\ Maps
  <1>0. /\ LockTypeOK /\ FlagsOK /\ Cardinality(Strays) <= expiries
        /\ Nobody \notin Workers /\ Gone \notin Workers
    BY NamesAssumption DEF ElectionInv, LockInv
  <1> USE DEF LockTypeOK
  <1>s. ASSUME UNCHANGED <<flag, expiries>> PROVE Maps
    BY <1>s DEF Election!electionVars
  <1>r. ASSUME NEW w \in Workers, flag' = [flag EXCEPT ![w] = FALSE], UNCHANGED expiries
        PROVE  Maps
    <2>1. CASE ~flag[w]
      BY <1>0, <1>r, <1>s, <2>1
    <2>2. CASE flag[w]
      <3>1. /\ w \in Flags
            /\ Flags' = Flags \ {w}
        BY <1>0, <1>r, <2>2 DEF Flags
      <3> QED
        BY <1>r, <3>1 DEF Election!ElectionNext, Election!Retire, Flags
    <2> QED
      BY <2>1, <2>2
  <1>1. ASSUME NEW w \in Workers, Acquire(w), UNCHANGED expiries PROVE Goal
    <2>1. Strays' \subseteq Strays
      BY <1>0, <1>1 DEF Acquire, Strays
    <2>2. CASE owner # Nobody
      BY <1>0, <1>1, <1>s, <2>1, <2>2, FewerStrays DEF Acquire
    <2>3. CASE owner = Nobody
      <3>1. Flags \subseteq Strays
        BY <1>0, <2>3 DEF Flags, Strays
      <3>2. w \notin Flags /\ Flags' = Flags \cup {w}
        BY <1>0, <1>1, <2>3 DEF Acquire, FlagsOK, Flags
      <3>3. Cardinality(Flags) <= expiries
        <4>1. IsFiniteSet(Flags) /\ Cardinality(Flags) <= Cardinality(Strays)
          BY <3>1, StraysFinite, FS_Subset
        <4>2. Cardinality(Flags) \in Nat
          BY <4>1, FS_CardinalityType
        <4> QED
          BY <1>0, <4>1, <4>2, StraysFinite
      <3>4. Election!Elect(w)
        BY <1>1, <3>2, <3>3, SameCardinality DEF Election!Elect, Flags
      <3> QED
        BY <1>0, <1>1, <2>1, <3>4, FewerStrays DEF Election!ElectionNext
    <2> QED
      BY <2>2, <2>3
  <1>2. ASSUME NEW w \in Workers, UNCHANGED expiries,
               StartHeartbeat(w) \/ StopHeartbeat(w) \/ JoinHeartbeat(w)
        PROVE  Goal
    <2>1. UNCHANGED <<owner, flag>>
      BY <1>2 DEF StartHeartbeat, StopHeartbeat, JoinHeartbeat
    <2>2. \A v \in Workers : main'[v] = "deleting" => main[v] = "deleting"
      BY <1>0, <1>2 DEF StartHeartbeat, StopHeartbeat, JoinHeartbeat
    <2>3. Strays' \subseteq Strays
      BY <2>1, <2>2 DEF Strays
    <2> QED
      BY <1>0, <1>2, <1>s, <2>1, <2>3, FewerStrays
  <1>h. ASSUME NEW w \in Workers, NEW h \in Heartbeats, UNCHANGED expiries,
               \/ NextRound(w, h) \/ RefreshFails(w, h) \/ CheckOwner(w, h)
               \/ LoseLock(w, h) \/ Extend(w, h) \/ WriteMetrics(w, h)
        PROVE  Goal
    <2>1. /\ UNCHANGED <<owner, main>>
          /\ UNCHANGED flag \/ flag' = [flag EXCEPT ![w] = FALSE]
      BY <1>h DEF NextRound, RefreshFails, CheckOwner, LoseLock, Extend, WriteMetrics, BeatGoes
    <2>2. Strays' \subseteq Strays
      BY <1>0, <2>1 DEF Strays
    <2> QED
      BY <1>0, <1>h, <1>s, <1>r, <2>1, <2>2, FewerStrays
  <1>3. ASSUME NEW w \in Workers, UNCHANGED expiries, ReadOwner(w) \/ ReleaseFails(w)
        PROVE  Goal
    <2>1. UNCHANGED owner /\ (UNCHANGED flag \/ flag' = [flag EXCEPT ![w] = FALSE])
      BY <1>3 DEF ReadOwner, ReleaseFails, ReleaseEnds
    <2>2. /\ \A v \in Workers : main'[v] = "deleting" =>
               main[v] = "deleting" \/ (v = w /\ flag[w] /\ owner = w)
          /\ \A v \in Workers : flag'[v] => flag[v]
      <3>1. CASE ReleaseEnds(w)
        <4>1. /\ flag' = [flag EXCEPT ![w] = FALSE]
              /\ main' = [main EXCEPT ![w] = "slave"]
          BY <3>1 DEF ReleaseEnds
        <4>2. \A v \in Workers : flag'[v] => flag[v]
          BY <1>0, <4>1, Zenon
        <4>3. \A v \in Workers : main'[v] = "deleting" => main[v] = "deleting"
          BY <1>0, <4>1
        <4> QED
          BY <4>2, <4>3
      <3>2. CASE flag[w] /\ owner = w /\ main' = [main EXCEPT ![w] = "deleting"] /\ UNCHANGED flag
        BY <1>0, <3>2
      <3> QED
        BY <1>3, <3>1, <3>2 DEF ReadOwner, ReleaseFails
    <2>3. Strays' \subseteq Strays
      BY <1>0, <2>1, <2>2 DEF Strays
    <2> QED
      BY <1>0, <1>3, <1>s, <1>r, <2>1, <2>3, FewerStrays
  <1>4. ASSUME NEW w \in Workers, DeleteKey(w), UNCHANGED expiries PROVE Goal
    <2>1. /\ flag' = [flag EXCEPT ![w] = FALSE] /\ owner' = Nobody
          /\ main' = [main EXCEPT ![w] = "slave"] /\ main[w] = "deleting"
      BY <1>4 DEF DeleteKey, ReleaseEnds
    <2>2. CASE owner \in Workers \ {w}
      <3>1. w \in Strays /\ owner \notin Strays
        BY <2>1, <2>2 DEF Strays
      <3>2. Strays' \subseteq (Strays \ {w}) \cup {owner}
        BY <1>0, <2>1 DEF Strays
      <3>3. /\ IsFiniteSet(Strays \ {w})
            /\ Cardinality(Strays \ {w}) = Cardinality(Strays) - 1
        BY <3>1, StraysFinite, FS_RemoveElement
      <3>4. /\ IsFiniteSet((Strays \ {w}) \cup {owner})
            /\ Cardinality((Strays \ {w}) \cup {owner}) = Cardinality(Strays)
        <4>1. owner \notin Strays \ {w}
          BY <3>1
        <4>2. /\ IsFiniteSet((Strays \ {w}) \cup {owner})
              /\ Cardinality((Strays \ {w}) \cup {owner}) = Cardinality(Strays \ {w}) + 1
          BY <3>3, <4>1, FS_AddElement
        <4> QED
          BY <3>3, <4>2, StraysFinite
      <3>5. Cardinality(Strays') <= Cardinality(Strays)
        BY <3>2, <3>4, StraysFinite, FS_Subset
      <3>6. Cardinality(Strays') <= expiries'
        BY <1>0, <1>4, <3>5, StraysFinite
      <3> QED
        BY <1>4, <1>r, <2>1, <3>6
    <2>3. CASE owner \notin Workers \ {w}
      <3>1. Strays' \subseteq Strays
        BY <1>0, <2>1, <2>3 DEF Strays
      <3> QED
        BY <1>0, <1>4, <1>r, <2>1, <3>1, FewerStrays
    <2> QED
      BY <2>2, <2>3
  <1>5. ASSUME NEW w \in Workers, Die(w), UNCHANGED expiries PROVE Goal
    <2>1. Strays' \subseteq Strays
      BY <1>0, <1>5 DEF Die, Strays
    <2> QED
      BY <1>0, <1>5, <1>r, <2>1, FewerStrays DEF Die
  <1>6. CASE Expire
    <2>1. Strays' \subseteq Strays \cup {owner}
      BY <1>6 DEF Expire, Strays
    <2>2. Cardinality(Strays') <= Cardinality(Strays) + 1
      BY <2>1, OneStrayMore
    <2>3. Cardinality(Strays') <= expiries'
      BY <1>0, <1>6, <2>2, StraysFinite DEF Expire
    <2>4. Election!Lapse
      BY <1>6 DEF Expire, Election!Lapse
    <2> QED
      BY <2>3, <2>4 DEF Election!ElectionNext
  <1>7. CASE UNCHANGED lockVars
    <2>1. Strays' = Strays /\ UNCHANGED <<flag, expiries>>
      BY <1>7 DEF lockVars, Strays
    <2> QED
      BY <1>0, <1>s, <2>1, FewerStrays
  <1> QED
    BY <1>1, <1>2, <1>h, <1>3, <1>4, <1>5, <1>6, <1>7 DEF LockNext

LEMMA ElectionStart == LockInit => ElectionInv /\ Election!ElectionInit
  <1> SUFFICES ASSUME LockInit PROVE ElectionInv /\ Election!ElectionInit
    OBVIOUS
  <1>1. Strays = {} /\ Flags = {}
    BY DEF LockInit, Strays, Flags
  <1>2. LockInv /\ FlagsOK
    BY LockInvInit DEF LockInit, FlagsOK
  <1>3. Cardinality(Strays) = 0 /\ expiries = 0
    BY <1>1, FS_EmptySet DEF LockInit
  <1> QED
    BY <1>1, <1>2, <1>3 DEF ElectionInv, Election!ElectionInit, Flags

LEMMA ElectionKept == ElectionInv /\ [LockNext]_lockVars => ElectionInv'
  BY ElectionStep, FlagsStep, LockInvStep DEF ElectionInv

(* The lock is an election with lapses: a worker takes itself for the      *)
(* master only while at most as many others do as the key expired, for any *)
(* number of workers, errors, crashes and late releases                    *)
(* (worker_coordinator_redis.py:128).                                      *)
THEOREM LockElects == LockSpec => ImplementsElection
  <1>1. ElectionInv /\ [LockNext]_lockVars => [Election!ElectionNext]_(Election!electionVars)
    BY ElectionStep
  <1> QED
    BY <1>1, ElectionStart, ElectionKept, PTL DEF LockSpec, ImplementsElection, Election!ElectionSpec

(* There are never more masters than one and the expiries of the key; as   *)
(* long as it does not expire, there is one at most                        *)
(* (worker_coordinator_redis.py:238).                                      *)
THEOREM MastersCounted ==
    LockSpec => [](Cardinality({w \in Workers : flag[w]}) <= 1 + expiries)
  <1>1. ElectionInv => Cardinality(Flags) <= 1 + expiries
    <2> SUFFICES ASSUME ElectionInv PROVE Cardinality(Flags) <= 1 + expiries
      OBVIOUS
    <2>1. Flags \subseteq Strays \cup {owner}
      BY DEF Flags, Strays
    <2>2. /\ IsFiniteSet(Strays \cup {owner})
          /\ Cardinality(Strays \cup {owner}) \in {Cardinality(Strays), Cardinality(Strays) + 1}
      BY StraysFinite, FS_AddElement
    <2>3. Cardinality(Flags) <= Cardinality(Strays \cup {owner}) /\ IsFiniteSet(Flags)
      BY <2>1, <2>2, FS_Subset
    <2> QED
      BY <2>2, <2>3, StraysFinite, FS_CardinalityType DEF ElectionInv, LockInv, LockTypeOK
  <1> QED
    BY <1>1, ElectionStart, ElectionKept, PTL DEF LockSpec, Flags

-----------------------------------------------------------------------------
(* The weekly tests.                                                       *)

(* What protects a day on which a test has succeeded and nothing overlaps: *)
(* as long as the day lasts, the row says so and every scheduler rests;    *)
(* afterwards, none is left that makes a test of that day.                 *)
Protected(d) ==
    /\ d <= day
    /\ d = day => /\ lastRun = [day |-> d, status |-> "success"]
                  /\ \A s \in Schedulers : thread[s] = "idle"
    /\ \A s \in Schedulers : thread[s] = "making" => testDay[s] # d

RwtInv ==
    /\ RwtTypeOK
    /\ \A t \in Threads : testDay[t] <= day
    /\ \A d \in tests \ overlapped : Protected(d)
    /\ RepeatOnlyIfOverlapped

LEMMA RwtInvInit == RwtInit => RwtInv
  <1> SUFFICES ASSUME RwtInit PROVE RwtInv
    OBVIOUS
  <1> USE RwtAssumption DEF RwtInit, Days, Threads
  <1>1. RwtTypeOK
    <2>1. inWindow \in BOOLEAN
      BY Zenon
    <2>2. lastRun \in [day : Days, status : {"success", "failed"}] \cup {NoRun}
      BY Zenon
    <2>3. /\ day \in Days /\ scheduled \subseteq Days
          /\ thread \in [Threads -> {"idle", "checked", "making"}]
          /\ loaded \in [Threads -> {"none", "success", "failed"}]
          /\ testDay \in [Threads -> Days] /\ rwtEvents \in 0 .. MaxRwtEvents
      OBVIOUS
    <2>4. tests \subseteq Days /\ repeated \subseteq Days /\ overlapped \subseteq Days
      BY Zenon
    <2> QED
      BY <2>1, <2>2, <2>3, <2>4 DEF RwtTypeOK
  <1>2. \A t \in Threads : testDay[t] <= day
    OBVIOUS
  <1> QED
    BY <1>1, <1>2 DEF RwtInv, RepeatOnlyIfOverlapped

LEMMA WrittenOK ==
    ASSUME RwtTypeOK, NEW t \in Threads, NEW d \in Days, NEW status \in {"success", "failed"}
    PROVE  /\ Written(t, d, status) \in [day : Days, status : {"success", "failed"}]
           /\ Written(t, d, status).day = d
           /\ lastRun.status = status => Written(t, d, status) = [day |-> d, status |-> status]
  BY DEF RwtTypeOK, Written, NoRun

LEMMA RwtInvStep == RwtInv /\ [RwtNext]_rwtVars => RwtInv'
  <1> SUFFICES ASSUME RwtInv, [RwtNext]_rwtVars PROVE RwtInv'
    OBVIOUS
  <1> USE RwtAssumption DEF RwtInv, RwtTypeOK, Days, Threads, rwtHistory, Load
  <1>1. ASSUME NEW s \in Schedulers, Check(s) PROVE RwtInv'
    <2>1. day \notin tests \ overlapped
      BY <1>1 DEF Check, SentToday, Protected
    <2>3. loaded' \in [Threads -> {"none", "success", "failed"}]
      BY <1>1 DEF Check, NoRun
    <2>2. \A d \in tests \ overlapped : Protected(d)'
      BY <1>1, <2>1 DEF Check, Protected
    <2> QED
      BY <1>1, <2>2, <2>3 DEF Check, RepeatOnlyIfOverlapped
  <1>2. ASSUME NEW o \in Operators, Ask(o) PROVE RwtInv'
    <2>1. loaded' \in [Threads -> {"none", "success", "failed"}]
      BY <1>2 DEF Ask, NoRun
    <2>2. \A d \in tests \ overlapped : Protected(d)'
      BY <1>2 DEF Ask, Protected
    <2> QED
      BY <1>2, <2>1, <2>2 DEF Ask, RwtEvent, RepeatOnlyIfOverlapped
  <1>3. ASSUME NEW t \in Threads, Make(t) PROVE RwtInv'
    <2>1. \A d \in tests \ overlapped : Protected(d)'
      BY <1>3 DEF Make, Protected
    <2> QED
      BY <1>3, <2>1 DEF Make, RepeatOnlyIfOverlapped
  <1>4. ASSUME NEW t \in Threads, RecordTest(t) PROVE RwtInv'
    <2>1. RwtTypeOK' /\ \A u \in Threads : testDay'[u] <= day'
      <3>1. lastRun' \in [day : Days, status : {"success", "failed"}] \cup {NoRun}
        BY <1>4, WrittenOK DEF RecordTest
      <3>2. thread' \in [Threads -> {"idle", "checked", "making"}]
        BY <1>4 DEF RecordTest
      <3>3. tests' \subseteq Days /\ repeated' \subseteq Days
        <4>1. testDay[t] \in Days
          OBVIOUS
        <4>2. CASE t \in Schedulers
          <5>1. tests' = tests \cup {testDay[t]} /\ repeated' = repeated \cup (tests \cap {testDay[t]})
            BY <1>4, <4>2 DEF RecordTest
          <5> QED
            BY <4>1, <5>1
        <4>3. CASE t \notin Schedulers
          BY <1>4, <4>3 DEF RecordTest
        <4> QED
          BY <4>2, <4>3
      <3>4. overlapped' \subseteq Days
        BY <1>4 DEF RecordTest, Overlap
      <3> QED
        BY <1>4, <3>1, <3>2, <3>3, <3>4 DEF RecordTest
    <2>2. ASSUME NEW d \in (tests \ overlapped)', d \in tests PROVE Protected(d)'
      <3>1. d \in tests \ overlapped /\ ~(d = lastRun.day /\ d > testDay[t])
        BY <1>4, <2>2 DEF RecordTest, Overlap
      <3>2. Protected(d)
        BY <3>1
      <3>3. CASE d = day
        <4>1. lastRun.day = d /\ testDay[t] = d
          BY <3>1, <3>2, <3>3 DEF Protected
        <4> QED
          BY <1>4, <3>2, <3>3, <4>1, WrittenOK DEF RecordTest, Protected
      <3>4. CASE d # day
        BY <1>4, <3>2, <3>4 DEF RecordTest, Protected
      <3> QED
        BY <3>3, <3>4
    <2>3. ASSUME NEW d \in (tests \ overlapped)', d \notin tests PROVE Protected(d)'
      <3>1. t \in Schedulers /\ d = testDay[t]
        BY <1>4, <2>3 DEF RecordTest
      <3>2. \A s \in Schedulers \ {t} : thread[s] = "idle"
        BY <1>4, <2>3, <3>1 DEF RecordTest, Overlap
      <3>3. lastRun' = [day |-> d, status |-> "success"]
        <4>1. lastRun' = Written(t, d, "success") /\ Written(t, d, "success").status # "failed"
          BY <1>4, <2>3, <3>1 DEF RecordTest, Overlap
        <4> QED
          BY <3>1, <4>1, WrittenOK
      <3> QED
        BY <1>4, <3>1, <3>2, <3>3 DEF RecordTest, Protected
    <2>4. RepeatOnlyIfOverlapped'
      <3>1. ASSUME NEW d \in repeated' PROVE d \in overlapped'
        <4>1. CASE d \in repeated
          BY <1>4, <4>1 DEF RecordTest, RepeatOnlyIfOverlapped
        <4>2. CASE d \notin repeated
          BY <1>4, <3>1, <4>2 DEF RecordTest, Protected
        <4> QED
          BY <4>1, <4>2
      <3> QED
        BY <3>1 DEF RepeatOnlyIfOverlapped
    <2> QED
      BY <2>1, <2>2, <2>3, <2>4
  <1>5. ASSUME NEW t \in Threads, Fail(t) PROVE RwtInv'
    <2>1. RwtTypeOK' /\ \A u \in Threads : testDay'[u] <= day'
      <3>1. lastRun' \in [day : Days, status : {"success", "failed"}] \cup {NoRun}
        BY <1>5, WrittenOK DEF Fail
      <3>2. thread' \in [Threads -> {"idle", "checked", "making"}]
        BY <1>5 DEF Fail
      <3>3. rwtEvents' \in 0 .. MaxRwtEvents
        BY <1>5 DEF Fail, RwtEvent
      <3> QED
        BY <1>5, <3>1, <3>2, <3>3 DEF Fail
    <2>2. ASSUME NEW d \in (tests \ overlapped)' PROVE Protected(d)'
      <3>1. d \in tests \ overlapped /\ Protected(d)
        BY <1>5, <2>2 DEF Fail
      <3>2. CASE UNCHANGED <<lastRun, overlapped>>
        BY <1>5, <3>1, <3>2 DEF Fail, Protected
      <3>3. CASE lastRun' = Written(t, day, "failed")
        <4>1. d = day => lastRun'.status # "failed"
          BY <1>5, <2>2, <3>1, <3>3 DEF Fail, Protected
        <4>2. d = day => lastRun' = [day |-> day, status |-> "success"]
          BY <3>3, <4>1, WrittenOK
        <4> QED
          BY <1>5, <3>1, <4>2 DEF Fail, Protected
      <3> QED
        BY <1>5, <3>2, <3>3 DEF Fail
    <2>3. RepeatOnlyIfOverlapped'
      BY <1>5 DEF Fail, RepeatOnlyIfOverlapped
    <2> QED
      BY <2>1, <2>2, <2>3
  <1>6. ASSUME NEW days \in SUBSET Days, Save(days) PROVE RwtInv'
    BY <1>6 DEF Save, RwtEvent, Protected, RepeatOnlyIfOverlapped
  <1>7. CASE TimePasses
    <2>1. day' \in Days /\ inWindow' \in BOOLEAN /\ day <= day'
      <3>1. day' \in Days /\ day <= day'
        BY <1>7 DEF TimePasses
      <3>2. inWindow' \in BOOLEAN
        BY <1>7, Zenon DEF TimePasses
      <3> QED
        BY <3>1, <3>2
    <2>2. UNCHANGED <<scheduled, lastRun, thread, loaded, testDay, tests, repeated, overlapped, rwtEvents>>
      BY <1>7 DEF TimePasses
    <2>3. RwtTypeOK'
      BY <2>1, <2>2
    <2>4. \A t \in Threads : testDay'[t] <= day'
      BY <2>1, <2>2
    <2>5. \A d \in tests \ overlapped : Protected(d)'
      BY <2>1, <2>2 DEF Protected
    <2> QED
      BY <2>2, <2>3, <2>4, <2>5 DEF RepeatOnlyIfOverlapped
  <1>8. CASE UNCHANGED rwtVars
    BY <1>8 DEF rwtVars, Protected, RepeatOnlyIfOverlapped
  <1> QED
    BY <1>1, <1>2, <1>3, <1>4, <1>5, <1>6, <1>7, <1>8 DEF RwtNext

(* The schedule, its threads and their history are well typed, however     *)
(* many workers run a scheduler (rwt_scheduler.py:270).                    *)
THEOREM RwtTypeCorrect == RwtSpec => []RwtTypeOK
  <1>1. RwtInv => RwtTypeOK
    BY DEF RwtInv
  <1> QED
    BY <1>1, RwtInvInit, RwtInvStep, PTL DEF RwtSpec

(* A day has a second test only if two schedulers were at it at a time, or *)
(* a later record was written over its success (rwt_scheduler.py:300).     *)
THEOREM RepeatsExplained == RwtSpec => []RepeatOnlyIfOverlapped
  <1>1. RwtInv => RepeatOnlyIfOverlapped
    BY DEF RwtInv
  <1> QED
    BY <1>1, RwtInvInit, RwtInvStep, PTL DEF RwtSpec

-----------------------------------------------------------------------------
(* The commands to the audio service.                                      *)

(* Every answer is that of a command that was executed, and so is the one  *)
(* about to be answered.                                                   *)
Told(S) == \A k \in S : <<k[1], k[2]>> \in executed
Named(m) == m.key = <<m.key[1], m.at>>
Answered(r) ==
    request[r].got = "answer" =>
        /\ request[r].at \in {"remove", "done"}
        /\ <<IF request[r].op = "enable" THEN "start"
             ELSE IF request[r].op = "disable" THEN "delete" ELSE request[r].op,
             request[r].sent>> \in executed
(* What a request can be at depends on its operation.                      *)
Stages(r) ==
    /\ request[r].at = "ready" <=> request[r].op = "?"
    /\ request[r].at = "start" => request[r].op = "enable"
    /\ request[r].at = "remove" => request[r].op \in {"disable", "delete", "discard"}
    /\ request[r].at = "waiting" => request[r].op \in {"enable", "disable", "start", "stop"}
    /\ request[r].op \in {"monitor", "create", "update"} => request[r].at = "done"

ReplyInv ==
    /\ CmdTypeOK
    /\ \A r \in Requests : Stages(r) /\ Answered(r)
    /\ \A m \in current : Named(m) /\ <<m.key[1], m.at>> \in executed
    /\ \A i \in 1 .. Len(channel) : Named(channel[i])
    /\ Told(answers)

LEMMA ReplyInit == CmdInit => ReplyInv
  <1> SUFFICES ASSUME CmdInit PROVE ReplyInv
    OBVIOUS
  <1> USE CommandAssumption DEF CmdInit
  <1>1. CmdTypeOK
    <2>1. /\ output \in BOOLEAN /\ known \in BOOLEAN /\ running \in BOOLEAN
          /\ managed \in BOOLEAN /\ untold \in BOOLEAN
      BY Zenon
    <2>2. request \in [Requests -> [op : Ops \cup {"?"},
                                   at : {"ready", "publish", "start", "waiting", "remove", "done"},
                                   sent : 0 .. MaxTick, got : {"nothing", "answer"}]]
      OBVIOUS
    <2>4. tick \in 0 .. MaxTick /\ commandEvents \in 0 .. MaxCommandEvents
      OBVIOUS
    <2>3. channel \in Seq(Message) /\ current \in SUBSET Message /\ answers \subseteq Keys
          /\ executed \subseteq Commands \X (0 .. MaxTick)
      OBVIOUS
    <2> QED
      BY <2>1, <2>2, <2>3, <2>4, Zenon DEF CmdTypeOK
  <1> QED
    BY <1>1 DEF ReplyInv, Stages, Answered, Told

RequestType == [op : Ops \cup {"?"},
                at : {"ready", "publish", "start", "waiting", "remove", "done"},
                sent : 0 .. MaxTick, got : {"nothing", "answer"}]

(* The fields of the requests that a step leaves alone.                    *)
LEMMA CmdTypeStep == ReplyInv /\ [CmdNext]_cmdVars => CmdTypeOK'
  <1> SUFFICES ASSUME ReplyInv, [CmdNext]_cmdVars PROVE CmdTypeOK'
    OBVIOUS
  <1>0. CmdTypeOK
    BY DEF ReplyInv
  <1> USE <1>0, CommandAssumption DEF CmdTypeOK, Begin, CommandEvent, serviceVars, rowVars, Go
  <1>e. ASSUME NEW r \in Requests, NEW op, Begin(r, op) PROVE entangled' \in BOOLEAN
    BY <1>e, Zenon DEF Begin
  <1>1. ASSUME NEW r \in Requests, Enable(r) PROVE CmdTypeOK'
    BY <1>1 DEF Enable, Ops
  <1>2. ASSUME NEW r \in Requests, Monitor(r) PROVE CmdTypeOK'
    BY <1>2 DEF Monitor, Ops
  <1>3. ASSUME NEW r \in Requests, Disable(r) PROVE CmdTypeOK'
    BY <1>3 DEF Disable, Ops
  <1>18. ASSUME NEW r \in Requests, MonitorFails(r) PROVE CmdTypeOK'
    BY <1>18 DEF MonitorFails, Ops
  <1>19. ASSUME NEW r \in Requests, Create(r) PROVE CmdTypeOK'
    BY <1>19 DEF Create, Ops
  <1>20. ASSUME NEW r \in Requests, Patch(r) PROVE CmdTypeOK'
    BY <1>20 DEF Patch, Ops
  <1>4. ASSUME NEW r \in Requests, NEW op \in {"delete", "discard", "forget", "start", "stop"}, Control(r, op)
        PROVE CmdTypeOK'
    BY <1>4 DEF Control, Ops
  <1>5. ASSUME NEW r \in Requests, SendCommand(r) PROVE CmdTypeOK'
    <2>1. request' \in [Requests -> RequestType]
      <3>1. request[r] \in RequestType
        BY DEF RequestType
      <3>2. AfterPublishing(r) \in {"waiting", "start", "remove", "done"}
        BY DEF AfterPublishing
      <3>3. request' = [request EXCEPT ![r] = [@ EXCEPT !.at = AfterPublishing(r), !.sent = tick]]
        BY <1>5 DEF SendCommand
      <3> HIDE DEF AfterPublishing
      <3> QED
        BY <3>1, <3>2, <3>3 DEF RequestType
    <2>2. CommandOf(r) \in Commands
      BY <1>5 DEF ReplyInv, Stages, SendCommand, CommandOf, DeleteCommand, Commands, Ops
    <2>3. [key |-> CommandId(CommandOf(r), tick), at |-> tick, wait |-> Waits(r)] \in Message
      BY <2>2 DEF CommandId, Message, Keys, Waits
    <2>4. channel' \in Seq(Message) /\ lost' \in BOOLEAN
      <3>1. CASE service = "up"
        <4>1. channel' = Append(channel, [key |-> CommandId(CommandOf(r), tick), at |-> tick,
                                          wait |-> Waits(r)])
          BY <1>5, <3>1 DEF SendCommand
        <4>2. lost' = lost
          BY <1>5, <3>1 DEF SendCommand
        <4> QED
          BY <2>3, <4>1, <4>2
      <3>2. CASE service # "up"
        BY <1>5, <3>2 DEF SendCommand
      <3> QED
        BY <3>1, <3>2
    <2> QED
      BY <1>5, <2>1, <2>4 DEF SendCommand, RequestType
  <1>6. ASSUME NEW r \in Requests, PublishFails(r) PROVE CmdTypeOK'
    <2>1. request' \in [Requests -> RequestType]
      BY <1>6, SMTT(40) DEF PublishFails, RequestType
    <2> QED
      BY <1>6, <2>1 DEF PublishFails, RequestType
  <1>7. ASSUME NEW r \in Requests, GetAnswer(r) PROVE CmdTypeOK'
    <2>1. request' \in [Requests -> RequestType]
      <3>1. request[r] \in RequestType
        BY DEF RequestType
      <3>2. AfterWaiting(r) \in {"remove", "done"}
        BY DEF AfterWaiting
      <3>3. request' = [request EXCEPT ![r] = [@ EXCEPT !.at = AfterWaiting(r), !.got = "answer"]]
        BY <1>7 DEF GetAnswer
      <3> QED
        BY <3>1, <3>2, <3>3 DEF RequestType
    <2>2. answers' \subseteq Keys
      BY <1>7 DEF GetAnswer
    <2> QED
      BY <1>7, <2>1, <2>2 DEF GetAnswer, RequestType
  <1>8. ASSUME NEW r \in Requests, TimeOut(r) PROVE CmdTypeOK'
    <2>1. request' \in [Requests -> RequestType]
      <3>1. request[r] \in RequestType
        BY DEF RequestType
      <3>2. AfterWaiting(r) \in {"remove", "done"}
        BY DEF AfterWaiting
      <3>3. request' = [request EXCEPT ![r] = [@ EXCEPT !.at = AfterWaiting(r)]]
        BY <1>8 DEF TimeOut
      <3> QED
        BY <3>1, <3>2, <3>3 DEF RequestType
    <2> QED
      BY <1>8, <2>1 DEF TimeOut, RequestType
  <1>9. ASSUME NEW r \in Requests, RemoveRow(r) PROVE CmdTypeOK'
    BY <1>9, ZenonT(40) DEF RemoveRow
  <1>10. CASE ExecuteCommand
    <2>1. Head(channel) \in Message /\ channel' \in Seq(Message) /\ current' \subseteq Message
      BY <1>10 DEF ExecuteCommand
    <2>2. Head(channel).key[1] \in Commands /\ Head(channel).at \in 0 .. MaxTick
      BY <2>1 DEF Message, Keys
    <2>3. executed' \subseteq Commands \X (0 .. MaxTick)
      BY <1>10, <2>2 DEF ExecuteCommand
    <2>4. known' \in BOOLEAN
      BY <1>10, <2>2 DEF ExecuteCommand
    <2>5. running' \in BOOLEAN
      BY <1>10, Zenon DEF ExecuteCommand
    <2> QED
      BY <1>10, <2>1, <2>3, <2>4, <2>5 DEF ExecuteCommand
  <1>11. CASE AnswerCommand
    BY <1>11 DEF AnswerCommand, Message
  <1>12. ASSUME NEW k \in Keys, AnswerExpires(k) PROVE CmdTypeOK'
    BY <1>12 DEF AnswerExpires
  <1>13. CASE ServiceCrashes
    <2>1. lost' \in BOOLEAN
      BY <1>13, Zenon DEF ServiceCrashes
    <2>2. channel' \in Seq(Message) /\ current' \in SUBSET Message
      BY <1>13 DEF ServiceCrashes
    <2>3. commandEvents' \in 0 .. MaxCommandEvents /\ service' \in {"down", "loaded", "up"}
      BY <1>13 DEF ServiceCrashes
    <2>4. known' \in BOOLEAN /\ running' \in BOOLEAN
      BY <1>13, Zenon DEF ServiceCrashes
    <2> QED
      BY <1>13, <2>1, <2>2, <2>3, <2>4, Zenon DEF ServiceCrashes
  <1>14. CASE LoadRows
    BY <1>14 DEF LoadRows
  <1>15. CASE Listen
    BY <1>15 DEF Listen
  <1>16. CASE TickOn
    BY <1>16 DEF TickOn
  <1>17. CASE UNCHANGED cmdVars
    BY <1>17 DEF cmdVars
  <1> QED
    BY <1>1, <1>2, <1>3, <1>4, <1>5, <1>6, <1>7, <1>8, <1>9, <1>10, <1>11, <1>12, <1>13,
       <1>14, <1>15, <1>16, <1>17, <1>18, <1>19, <1>20 DEF CmdNext

(* Answers and what they stand for.                                        *)
LEMMA ReplyStep == ReplyInv /\ [CmdNext]_cmdVars => ReplyInv'
  <1> SUFFICES ASSUME ReplyInv, [CmdNext]_cmdVars PROVE ReplyInv'
    OBVIOUS
  <1>0. CmdTypeOK /\ CmdTypeOK'
    BY CmdTypeStep DEF ReplyInv
  <1>h. \A q \in Requests : request[q] \in RequestType
    BY <1>0 DEF CmdTypeOK, RequestType
  <1> DEFINE Kept == /\ \A m \in current : Named(m) /\ <<m.key[1], m.at>> \in executed
                     /\ \A i \in 1 .. Len(channel) : Named(channel[i])
                     /\ Told(answers)
             Asked(q) == Stages(q) /\ Answered(q)
  <1> USE <1>0, <1>h DEF serviceVars, Begin, Go, Stages, Answered, RequestType
  <1>k. ASSUME UNCHANGED <<current, channel, answers, executed>> PROVE Kept'
    BY <1>k DEF ReplyInv, Named, Told
  <1>q. ASSUME NEW q \in Requests PROVE Asked(q)
    BY DEF ReplyInv
  <1>1. ASSUME NEW r \in Requests, Enable(r) PROVE Kept' /\ \A q \in Requests : Asked(q)'
    BY <1>1, <1>k, <1>q DEF Enable, CmdTypeOK
  <1>2. ASSUME NEW r \in Requests, Monitor(r) PROVE Kept' /\ \A q \in Requests : Asked(q)'
    BY <1>2, <1>k, <1>q DEF Monitor, CmdTypeOK
  <1>3. ASSUME NEW r \in Requests, Disable(r) PROVE Kept' /\ \A q \in Requests : Asked(q)'
    <2>1. Kept'
      BY <1>3, <1>k DEF Disable
    <2>2. CASE managed
      BY <1>3, <1>q, <2>1, <2>2 DEF Disable, CmdTypeOK
    <2>3. CASE ~managed
      BY <1>3, <1>q, <2>1, <2>3 DEF Disable, CmdTypeOK
    <2> QED
      BY <2>2, <2>3
  <1>19. ASSUME NEW r \in Requests, MonitorFails(r) PROVE Kept' /\ \A q \in Requests : Asked(q)'
    BY <1>19, <1>k, <1>q DEF MonitorFails, CmdTypeOK
  <1>20. ASSUME NEW r \in Requests, Create(r) PROVE Kept' /\ \A q \in Requests : Asked(q)'
    BY <1>20, <1>k, <1>q DEF Create, CmdTypeOK
  <1>21. ASSUME NEW r \in Requests, Patch(r) PROVE Kept' /\ \A q \in Requests : Asked(q)'
    BY <1>21, <1>k, <1>q DEF Patch, CmdTypeOK
  <1>4. ASSUME NEW r \in Requests, NEW op \in {"delete", "discard", "forget", "start", "stop"}, Control(r, op)
        PROVE Kept' /\ \A q \in Requests : Asked(q)'
    <2>1. /\ request' = [request EXCEPT ![r] = [@ EXCEPT !.op = op, !.at = "publish"]]
          /\ request[r].at = "ready" /\ UNCHANGED executed
      BY <1>4 DEF Control
    <2>2. Kept'
      BY <1>4, <1>k DEF Control
    <2>3. \A q \in Requests \ {r} : Asked(q)'
      BY <1>q, <2>1 DEF CmdTypeOK
    <2>4. Asked(r)'
      <3>1. request[r].got # "answer"
        BY <1>q, <2>1
      <3>2. request'[r] = [request[r] EXCEPT !.op = op, !.at = "publish"]
        BY <2>1 DEF CmdTypeOK
      <3>3. request'[r].got # "answer" /\ request'[r].op = op /\ request'[r].at = "publish"
        BY <3>1, <3>2
      <3> QED
        BY <3>3
    <2> QED
      BY <2>2, <2>3, <2>4
  <1>5. ASSUME NEW r \in Requests, SendCommand(r) PROVE Kept' /\ \A q \in Requests : Asked(q)'
    <2>1. \A q \in Requests : Asked(q)'
      <3>1. request[r].at \in {"publish", "start"} /\ AfterPublishing(r) \in {"waiting", "start", "remove", "done"}
        BY <1>5 DEF SendCommand, AfterPublishing
      <3>2. /\ request' = [request EXCEPT ![r] = [@ EXCEPT !.at = AfterPublishing(r), !.sent = tick]]
            /\ UNCHANGED executed
        BY <1>5 DEF SendCommand
      <3>3. \A q \in Requests \ {r} : Asked(q)'
        BY <1>q, <3>2 DEF CmdTypeOK
      <3>4. request'[r] = [request[r] EXCEPT !.at = AfterPublishing(r), !.sent = tick]
        BY <3>2 DEF CmdTypeOK
      <3>5. Asked(r)'
        <4>1. request'[r].got # "answer"
          BY <1>q, <3>1, <3>4
        <4>2. request'[r].at = AfterPublishing(r) /\ request'[r].op = request[r].op
          BY <3>4
        <4>3. Stages(r)
          BY <1>q
        <4>4. AfterPublishing(r) = "start" => request[r].op = "enable"
          BY DEF AfterPublishing
        <4>5. AfterPublishing(r) = "remove" => request[r].op \in {"delete", "discard"}
          BY DEF AfterPublishing
        <4>6. AfterPublishing(r) = "waiting" => request[r].op \in {"enable", "disable", "start", "stop"}
          BY <3>1, <4>3 DEF AfterPublishing, Waits
        <4>7. request[r].op \notin {"?", "monitor", "create", "update"}
          BY <3>1, <4>3
        <4> QED
          BY <3>1, <4>1, <4>2, <4>4, <4>5, <4>6, <4>7
      <3> QED
        BY <3>3, <3>5
    <2>2. Kept'
      <3>1. UNCHANGED <<current, answers, executed>>
        BY <1>5 DEF SendCommand
      <3>2. \A i \in 1 .. Len(channel') : Named(channel'[i])
        <4>1. CASE service = "up"
          <5> DEFINE m == [key |-> CommandId(CommandOf(r), tick), at |-> tick, wait |-> Waits(r)]
          <5>1. channel' = Append(channel, m)
            BY <1>5, <4>1 DEF SendCommand
          <5>2. Named(m)
            BY DEF Named, CommandId
          <5>3. channel \in Seq(Message)
            BY DEF CmdTypeOK
          <5> HIDE DEF m
          <5> QED
            BY <5>1, <5>2, <5>3 DEF ReplyInv
        <4>2. CASE service # "up"
          BY <1>5, <4>2 DEF SendCommand, ReplyInv
        <4> QED
          BY <4>1, <4>2
      <3> QED
        BY <3>1, <3>2 DEF ReplyInv, Told, Named
    <2> QED
      BY <2>1, <2>2
  <1>6. ASSUME NEW r \in Requests, PublishFails(r) PROVE Kept' /\ \A q \in Requests : Asked(q)'
    BY <1>6, <1>k, <1>q DEF PublishFails, CmdTypeOK
  <1>7. ASSUME NEW r \in Requests, GetAnswer(r) PROVE Kept' /\ \A q \in Requests : Asked(q)'
    <2>1. Kept'
      BY <1>7 DEF GetAnswer, ReplyInv, Told, Named
    <2>2. <<IF request[r].op = "enable" THEN "start"
            ELSE IF request[r].op = "disable" THEN "delete" ELSE request[r].op,
            request[r].sent>> \in executed
      BY <1>7, <1>q DEF GetAnswer, ReplyInv, Told, AwaitedKey, CommandOf, DeleteCommand, CommandId
    <2>3. \A q \in Requests : Asked(q)'
      BY <1>7, <1>q, <2>2 DEF GetAnswer, AfterWaiting, CmdTypeOK
    <2> QED
      BY <2>1, <2>3
  <1>8. ASSUME NEW r \in Requests, TimeOut(r) PROVE Kept' /\ \A q \in Requests : Asked(q)'
    BY <1>8, <1>k, <1>q DEF TimeOut, AfterWaiting, CmdTypeOK
  <1>9. ASSUME NEW r \in Requests, RemoveRow(r) PROVE Kept' /\ \A q \in Requests : Asked(q)'
    BY <1>9, <1>k, <1>q DEF RemoveRow, CmdTypeOK
  <1>10. CASE ExecuteCommand
    <2>1. Named(Head(channel)) /\ Head(channel) = channel[1]
      BY <1>10 DEF ExecuteCommand, ReplyInv, CmdTypeOK
    <2>2. Kept'
      <3>1. \A i \in 1 .. Len(channel') : Named(channel'[i])
        BY <1>10, SMTT(40) DEF ExecuteCommand, ReplyInv, CmdTypeOK
      <3>2. /\ executed \subseteq executed'
            /\ <<Head(channel).key[1], Head(channel).at>> \in executed'
        BY <1>10 DEF ExecuteCommand
      <3>3. current' = {Head(channel)} /\ answers' = answers
        BY <1>10 DEF ExecuteCommand
      <3> QED
        BY <2>1, <3>1, <3>2, <3>3 DEF ReplyInv, Told, Named
    <2>3. \A q \in Requests : Asked(q)'
      BY <1>10, <1>q DEF ExecuteCommand
    <2> QED
      BY <2>2, <2>3 DEF ReplyInv
  <1>11. CASE AnswerCommand
    <2>1. Kept'
      <3>1. \A m \in current : <<m.key[1], m.key[2]>> \in executed
        <4> SUFFICES ASSUME NEW m \in current PROVE <<m.key[1], m.key[2]>> \in executed
          OBVIOUS
        <4>1. m.key = <<m.key[1], m.at>> /\ <<m.key[1], m.at>> \in executed
          BY DEF ReplyInv, Named
        <4>2. m.key[2] = m.at
          BY <4>1
        <4> QED
          BY <4>1, <4>2
      <3>2. \A k \in answers' : k \in answers \/ \E m \in current : k = m.key
        BY <1>11 DEF AnswerCommand
      <3> QED
        BY <1>11, <3>1, <3>2 DEF AnswerCommand, ReplyInv, Told, Named
    <2> QED
      BY <1>11, <1>q, <2>1 DEF AnswerCommand, ReplyInv
  <1>12. ASSUME NEW k \in Keys, AnswerExpires(k) PROVE ReplyInv'
    <2>1. Kept'
      BY <1>12 DEF AnswerExpires, ReplyInv, Named, Told
    <2> QED
      BY <1>12, <1>q, <2>1 DEF AnswerExpires, ReplyInv
  <1>13. CASE ServiceCrashes
    <2>1. Kept'
      BY <1>13 DEF ServiceCrashes, ReplyInv, Named, Told
    <2> QED
      BY <1>13, <1>q, <2>1 DEF ServiceCrashes, ReplyInv
  <1>14. CASE LoadRows
    BY <1>14, <1>k, <1>q DEF LoadRows, ReplyInv
  <1>15. CASE Listen
    BY <1>15, <1>k, <1>q DEF Listen, ReplyInv
  <1>16. CASE TickOn
    BY <1>16, <1>k, <1>q DEF TickOn, ReplyInv
  <1>17. CASE UNCHANGED cmdVars
    BY <1>17, <1>k, <1>q DEF cmdVars, ReplyInv
  <1>18. ASSUME Kept', \A q \in Requests : Asked(q)' PROVE ReplyInv'
    BY <1>18 DEF ReplyInv
  <1> HIDE DEF Kept, Asked
  <1> QED
    BY <1>1, <1>2, <1>3, <1>4, <1>5, <1>6, <1>7, <1>8, <1>9, <1>10, <1>11, <1>12, <1>13,
       <1>14, <1>15, <1>16, <1>17, <1>18, <1>19, <1>20, <1>21 DEF CmdNext

(***************************************************************************)
(* The service and the database. HasSource: will the service have the      *)
(* source when it has worked off its channel?                              *)
(***************************************************************************)
Command(i) == channel[i].key[1]
HasSource ==
    \/ \E i \in 1 .. Len(channel) :
         /\ Command(i) = "add"
         /\ \A j \in 1 .. Len(channel) : j > i => Command(j) # "delete"
    \/ known /\ \A j \in 1 .. Len(channel) : Command(j) # "delete"

LEMMA NoChannel ==
    ASSUME channel = <<>>
    PROVE  HasSource <=> known
  BY DEF HasSource

LEMMA SameChannel ==
    ASSUME UNCHANGED <<known, channel>>
    PROVE  HasSource' <=> HasSource
  BY DEF HasSource, Command

(* A command appended to the channel has the last word.                    *)
LEMMA SentLast ==
    ASSUME CmdTypeOK, NEW m, channel' = Append(channel, m), known' = known
    PROVE  HasSource' <=> (m.key[1] = "add" \/ (HasSource /\ m.key[1] # "delete"))
  <1>1. /\ channel \in Seq(Message)
        /\ Len(channel') = Len(channel) + 1 /\ channel'[Len(channel) + 1] = m
        /\ \A i \in 1 .. Len(channel) : channel'[i] = channel[i]
    BY DEF CmdTypeOK
  <1>2. Len(channel) \in Nat /\ 1 .. Len(channel') = (1 .. Len(channel)) \cup {Len(channel) + 1}
    BY <1>1
  <1>3. ASSUME m.key[1] = "add" PROVE HasSource'
    <2>1. Len(channel) + 1 \in 1 .. Len(channel') /\ channel'[Len(channel) + 1].key[1] = "add"
      BY <1>1, <1>2, <1>3
    <2>2. \A j \in 1 .. Len(channel') : ~(j > Len(channel) + 1)
      BY <1>1, <1>2
    <2> QED
      BY <2>1, <2>2 DEF HasSource, Command
  <1>4. ASSUME m.key[1] = "delete" PROVE ~HasSource'
    BY <1>1, <1>2, <1>4 DEF HasSource, Command
  <1>5. ASSUME m.key[1] \notin {"add", "delete"} PROVE HasSource' <=> HasSource
    BY <1>1, <1>2, <1>5 DEF HasSource, Command
  <1> QED
    BY <1>3, <1>4, <1>5

(* What the service executes it would have executed anyway.                *)
LEMMA ExecutedFirst ==
    ASSUME CmdTypeOK, ExecuteCommand
    PROVE  HasSource' <=> HasSource
  <1>1. /\ channel \in Seq(Message) /\ Len(channel) > 0
        /\ Len(channel') = Len(channel) - 1
        /\ \A i \in 1 .. Len(channel') : channel'[i] = channel[i + 1]
    BY DEF CmdTypeOK, ExecuteCommand
  <1>2. /\ Command(1) = "add" => known'
        /\ Command(1) = "delete" => ~known'
        /\ Command(1) \notin {"add", "delete"} => (known' <=> known)
    BY <1>1 DEF ExecuteCommand, Command
  <1>3. \A i \in 1 .. Len(channel') : channel'[i].key[1] = Command(i + 1)
    BY <1>1 DEF Command
  <1>4. \A i \in 2 .. Len(channel) : Command(i) = channel'[i - 1].key[1]
    BY <1>1 DEF Command
  <1>5. Len(channel) \in Nat /\ Len(channel') \in Nat
    BY <1>1
  <1>6. ASSUME HasSource PROVE HasSource'
    <2>1. ASSUME NEW i \in 1 .. Len(channel), Command(i) = "add",
                 \A j \in 1 .. Len(channel) : j > i => Command(j) # "delete"
          PROVE  HasSource'
      <3>1. CASE i = 1
        <4>1. known'
          BY <1>2, <2>1, <3>1
        <4>2. \A j \in 1 .. Len(channel') : channel'[j].key[1] # "delete"
          BY <1>1, <1>3, <1>5, <2>1, <3>1
        <4> QED
          BY <4>1, <4>2 DEF HasSource, Command
      <3>2. CASE i > 1
        <4>1. i - 1 \in 1 .. Len(channel') /\ channel'[i - 1].key[1] = "add"
          BY <1>1, <1>4, <1>5, <2>1, <3>2
        <4>2. \A j \in 1 .. Len(channel') : j > i - 1 => channel'[j].key[1] # "delete"
          BY <1>1, <1>3, <1>5, <2>1, <3>2
        <4> QED
          BY <4>1, <4>2 DEF HasSource, Command
      <3> QED
        BY <3>1, <3>2
    <2>2. ASSUME known, \A j \in 1 .. Len(channel) : Command(j) # "delete"
          PROVE  HasSource'
      <3>1. known' /\ \A j \in 1 .. Len(channel') : channel'[j].key[1] # "delete"
        BY <1>1, <1>2, <1>3, <1>5, <2>2
      <3> QED
        BY <3>1 DEF HasSource, Command
    <2> QED
      BY <1>6, <2>1, <2>2 DEF HasSource
  <1>7. ASSUME HasSource' PROVE HasSource
    <2>1. ASSUME NEW i \in 1 .. Len(channel'), channel'[i].key[1] = "add",
                 \A j \in 1 .. Len(channel') : j > i => channel'[j].key[1] # "delete"
          PROVE  HasSource
      <3>1. i + 1 \in 1 .. Len(channel) /\ Command(i + 1) = "add"
        BY <1>1, <1>3, <1>5, <2>1
      <3>2. \A j \in 1 .. Len(channel) : j > i + 1 => Command(j) # "delete"
        BY <1>1, <1>4, <1>5, <2>1, SMTT(40)
      <3> QED
        BY <3>1, <3>2 DEF HasSource
    <2>2. ASSUME known', \A j \in 1 .. Len(channel') : channel'[j].key[1] # "delete"
          PROVE  HasSource
      <3>1. \A j \in 2 .. Len(channel) : Command(j) # "delete"
        BY <1>1, <1>4, <1>5, <2>2
      <3>2. Command(1) = "add" \/ (known /\ Command(1) # "delete")
        BY <1>2, <2>2
      <3> QED
        BY <1>1, <1>5, <3>1, <3>2 DEF HasSource
    <2> QED
      BY <1>7, <2>1, <2>2 DEF HasSource, Command
  <1> QED
    BY <1>6, <1>7

Calm == ~lost /\ ~entangled
Changing(r) == Underway(r) /\ Changes(request[r].op)
Agreed == (HasSource => dbRow # "none") /\ (dbRow = "auto" => HasSource \/ untold)

(* How far a request that changes the source has come.                     *)
Midway(r) ==
    Changing(r) =>
        /\ request[r].op = "enable" =>
              dbRow = "auto" /\ (request[r].at \in {"start", "waiting"} => HasSource)
        /\ request[r].at \in {"waiting", "remove"} /\ request[r].op # "enable" => ~HasSource

CalmInv ==
    /\ \A r, q \in Requests : Changing(r) /\ Underway(q) => r = q
    /\ \A r \in Requests : Underway(r) /\ request[r].op = "forget" => dbRow = "none"
    /\ service # "down" =>
         /\ (\A r \in Requests : ~Changing(r)) => Agreed
         /\ \A r \in Requests : Midway(r)

AgreeInv ==
    /\ ReplyInv
    /\ service # "up" => channel = <<>>
    /\ Calm => CalmInv

LEMMA AgreeInit == CmdInit => AgreeInv
  <1> SUFFICES ASSUME CmdInit PROVE AgreeInv
    OBVIOUS
  <1>1. ReplyInv
    BY ReplyInit
  <1>2. \A r \in Requests : ~Underway(r)
    BY DEF CmdInit, Underway
  <1>3. HasSource <=> known
    BY NoChannel DEF CmdInit
  <1>4. Agreed
    BY <1>3, Zenon DEF Agreed, CmdInit
  <1>5. CalmInv
    BY <1>2, <1>4 DEF CalmInv, Changing, Midway
  <1>7. service # "up" => channel = <<>>
    BY DEF CmdInit
  <1> QED
    BY <1>1, <1>5, <1>7 DEF AgreeInv

(* A request that begins while the station is calm and leaves it calm is   *)
(* alone if it changes the source, and meets nobody who does.              *)
LEMMA BeginsAlone ==
    ASSUME NEW r \in Requests, NEW op, Calm', lost' = lost,
           entangled' = (entangled \/ Entangles(r, op))
    PROVE  /\ Calm
           /\ \A q \in Requests \ {r} : ~Changing(q)
           /\ Changes(op) => \A q \in Requests \ {r} : ~Underway(q)
  <1>1. ~lost /\ ~entangled /\ ~Entangles(r, op)
    BY DEF Calm
  <1> QED
    BY <1>1 DEF Calm, Entangles, Changing

(* A request that changes the row and is done with it, in one step.        *)
LEMMA DoneAtOnce ==
    ASSUME request \in [Requests -> RequestType], Calm => CalmInv, Calm',
           NEW r \in Requests, NEW op, Changes(op), request[r].at = "ready",
           entangled' = (entangled \/ Entangles(r, op)), UNCHANGED <<lost, service>>,
           request' = [request EXCEPT ![r].op = op, ![r].at = "done"],
           Agreed => Agreed'
    PROVE  CalmInv'
  <1>1. Calm /\ \A q \in Requests \ {r} : ~Underway(q)
    BY BeginsAlone
  <1>2. \A q \in Requests \ {r} : request'[q] = request[q]
    OBVIOUS
  <1>3. request'[r].at = "done"
    BY DEF RequestType
  <1>4. \A q \in Requests : ~Underway(q) /\ ~Underway(q)'
    BY <1>1, <1>2, <1>3 DEF Underway
  <1>5. service # "down" => Agreed
    BY <1>1, <1>4 DEF CalmInv, Changing
  <1> QED
    BY <1>4, <1>5 DEF CalmInv, Changing, Midway

(* The parts of the state that CalmInv reads.                              *)
LEMMA CalmKept ==
    ASSUME CalmInv, UNCHANGED <<request, dbRow, untold, service>>, HasSource' <=> HasSource
    PROVE  CalmInv'
  <1>1. HasSource' <=> HasSource
    OBVIOUS
  <1>2. Agreed' <=> Agreed
    BY <1>1 DEF Agreed
  <1>3. \A r \in Requests : /\ Changing(r)' <=> Changing(r)
                            /\ Underway(r)' <=> Underway(r)
                            /\ Midway(r)' <=> Midway(r)
    BY <1>1 DEF Changing, Underway, Midway
  <1> QED
    BY <1>2, <1>3 DEF CalmInv

(* A request goes from one place to another, and nothing else changes.     *)
LEMMA Proceeds ==
    ASSUME CalmInv, NEW r \in Requests,
           UNCHANGED <<dbRow, untold, service>>,
           HasSource' <=> HasSource,
           \A q \in Requests \ {r} : request'[q] = request[q],
           request'[r].op = request[r].op,
           Underway(r), request'[r].at # "ready",
           Changing(r) => \/ Underway(r)' /\ (service # "down" => Midway(r)')
                          \/ ~Underway(r)' /\ (service # "down" => Agreed)
    PROVE  CalmInv'
  <1>1. Agreed' <=> Agreed
    BY DEF Agreed
  <1>2. ASSUME NEW q \in Requests \ {r}
        PROVE  /\ Changing(q)' <=> Changing(q)
               /\ Underway(q)' <=> Underway(q)
               /\ Midway(q)' <=> Midway(q)
    <2>1. request'[q] = request[q]
      OBVIOUS
    <2>2. (Underway(q)' <=> Underway(q)) /\ (Changing(q)' <=> Changing(q))
      BY <2>1 DEF Changing, Underway
    <2>3. Midway(q)' <=> Midway(q)
      BY <2>1, <2>2 DEF Midway
    <2> QED
      BY <2>2, <2>3
  <1>3. Changing(r)' => Changing(r)
    BY DEF Changing
  <1>4. ~Changing(r) => ((\A q \in Requests : ~Changing(q)') => Agreed' \/ service = "down")
    BY <1>1, <1>2, <1>3 DEF CalmInv
  <1>5. Underway(r)' => Underway(r)
    OBVIOUS
  <1>6. \A p, q \in Requests : (Changing(p) /\ Underway(q))' => p = q
    BY <1>2, <1>3, <1>5 DEF CalmInv
  <1>7. \A q \in Requests : Underway(q)' /\ request'[q].op = "forget" => dbRow' = "none"
    BY <1>2, <1>5 DEF CalmInv
  <1>8. service # "down" /\ (\A q \in Requests : ~Changing(q)') => Agreed'
    <2>1. CASE Changing(r)
      BY <1>1, <2>1 DEF Changing
    <2>2. CASE ~Changing(r)
      BY <1>4, <2>2
    <2> QED
      BY <2>1, <2>2
  <1>9. service # "down" => \A q \in Requests : Midway(q)'
    <2>1. service # "down" => Midway(r)'
      BY <1>3 DEF Midway, Changing
    <2> QED
      BY <1>2, <2>1 DEF CalmInv
  <1> QED
    BY <1>6, <1>7, <1>8, <1>9 DEF CalmInv

LEMMA AgreeStep == AgreeInv /\ [CmdNext]_cmdVars => AgreeInv'
  <1> SUFFICES ASSUME AgreeInv, [CmdNext]_cmdVars PROVE AgreeInv'
    OBVIOUS
  <1>0. CmdTypeOK /\ ReplyInv'
    BY ReplyStep DEF AgreeInv, ReplyInv
  <1>h. \A q \in Requests : request[q] \in RequestType /\ Stages(q)
    BY <1>0 DEF CmdTypeOK, RequestType, AgreeInv, ReplyInv
  <1>f. request \in [Requests -> RequestType]
    BY <1>0 DEF CmdTypeOK, RequestType
  <1> DEFINE Rest == /\ service # "up" => channel = <<>>
                     /\ Calm => CalmInv
  <1>r. Rest
    BY DEF AgreeInv
  <1>s. SUFFICES Rest'
    BY <1>0 DEF AgreeInv
  <1>1. ASSUME NEW r \in Requests, Enable(r) PROVE Rest'
    <2>1. /\ Begin(r, "enable") /\ dbRow' = "auto" /\ UNCHANGED <<service, known, channel>>
          /\ request' = [request EXCEPT ![r].op = "enable", ![r].at = "publish"]
      BY <1>1 DEF Enable, Begin, serviceVars
    <2>2. ASSUME Calm' PROVE CalmInv'
      <3>1. \A q \in Requests \ {r} : ~Underway(q)'
        <4>1. \A q \in Requests \ {r} : ~Underway(q)
          BY <2>1, <2>2, BeginsAlone DEF Changes, Begin
        <4>2. \A q \in Requests \ {r} : request'[q] = request[q]
          BY <1>f, <2>1
        <4> QED
          BY <4>1, <4>2 DEF Underway
      <3>2. request'[r].op = "enable" /\ request'[r].at = "publish"
        BY <1>f, <2>1 DEF RequestType
      <3> QED
        BY <2>1, <3>1, <3>2 DEF CalmInv, Changing, Underway, Changes, Midway
    <2> QED
      BY <1>r, <2>1, <2>2
  <1>2. ASSUME NEW r \in Requests, Monitor(r) PROVE Rest'
    <2>1. /\ Begin(r, "monitor") /\ dbRow' = "idle" /\ UNCHANGED <<service, known, channel>>
          /\ request' = [request EXCEPT ![r].op = "monitor", ![r].at = "done"]
      BY <1>2 DEF Monitor, Begin, serviceVars
    <2>2. Agreed => Agreed'
      BY <2>1 DEF Agreed
    <2>3. ASSUME Calm' PROVE CalmInv'
      BY <1>f, <1>r, <2>1, <2>2, <2>3, DoneAtOnce DEF Begin, Changes
    <2> QED
      BY <1>r, <2>1, <2>3
  <1>20. ASSUME NEW r \in Requests, MonitorFails(r) PROVE Rest'
    <2>1. /\ request[r].at = "ready" /\ entangled' = (entangled \/ Entangles(r, "monitor"))
          /\ UNCHANGED <<dbRow, untold, lost, service, known, channel>>
          /\ request' = [request EXCEPT ![r].op = "monitor", ![r].at = "done"]
      BY <1>20 DEF MonitorFails, serviceVars
    <2>2. Agreed => Agreed'
      BY <2>1, SameChannel DEF Agreed
    <2>3. ASSUME Calm' PROVE CalmInv'
      BY <1>f, <1>r, <2>1, <2>2, <2>3, DoneAtOnce DEF Changes
    <2> QED
      BY <1>r, <2>1, <2>3
  <1>21. ASSUME NEW r \in Requests, Create(r) PROVE Rest'
    <2>1. /\ Begin(r, "create") /\ dbRow = "none" /\ dbRow' # "none"
          /\ untold' = (dbRow' = "auto") /\ UNCHANGED <<service, known, channel>>
          /\ request' = [request EXCEPT ![r].op = "create", ![r].at = "done"]
      BY <1>21 DEF Create, Begin, serviceVars
    <2>2. Agreed => Agreed'
      BY <2>1 DEF Agreed
    <2>3. ASSUME Calm' PROVE CalmInv'
      BY <1>f, <1>r, <2>1, <2>2, <2>3, DoneAtOnce DEF Begin, Changes
    <2> QED
      BY <1>r, <2>1, <2>3
  <1>22. ASSUME NEW r \in Requests, Patch(r) PROVE Rest'
    <2>1. /\ Begin(r, "update") /\ dbRow' # "none" /\ UNCHANGED <<service, known, channel>>
          /\ untold' = (dbRow' = "auto" /\ (untold \/ dbRow # "auto"))
          /\ request' = [request EXCEPT ![r].op = "update", ![r].at = "done"]
      BY <1>22 DEF Patch, Begin, serviceVars
    <2>2. Agreed => Agreed'
      BY <2>1, SameChannel DEF Agreed
    <2>3. ASSUME Calm' PROVE CalmInv'
      BY <1>f, <1>r, <2>1, <2>2, <2>3, DoneAtOnce DEF Begin, Changes
    <2> QED
      BY <1>r, <2>1, <2>3
  <1>3. ASSUME NEW r \in Requests, Disable(r) PROVE Rest'
    <2>1. /\ Begin(r, "disable") /\ UNCHANGED <<dbRow, untold, service, known, channel>>
          /\ request' = [request EXCEPT ![r].op = "disable",
                                        ![r].at = IF managed THEN "publish" ELSE "done"]
      BY <1>3 DEF Disable, Begin, serviceVars
    <2>2. Agreed => Agreed'
      BY <2>1, SameChannel DEF Agreed
    <2>3. ASSUME ~managed, Calm' PROVE CalmInv'
      BY <1>f, <1>r, <2>1, <2>2, <2>3, DoneAtOnce DEF Begin, Changes
    <2>4. ASSUME managed, Calm' PROVE CalmInv'
      <3>1. \A q \in Requests \ {r} : ~Underway(q)'
        <4>1. \A q \in Requests \ {r} : ~Underway(q)
          BY <2>1, <2>4, BeginsAlone DEF Changes, Begin
        <4>2. \A q \in Requests \ {r} : request'[q] = request[q]
          BY <1>f, <2>1
        <4> QED
          BY <4>1, <4>2 DEF Underway
      <3>2. request'[r].op = "disable" /\ request'[r].at = "publish"
        BY <1>f, <2>1, <2>4 DEF RequestType
      <3> QED
        BY <2>1, <3>1, <3>2 DEF CalmInv, Changing, Underway, Changes, Midway
    <2> QED
      BY <1>r, <2>1, <2>3, <2>4
  <1>4. ASSUME NEW r \in Requests, NEW op \in {"delete", "discard", "forget", "start", "stop"}, Control(r, op)
        PROVE Rest'
    <2>1. /\ Begin(r, op) /\ UNCHANGED <<dbRow, untold, service, known, channel>>
          /\ request' = [request EXCEPT ![r].op = op, ![r].at = "publish"]
          /\ op = "forget" => dbRow = "none"
      BY <1>4 DEF Control, Begin, serviceVars, rowVars
    <2>2. ASSUME Calm' PROVE CalmInv'
      <3>1. /\ Calm /\ \A q \in Requests \ {r} : ~Changing(q)
            /\ Changes(op) => \A q \in Requests \ {r} : ~Underway(q)
        BY <2>1, <2>2, BeginsAlone DEF Begin
      <3>2. request'[r].op = op /\ request'[r].at = "publish" /\ Underway(r)'
        BY <1>f, <2>1 DEF RequestType, Underway
      <3>3. \A q \in Requests \ {r} : request'[q] = request[q]
        BY <1>f, <2>1
      <3>4. ~Underway(r)
        BY <2>1 DEF Begin, Underway
      <3>5. \A q \in Requests \ {r} : (Underway(q)' <=> Underway(q)) /\ ~Changing(q)'
        BY <3>1, <3>3 DEF Underway, Changing
      <3>6. \A p, q \in Requests : (Changing(p) /\ Underway(q))' => p = q
        BY <3>1, <3>2, <3>5 DEF Changing
      <3>7. \A q \in Requests : Underway(q)' /\ request'[q].op = "forget" => dbRow' = "none"
        BY <1>r, <2>1, <3>1, <3>2, <3>3, <3>5 DEF CalmInv
      <3>8. service # "down" => Agreed'
        <4>1. HasSource' <=> HasSource
          BY <2>1, SameChannel
        <4>2. \A q \in Requests : ~Changing(q)
          BY <3>1, <3>4 DEF Changing
        <4> QED
          BY <1>r, <2>1, <3>1, <4>1, <4>2 DEF CalmInv, Agreed
      <3>9. Midway(r)'
        BY <3>2 DEF Midway, Changes, Changing
      <3>10. \A q \in Requests \ {r} : Midway(q)'
        BY <3>5 DEF Midway
      <3> QED
        BY <2>1, <3>6, <3>7, <3>8, <3>9, <3>10 DEF CalmInv
    <2> QED
      BY <1>r, <2>1, <2>2
  <1>5. ASSUME NEW r \in Requests, SendCommand(r) PROVE Rest'
    <2>1. /\ UNCHANGED <<dbRow, untold, service, known>>
          /\ request' = [request EXCEPT ![r] = [@ EXCEPT !.at = AfterPublishing(r), !.sent = tick]]
          /\ request[r].at \in {"publish", "start"}
      BY <1>5 DEF SendCommand, serviceVars, rowVars
    <2>2. CASE service # "up"
      <3>1. lost' /\ channel' = channel
        BY <1>5, <2>2 DEF SendCommand
      <3> QED
        BY <1>r, <2>1, <3>1 DEF Calm
    <2>3. CASE service = "up"
      <3> DEFINE m == [key |-> CommandId(CommandOf(r), tick), at |-> tick, wait |-> Waits(r)]
      <3>1. channel' = Append(channel, m) /\ lost' = lost /\ entangled' = entangled
        BY <1>5, <2>3 DEF SendCommand
      <3>2. m.key[1] = CommandOf(r)
        BY DEF CommandId
      <3> HIDE DEF m
      <3>3. HasSource' <=> (CommandOf(r) = "add" \/ (HasSource /\ CommandOf(r) # "delete"))
        BY <1>0, <2>1, <3>1, <3>2, SentLast
      <3>4. SUFFICES ASSUME Calm PROVE CalmInv'
        BY <1>r, <2>1, <2>3, <3>1 DEF Calm
      <3>5. CalmInv
        BY <1>r, <3>4
      <3>6. \A q \in Requests \ {r} : request'[q] = request[q]
        BY <1>f, <2>1
      <3>7. request'[r].op = request[r].op /\ request'[r].at = AfterPublishing(r)
        BY <1>f, <2>1 DEF RequestType
      <3>8. Underway(r) /\ AfterPublishing(r) # "ready"
        BY <2>1 DEF Underway, AfterPublishing
      <3>9. CASE request[r].at = "start" \/ request[r].op \in {"start", "stop"}
        <4>1. HasSource' <=> HasSource
          <5>1. CommandOf(r) \in {"start", "stop"}
            <6>1. CASE request[r].at = "start"
              BY <6>1 DEF CommandOf
            <6>2. CASE request[r].at # "start"
              BY <3>9, <6>2 DEF CommandOf
            <6> QED
              BY <6>1, <6>2
          <5> QED
            BY <3>3, <5>1
        <4>2. ASSUME Changing(r) PROVE Underway(r)' /\ Midway(r)'
          <5>1. request[r].at = "start" /\ request[r].op = "enable" /\ request'[r].at = "waiting"
            BY <1>h, <3>7, <3>9, <4>2 DEF Changing, Changes, Stages, AfterPublishing, Waits
          <5>2. dbRow = "auto" /\ HasSource
            BY <2>3, <3>5, <4>2, <5>1 DEF CalmInv, Midway
          <5> QED
            BY <2>1, <3>7, <4>1, <5>1, <5>2 DEF Underway, Midway
        <4> QED
          BY <2>1, <3>5, <3>6, <3>7, <3>8, <4>1, <4>2, Proceeds
      <3>10. CASE request[r].at = "publish" /\ request[r].op \in {"enable", "disable", "delete", "discard"}
        <4>1. Changing(r) /\ \A q \in Requests \ {r} : ~Underway(q)
          BY <3>5, <3>8, <3>10 DEF CalmInv, Changing, Changes
        <4>2. \A q \in Requests \ {r} : ~Underway(q)'
          BY <3>6, <4>1 DEF Underway
        <4>3. Midway(r) 
          BY <2>3, <3>5 DEF CalmInv
        <4>4. CASE request[r].op = "enable"
          <5>1. HasSource' /\ request'[r].at = "start"
            BY <3>3, <3>7, <3>10, <4>4 DEF CommandOf, AfterPublishing, Waits
          <5>2. dbRow' = "auto" /\ Underway(r)' /\ Changing(r)'
            BY <2>1, <3>7, <4>1, <4>3, <4>4, <5>1 DEF Midway, Underway, Changing, Changes
          <5> QED
            BY <3>7, <4>2, <4>4, <5>1, <5>2 DEF CalmInv, Changing, Midway
        <4>5. CASE request[r].op \in {"disable", "delete", "discard"}
          <5>1. ~HasSource' /\ request'[r].at \in {"waiting", "remove"}
            BY <3>3, <3>7, <3>10, <4>5 DEF CommandOf, AfterPublishing, Waits, DeleteCommand
          <5>2. Underway(r)' /\ Changing(r)'
            BY <3>7, <4>5, <5>1 DEF Underway, Changing, Changes
          <5> QED
            BY <3>7, <4>2, <4>5, <5>1, <5>2 DEF CalmInv, Changing, Midway
        <4> QED
          BY <3>10, <4>4, <4>5
      <3>11. CASE request[r].at = "publish" /\ request[r].op = "forget"
        <4>1. ~HasSource' /\ request'[r].at = "done" /\ dbRow = "none"
          BY <3>3, <3>5, <3>7, <3>8, <3>11 DEF CommandOf, AfterPublishing, Waits, DeleteCommand, CalmInv
        <4>2. \A q \in Requests : ~Changing(q)
          BY <3>5, <3>8, <3>11 DEF CalmInv, Changing, Changes
        <4>3. ~Underway(r)'
          BY <4>1 DEF Underway
        <4>4. \A q \in Requests : ~Changing(q)' /\ (Underway(q)' => Underway(q) /\ q # r)
          BY <3>6, <4>2, <4>3 DEF Changing, Underway
        <4> QED
          BY <2>1, <3>5, <3>6, <4>1, <4>4 DEF CalmInv, Midway, Agreed
      <3> QED
        BY <1>h, <2>1, <3>9, <3>10, <3>11 DEF RequestType, Stages, Ops
    <2> QED
      BY <2>2, <2>3
  <1>6. ASSUME NEW r \in Requests, PublishFails(r) PROVE Rest'
    BY <1>6, <1>r DEF PublishFails, Calm, serviceVars, rowVars, rowVars
  <1>7. ASSUME NEW r \in Requests, NEW g \in {"nothing", "answer"}, request[r].at = "waiting",
               request' = [request EXCEPT ![r] = [@ EXCEPT !.at = AfterWaiting(r), !.got = g]],
               UNCHANGED <<dbRow, untold, service, known, channel, lost, entangled>>
        PROVE  Rest'
    <2>1. SUFFICES ASSUME Calm, CalmInv PROVE CalmInv'
      BY <1>r, <1>7 DEF Calm
    <2>2. HasSource' <=> HasSource
      BY <1>7, SameChannel
    <2>3. \A q \in Requests \ {r} : request'[q] = request[q]
      BY <1>f, <1>7
    <2>4. request'[r].op = request[r].op /\ request'[r].at = AfterWaiting(r)
      BY <1>f, <1>7 DEF RequestType
    <2>5. Underway(r) /\ AfterWaiting(r) # "ready"
      BY <1>7 DEF Underway, AfterWaiting
    <2>6. ASSUME Changing(r)
          PROVE  \/ Underway(r)' /\ (service # "down" => Midway(r)')
                 \/ ~Underway(r)' /\ (service # "down" => Agreed)
      <3>1. request[r].op \in {"enable", "disable"}
        BY <1>h, <1>7, <2>6 DEF Changing, Changes, Stages
      <3>2. service # "down" => Midway(r)
        BY <2>1 DEF CalmInv
      <3>3. CASE request[r].op = "enable"
        BY <1>7, <2>4, <2>6, <3>2, <3>3 DEF AfterWaiting, Underway, Midway, Agreed
      <3>4. CASE request[r].op = "disable"
        <4>1. request'[r].at = "remove"
          BY <2>4, <3>4 DEF AfterWaiting
        <4>2. Underway(r)'
          BY <4>1 DEF Underway
        <4>3. service # "down" => Midway(r)'
          BY <1>7, <2>2, <2>4, <2>6, <3>2, <3>4, <4>1 DEF Midway
        <4> QED
          BY <4>2, <4>3
      <3> QED
        BY <3>1, <3>3, <3>4
    <2> QED
      BY <1>7, <2>1, <2>2, <2>3, <2>4, <2>5, <2>6, Proceeds
  <1>8. ASSUME NEW r \in Requests, GetAnswer(r) PROVE Rest'
    <2>1. /\ request[r].at = "waiting"
          /\ request' = [request EXCEPT ![r] = [@ EXCEPT !.at = AfterWaiting(r), !.got = "answer"]]
          /\ UNCHANGED <<dbRow, untold, service, known, channel, lost, entangled>>
      BY <1>8 DEF GetAnswer, serviceVars, rowVars
    <2> QED
      BY <1>7, <2>1
  <1>9. ASSUME NEW r \in Requests, TimeOut(r) PROVE Rest'
    <2>1. request[r].got \in {"nothing", "answer"}
      BY <1>h DEF RequestType
    <2>2. /\ request[r].at = "waiting"
          /\ request' = [request EXCEPT ![r] = [@ EXCEPT !.at = AfterWaiting(r), !.got = request[r].got]]
          /\ UNCHANGED <<dbRow, untold, service, known, channel, lost, entangled>>
      BY <1>9, <1>f, <1>h DEF TimeOut, Go, serviceVars, rowVars, RequestType
    <2> QED
      BY <1>7, <2>1, <2>2
  <1>10. ASSUME NEW r \in Requests, RemoveRow(r) PROVE Rest'
    <2>1. /\ request[r].at = "remove" /\ dbRow' = "none"
          /\ request' = [request EXCEPT ![r].at = "done"]
          /\ UNCHANGED <<service, known, channel, lost, entangled>>
      BY <1>10 DEF RemoveRow, Go, serviceVars
    <2>3. ASSUME Calm, CalmInv PROVE CalmInv'
      <3>1. request[r].op \in {"disable", "delete", "discard"}
        BY <1>h, <2>1 DEF Stages
      <3>2. Changing(r) /\ ~Underway(r)'
        BY <1>f, <2>1, <3>1 DEF Changing, Changes, Underway, RequestType
      <3>3. \A q \in Requests \ {r} : ~Underway(q)'
        <4>1. \A q \in Requests \ {r} : request'[q] = request[q]
          BY <1>f, <2>1
        <4> QED
          BY <2>3, <3>2, <4>1 DEF CalmInv, Underway
      <3>4. service # "down" => ~HasSource
        BY <2>1, <2>3, <3>1, <3>2 DEF CalmInv, Midway
      <3>5. HasSource' <=> HasSource
        BY <2>1, SameChannel
      <3> QED
        BY <2>1, <3>2, <3>3, <3>4, <3>5 DEF CalmInv, Changing, Midway, Agreed
    <2> QED
      BY <1>r, <2>1, <2>3 DEF Calm
  <1>11. CASE ExecuteCommand
    <2>1. UNCHANGED <<request, dbRow, untold, service, lost, entangled>> /\ service = "up"
      BY <1>11 DEF ExecuteCommand, rowVars
    <2>2. HasSource' <=> HasSource
      BY <1>0, <1>11, ExecutedFirst
    <2> QED
      BY <1>r, <2>1, <2>2, CalmKept DEF Calm
  <1>12. ASSUME UNCHANGED <<request, dbRow, untold, service, known, channel, lost, entangled>> PROVE Rest'
    BY <1>r, <1>12, SameChannel, CalmKept DEF Calm
  <1>13. CASE ServiceCrashes
    <2>1. /\ service' = "down" /\ channel' = <<>> /\ UNCHANGED <<dbRow, untold, request>>
      BY <1>13 DEF ServiceCrashes, rowVars
    <2>2. Calm' => Calm
      BY <1>13, Zenon DEF ServiceCrashes, Calm
    <2>3. ASSUME CalmInv PROVE CalmInv'
      BY <2>1, <2>3 DEF CalmInv, Changing, Underway
    <2> QED
      BY <1>r, <2>1, <2>2, <2>3
  <1>14. CASE LoadRows
    <2>1. /\ service = "down" /\ service' = "loaded" /\ UNCHANGED <<channel, request>>
          /\ channel = <<>>
      BY <1>14, <1>r DEF LoadRows
    <2>2. HasSource' <=> known'
      BY <2>1 DEF HasSource
    <2>3. known' => dbRow' # "none"
      BY <1>14, Zenon DEF LoadRows
    <2>4. ASSUME Calm'
          PROVE  /\ Calm /\ \A q \in Requests : ~Changing(q)
                 /\ dbRow' # dbRow => \A q \in Requests : ~Underway(q)
                 /\ dbRow' # "none" => known'
      BY <1>14, <2>4, Zenon DEF LoadRows, Calm, Changing
    <2>5. \A q \in Requests : (Changing(q)' <=> Changing(q)) /\ (Underway(q)' <=> Underway(q))
      BY <2>1 DEF Changing, Underway
    <2>6. ASSUME Calm' PROVE CalmInv'
      <3>1. Agreed'
        BY <2>2, <2>3, <2>4, <2>6 DEF Agreed
      <3>2. \A q \in Requests : Underway(q) /\ request[q].op = "forget" => dbRow = "none"
        BY <1>r, <2>4, <2>6 DEF CalmInv
      <3>3. \A q \in Requests : Underway(q)' /\ request'[q].op = "forget" => dbRow' = "none"
        BY <2>1, <2>4, <2>5, <2>6, <3>2
      <3> QED
        BY <2>4, <2>5, <2>6, <3>1, <3>3 DEF CalmInv, Midway
    <2> QED
      BY <1>r, <2>1, <2>6
  <1>15. CASE Listen
    <2>1. /\ service = "loaded" /\ service' = "up"
          /\ UNCHANGED <<request, dbRow, untold, known, channel, lost, entangled>>
      BY <1>15 DEF Listen, rowVars
    <2>2. HasSource' <=> HasSource
      BY <2>1, SameChannel
    <2>3. Agreed' <=> Agreed
      BY <2>1, <2>2 DEF Agreed
    <2>4. \A q \in Requests : /\ Changing(q)' <=> Changing(q)
                              /\ Underway(q)' <=> Underway(q)
                              /\ Midway(q)' <=> Midway(q)
      BY <2>1, <2>2 DEF Changing, Underway, Midway
    <2> QED
      BY <1>r, <2>1, <2>3, <2>4 DEF CalmInv, Calm
  <1>16. ASSUME NEW k \in Keys, AnswerExpires(k) PROVE Rest'
    BY <1>12, <1>16 DEF AnswerExpires, serviceVars, rowVars
  <1>17. CASE AnswerCommand
    BY <1>12, <1>17 DEF AnswerCommand, rowVars
  <1>18. CASE TickOn
    BY <1>12, <1>18 DEF TickOn, serviceVars, rowVars
  <1>19. CASE UNCHANGED cmdVars
    BY <1>12, <1>19 DEF cmdVars, rowVars
  <1> HIDE DEF Rest
  <1> QED
    BY <1>1, <1>2, <1>3, <1>4, <1>5, <1>6, <1>8, <1>9, <1>10, <1>11, <1>13, <1>14,
       <1>15, <1>16, <1>17, <1>18, <1>19, <1>20, <1>21, <1>22 DEF CmdNext

(* Requests, service, channel and answers are well typed, with any number  *)
(* of requests at a time (audio_ingest.py:597).                            *)
THEOREM CmdTypeCorrect == CmdSpec => []CmdTypeOK
  <1>1. AgreeInv => CmdTypeOK
    BY DEF AgreeInv, ReplyInv
  <1> QED
    BY <1>1, AgreeInit, AgreeStep, PTL DEF CmdSpec

(* An answer is never that of a command that was not executed, whatever    *)
(* timed out before (redis_commands.py:90).                                *)
THEOREM AnswersAreHonest == CmdSpec => []AnsweredWasExecuted
  <1>1. AgreeInv => AnsweredWasExecuted
    BY DEF AgreeInv, ReplyInv, Answered, AnsweredWasExecuted
  <1> QED
    BY <1>1, AgreeInit, AgreeStep, PTL DEF CmdSpec

(* When all is quiet, nothing was lost and no two requests met, database   *)
(* and service agree, for any number of requests, timeouts and crashes     *)
(* (audio_ingest.py:1758).                                                 *)
THEOREM ServiceAgreesInTheEnd == CmdSpec => []ServiceAgrees
  <1>1. ASSUME AgreeInv PROVE ServiceAgrees
    <2>1. ASSUME Quiet, ~lost, ~entangled
          PROVE  (known => dbRow # "none") /\ (dbRow = "auto" => known \/ untold)
      <3>1. CalmInv /\ service = "up" /\ \A r \in Requests : ~Changing(r)
        BY <1>1, <2>1 DEF AgreeInv, Calm, Quiet, Changing
      <3>2. Agreed
        BY <3>1 DEF CalmInv
      <3>3. HasSource <=> known
        BY <2>1, NoChannel DEF Quiet
      <3> QED
        BY <3>2, <3>3 DEF Agreed
    <2> QED
      BY <2>1 DEF ServiceAgrees
  <1> QED
    BY <1>1, AgreeInit, AgreeStep, PTL DEF CmdSpec

=============================================================================
