----------------------- MODULE SourceDiscoveryProofs -----------------------
(***************************************************************************)
(* Proofs about SourceDiscovery for any number of sources and adapters and *)
(* for every combination of the two healers.                               *)
(***************************************************************************)
EXTENDS SourceDiscovery, FiniteSetTheorems, TLAPS

(* The controller never holds an adapter that was not created yet, nor one *)
(* adapter under two names.                                                *)
OwnInv ==
    \A s \in Keys :
        /\ sources[s] \notin fresh
        /\ \A r \in Keys : sources[r] = sources[s] => r = s

(* The steps of source_start run with the source in place, and a discovery *)
(* of the subscriber belongs to the command it is executing.               *)
CmdInv ==
    /\ cmd # None /\ Head(cmd.plan) \in {"begin", "finish"} => cmd.src \in Keys
    /\ disc["command"] # None => cmd # None /\ Head(cmd.plan) = "discover"

(* A restart is about an adapter that was created, and the adapter is      *)
(* either still held under the name the restart noticed or under none.     *)
HealInv ==
    \A h \in Healers : heal[h] # None =>
        /\ heal[h].adapter \notin fresh
        /\ \A s \in Keys : sources[s] = heal[h].adapter => s = heal[h].src

(* Typing and the bookkeeping it rests on.                                 *)
TInv == TypeOK /\ OwnInv /\ CmdInv /\ HealInv

(* What is left of a command's plan after its next step, and the steps     *)
(* that can follow another step.                                           *)
LEMMA PlanSteps ==
    ASSUME NEW p \in Plans
    PROVE  /\ Len(p) # 1 => Tail(p) \in Plans
           /\ Head(p) = "begin" => Len(p) = 3 /\ Head(Tail(p)) = "finish"
           /\ Len(p) # 1 /\ Head(p) # "begin" => Head(Tail(p)) \notin {"begin", "finish"}
  <1>1. CASE p \in {<<"insert">>, <<"halt">>, <<"discover">>}
    BY <1>1 DEF Plans
  <1>2. CASE p = <<"remove", "insert">>
    BY <1>2 DEF Plans
  <1>3. CASE p = <<"begin", "finish", "discover">>
    BY <1>3 DEF Plans
  <1>4. CASE p = <<"finish", "discover">>
    BY <1>4 DEF Plans
  <1>5. CASE p = <<"discover", "halt">>
    BY <1>5 DEF Plans
  <1>6. CASE p = <<"discover", "remove">>
    BY <1>6 DEF Plans
  <1>7. CASE p = <<"remove">>
    BY <1>7
  <1> QED
    BY <1>1, <1>2, <1>3, <1>4, <1>5, <1>6, <1>7 DEF Plans

(* A command starts with one of the plans, and only source_start with its  *)
(* first step.                                                             *)
LEMMA PlanStarts ==
    ASSUME NEW op \in DOMAIN Plan
    PROVE  /\ Plan[op] \in Plans
           /\ Head(Plan[op]) # "finish"
           /\ Head(Plan[op]) = "begin" => op = "source_start"
  BY DEF Plan, Plans

(* Advancing keeps the command well formed, and reaches the second step of *)
(* source_start from its first one only.                                   *)
LEMMA AdvanceSteps ==
    ASSUME cmd \in Command, Advance
    PROVE  /\ cmd' \in Command \cup {None}
           /\ cmd' # None => cmd'.src = cmd.src
           /\ cmd' # None /\ Head(cmd'.plan) \in {"begin", "finish"} => Head(cmd.plan) = "begin"
  <1>1. cmd.plan \in Plans /\ cmd.src \in Sources
    BY DEF Command
  <1>2. CASE Len(cmd.plan) = 1
    BY <1>2 DEF Advance
  <1>3. CASE Len(cmd.plan) # 1
    <2>1. cmd' = [cmd EXCEPT !.plan = Tail(@)]
      BY <1>3 DEF Advance
    <2>2. cmd' = [src |-> cmd.src, plan |-> Tail(cmd.plan)]
      BY <2>1 DEF Command
    <2>3. Tail(cmd.plan) \in Plans
      BY <1>1, <1>3, PlanSteps
    <2>4. Head(Tail(cmd.plan)) \in {"begin", "finish"} => Head(cmd.plan) = "begin"
      BY <1>1, <1>3, PlanSteps
    <2> QED
      BY <1>1, <2>2, <2>3, <2>4 DEF Command
  <1> QED
    BY <1>2, <1>3

(* The service comes up well formed.                                       *)
LEMMA InitTInv == Init => TInv
  BY DEF Init, TInv, TypeOK, OwnInv, CmdInv, HealInv, Keys, Discoverers, Status

(* Whatever a discovery may have missed is a set of sources.               *)
LEMMA ObserveType ==
    ASSUME TInv, Observe
    PROVE  down' \in [Discoverers -> SUBSET Sources]
  BY DEF Observe, TInv, TypeOK

(* A discovery that begins, goes on or ends is well formed, and it is the  *)
(* subscriber's only while its command discovers.                          *)
LEMMA DiscoveryTInv ==
    ASSUME TInv, Observe, NEW d \in Discoverers,
           \/ d = "monitor" /\ MonitorDiscovers
           \/ d = "command" /\ CommandDiscovers
           \/ Visit(d) \/ Abort(d) \/ Apply(d)
    PROVE  TInv'
  <1> USE DEF TInv, TypeOK
  <1>1. down' \in [Discoverers -> SUBSET Sources]
    BY ObserveType
  <1>2. UNCHANGED <<sources, status, fresh, heal, halted>>
    BY DEF MonitorDiscovers, CommandDiscovers, Visit, Abort, Apply
  <1>3. OwnInv' /\ HealInv'
    BY <1>2 DEF OwnInv, HealInv, Keys
  <1>4. ASSUME d = "monitor" \/ Executing("discover"), BeginDiscovery(d),
               UNCHANGED <<watchers, cmd>>
        PROVE  TypeOK' /\ CmdInv'
    <2>1. Cardinality(Keys) \in Nat
      BY SourcesAssumption, FS_Subset, FS_CardinalityType DEF Keys
    <2>2. disc' \in [Discoverers -> Discovery \cup {None}]
      BY <1>4, <2>1 DEF BeginDiscovery, Discovery
    <2> QED
      BY <1>1, <1>2, <1>4, <2>2 DEF CmdInv, BeginDiscovery, Executing, Keys, Discoverers
  <1>5. CASE Visit(d)
    <2>1. PICK s \in Keys \ disc[d].visited :
             disc' = [disc EXCEPT
                ![d].visited = @ \cup {s},
                ![d].found[s] = IF status[sources[s]] = "RUNNING" THEN sources[s] ELSE None]
      BY <1>5 DEF Visit
    <2>2. s \in Sources /\ disc[d] \in Discovery
      BY <1>5, <2>1 DEF Visit, Keys
    <2>3. disc' \in [Discoverers -> Discovery \cup {None}]
      BY <2>1, <2>2, ZenonT(40) DEF Discovery
    <2>4. d = "command" => disc["command"] # None
      BY <1>5 DEF Visit
    <2>5. disc'["command"] # None => disc["command"] # None
      BY <2>1, <2>4 DEF Discoverers
    <2> QED
      BY <1>1, <1>2, <1>3, <1>5, <2>3, <2>5 DEF CmdInv, Keys, Visit
  <1>6. ASSUME EndDiscovery(d), disc[d] # None, watchers' \in [Sources -> Adapters \cup {None}]
        PROVE  TypeOK' /\ CmdInv'
    <2>1. disc' \in [Discoverers -> Discovery \cup {None}]
      BY <1>6 DEF EndDiscovery
    <2>2. CASE d = "monitor"
      BY <1>1, <1>2, <1>6, <2>1, <2>2 DEF EndDiscovery, CmdInv, Keys, Discoverers
    <2>3. CASE d = "command"
      <3>1. cmd \in Command /\ Head(cmd.plan) = "discover" /\ Advance
        BY <1>6, <2>3 DEF EndDiscovery, CmdInv
      <3>2. disc'["command"] = None
        BY <1>6, <2>3 DEF EndDiscovery
      <3> QED
        BY <1>1, <1>2, <1>6, <2>1, <3>1, <3>2, AdvanceSteps DEF CmdInv
    <2> QED
      BY <2>2, <2>3 DEF Discoverers
  <1>7. CASE Abort(d)
    BY <1>3, <1>6, <1>7 DEF Abort
  <1>8. CASE Apply(d)
    <2>1. disc[d] \in Discovery
      BY <1>8 DEF Apply
    <2>2. watchers' \in [Sources -> Adapters \cup {None}]
      BY <1>8, <2>1 DEF Apply, Discovery
    <2> QED
      BY <1>3, <1>6, <1>8, <2>2 DEF Apply
  <1> QED
    BY <1>3, <1>4, <1>5, <1>7, <1>8 DEF MonitorDiscovers, CommandDiscovers

(* A capture thread changes the status of its adapter only.                *)
LEMMA CaptureTInv ==
    ASSUME TInv, Observe, NEW a \in Adapters,
           CaptureFails(a) \/ CaptureDisconnects(a) \/ CaptureReconnects(a)
    PROVE  TInv'
  <1>1. down' \in [Discoverers -> SUBSET Sources]
    BY ObserveType
  <1> QED
    BY <1>1 DEF TInv, TypeOK, OwnInv, CmdInv, HealInv, Keys, Status,
                CaptureFails, CaptureDisconnects, CaptureReconnects

(* A command is received as a whole plan, its source in place if it is to  *)
(* be started.                                                             *)
LEMMA ReceiveTInv ==
    ASSUME TInv, Observe, NEW op \in DOMAIN Plan, NEW s \in Sources, Receive(op, s)
    PROVE  TInv'
  <1>1. down' \in [Discoverers -> SUBSET Sources]
    BY ObserveType
  <1>2. cmd' = [src |-> s, plan |-> Plan[op]] /\ (op = "source_start" => s \in Keys)
    BY DEF Receive
  <1>3. cmd' \in Command
    BY <1>2, PlanStarts DEF Command
  <1>4. Head(cmd'.plan) \in {"begin", "finish"} => cmd'.src \in Keys
    BY <1>2, PlanStarts
  <1>5. cmd = None /\ UNCHANGED <<sources, status, fresh, watchers, disc, heal, halted>>
    BY DEF Receive
  <1> QED
    BY <1>1, <1>3, <1>4, <1>5 DEF TInv, TypeOK, OwnInv, CmdInv, HealInv, Keys

(* Starting an adapter, to begin with or for good, keeps the types.        *)
LEMMA StartType ==
    ASSUME TypeOK, NEW a \in Adapters
    PROVE  /\ BeginStart(a) => status' \in [Adapters -> Status] /\ halted' \subseteq Adapters
           /\ \A raised \in BOOLEAN : FinishStart(a, raised) => status' \in [Adapters -> Status]
  <1>1. status \in [Adapters -> Status] /\ halted \subseteq Adapters
    BY DEF TypeOK
  <1>2. BeginStart(a) => status' \in [Adapters -> Status] /\ halted' \subseteq Adapters
    BY <1>1 DEF BeginStart, Status
  <1>3. ASSUME NEW raised \in BOOLEAN, FinishStart(a, raised)
        PROVE  status' \in [Adapters -> Status]
    <2>1. PICK new \in {"ERROR", "RUNNING", status[a]} : status' = [status EXCEPT ![a] = new]
      BY <1>3 DEF FinishStart
    <2> QED
      BY <1>1, <2>1 DEF Status
  <1> QED
    BY <1>2, <1>3

(* The subscriber's own steps: it alone changes the table of sources, and  *)
(* only new adapters get into it.                                          *)
LEMMA CommandTInv ==
    ASSUME TInv, Observe, Remove \/ Insert \/ CommandStarts \/ CommandStarted \/ Halt
    PROVE  TInv'
  <1> USE DEF TInv, TypeOK
  <1>1. down' \in [Discoverers -> SUBSET Sources]
    BY ObserveType
  <1>2. UNCHANGED <<watchers, disc, heal>> /\ cmd # None /\ cmd \in Command /\ cmd.src \in Sources
    BY DEF Remove, Insert, CommandStarts, CommandStarted, Halt, Executing, Command
  <1>3. disc["command"] = None
    BY DEF Remove, Insert, CommandStarts, CommandStarted, Halt, Executing, CmdInv
  <1>4. ASSUME Advance, Head(cmd.plan) = "begin" => cmd.src \in Keys'
        PROVE  cmd' \in Command \cup {None} /\ CmdInv'
    BY <1>2, <1>3, <1>4, AdvanceSteps DEF CmdInv
  <1>5. CASE Remove
    <2>1. Advance /\ fresh' = fresh /\ Head(cmd.plan) = "remove"
      BY <1>5 DEF Remove, Executing
    <2>2. CASE sources[cmd.src] = None
      BY <1>1, <1>2, <1>4, <1>5, <2>1, <2>2 DEF Remove, OwnInv, HealInv, Keys
    <2>3. CASE sources[cmd.src] # None
      <3>1. /\ sources[cmd.src] \in Adapters
            /\ status' = [status EXCEPT ![sources[cmd.src]] = "STOPPED"]
            /\ sources' = [sources EXCEPT ![cmd.src] = None]
            /\ halted' = halted \cup {sources[cmd.src]}
        BY <1>2, <1>5, <2>3 DEF Remove
      <3>2. \A s \in Keys' : s \in Keys /\ sources'[s] = sources[s]
        BY <1>2, <3>1 DEF Keys
      <3> QED
        BY <1>1, <1>2, <1>4, <2>1, <3>1, <3>2 DEF OwnInv, HealInv, Status
    <2> QED
      BY <2>2, <2>3
  <1>6. CASE Insert
    <2>1. PICK a \in fresh : /\ sources' = [sources EXCEPT ![cmd.src] = a]
                             /\ fresh' = fresh \ {a}
      BY <1>6 DEF Insert
    <2>2. Advance /\ Head(cmd.plan) = "insert" /\ UNCHANGED <<status, halted>>
      BY <1>6 DEF Insert, Executing
    <2>3. \A s \in Keys' : IF s = cmd.src THEN sources'[s] = a
                           ELSE s \in Keys /\ sources'[s] = sources[s]
      BY <1>2, <2>1 DEF Keys
    <2>4. OwnInv' /\ HealInv'
      BY <1>2, <2>1, <2>3 DEF OwnInv, HealInv
    <2> QED
      BY <1>1, <1>2, <1>4, <2>1, <2>2, <2>4
  <1>7. ASSUME UNCHANGED <<sources, fresh>>
        PROVE  OwnInv' /\ HealInv' /\ Keys' = Keys
    BY <1>2, <1>7 DEF OwnInv, HealInv, Keys
  <1>8. CASE CommandStarts
    <2>1. sources' = sources /\ fresh' = fresh /\ Head(cmd.plan) = "begin"
      BY <1>8 DEF CommandStarts, Executing
    <2>2. cmd.src \in Keys /\ sources[cmd.src] \in Adapters
      BY <1>2, <2>1 DEF CmdInv, Keys
    <2>3. CASE Startable(sources[cmd.src])
      BY <1>1, <1>2, <1>4, <1>7, <1>8, <2>1, <2>2, <2>3, StartType DEF CommandStarts
    <2>4. CASE ~Startable(sources[cmd.src])
      BY <1>1, <1>2, <1>3, <1>7, <1>8, <2>1, <2>4 DEF CommandStarts, CmdInv
    <2> QED
      BY <2>3, <2>4
  <1>9. CASE CommandStarted
    <2>1. UNCHANGED <<sources, fresh, halted>> /\ Head(cmd.plan) = "finish"
      BY <1>9 DEF CommandStarted, Executing
    <2>2. cmd.src \in Keys /\ sources[cmd.src] \in Adapters
      BY <1>2, <2>1 DEF CmdInv, Keys
    <2>3. status' \in [Adapters -> Status]
      BY <1>9, <2>2, StartType DEF CommandStarted
    <2>4. cmd' = None \/ Advance
      BY <1>9 DEF CommandStarted
    <2> QED
      BY <1>1, <1>2, <1>3, <1>4, <1>7, <2>1, <2>2, <2>3, <2>4 DEF CmdInv
  <1>10. CASE Halt
    <2>1. Advance /\ UNCHANGED <<sources, fresh>> /\ Head(cmd.plan) = "halt"
      BY <1>10 DEF Halt, Executing
    <2>2. status' \in [Adapters -> Status] /\ halted' \subseteq Adapters
      BY <1>2, <1>10 DEF Halt, Status
    <2> QED
      BY <1>1, <1>2, <1>4, <1>7, <2>1, <2>2
  <1> QED
    BY <1>5, <1>6, <1>8, <1>9, <1>10

(* A restart takes up an adapter that is held under the name it was        *)
(* noticed by.                                                             *)
LEMMA NoticeTInv ==
    ASSUME TInv, Observe, NEW s \in Sources, ControllerNotices(s) \/ WatchdogNotices(s)
    PROVE  TInv'
  <1> USE DEF TInv, TypeOK
  <1>1. down' \in [Discoverers -> SUBSET Sources]
    BY ObserveType
  <1>2. UNCHANGED <<sources, status, fresh, watchers, disc, cmd, halted>>
    BY DEF ControllerNotices, WatchdogNotices
  <1>3. s \in Keys /\ sources[s] \in Adapters
    BY DEF ControllerNotices, WatchdogNotices, Keys
  <1>4. PICK h \in Healers, at \in {"stop", "start"}, n \in 1 .. 2 :
           heal' = [heal EXCEPT ![h] =
                       [src |-> s, adapter |-> sources[s], at |-> at, tries |-> n]]
    BY DEF ControllerNotices, WatchdogNotices
  <1>5. heal' \in [Healers -> Healing \cup {None}]
    BY <1>3, <1>4 DEF Healing
  <1>6. HealInv'
    BY <1>2, <1>3, <1>4 DEF HealInv, OwnInv, Keys
  <1> QED
    BY <1>1, <1>2, <1>5, <1>6 DEF OwnInv, CmdInv, Keys

(* A restart goes on with the adapter it has, or with the one that its     *)
(* source has now.                                                         *)
LEMMA HealTInv ==
    ASSUME TInv, Observe, NEW h \in Healers, Heal(h)
    PROVE  TInv'
  <1> USE DEF TInv, TypeOK
  <1>1. down' \in [Discoverers -> SUBSET Sources]
    BY ObserveType
  <1>2. UNCHANGED <<sources, fresh, watchers, disc, cmd>> /\ heal[h] \in Healing
    BY DEF Heal, HealStop, HealStart, HealFinish, HealingAt
  <1>3. heal[h].src \in Sources /\ heal[h].adapter \in Adapters /\ heal[h].tries \in 1 .. 2
    BY <1>2 DEF Healing
  <1>4. OwnInv' /\ CmdInv' /\ Keys' = Keys
    BY <1>2 DEF OwnInv, CmdInv, Keys
  <1>5. ASSUME NEW x \in Healing \cup {None}, heal' = [heal EXCEPT ![h] = x],
               x # None => x.src = heal[h].src /\ x.adapter = heal[h].adapter
        PROVE  heal' \in [Healers -> Healing \cup {None}] /\ HealInv'
    <2>1. heal' \in [Healers -> Healing \cup {None}]
      BY <1>5
    <2>2. ASSUME NEW g \in Healers, heal'[g] # None
          PROVE  /\ heal[g] # None
                 /\ heal'[g].src = heal[g].src /\ heal'[g].adapter = heal[g].adapter
      BY <1>2, <1>5, <2>2, NoneAssumption
    <2> QED
      BY <1>2, <1>4, <2>1, <2>2 DEF HealInv
  <1>6. HealRetries(h) => heal' \in [Healers -> Healing \cup {None}] /\ HealInv'
    <2>1. heal[h].tries # 1 =>
             [src |-> heal[h].src, adapter |-> heal[h].adapter,
              at |-> "stop", tries |-> heal[h].tries - 1] \in Healing
      BY <1>3 DEF Healing
    <2> QED
      BY <1>5, <2>1 DEF HealRetries
  <1>7. CASE HealStop(h)
    <2>1. heal' = [heal EXCEPT ![h] = [heal[h] EXCEPT !.at = "start"]]
      BY <1>7 DEF HealStop
    <2>2. [heal[h] EXCEPT !.at = "start"] \in Healing
      BY <1>2 DEF Healing
    <2>3. heal' \in [Healers -> Healing \cup {None}] /\ HealInv'
      BY <1>2, <1>5, <2>1, <2>2 DEF Healing
    <2>4. status' \in [Adapters -> Status] /\ halted' \subseteq Adapters
      BY <1>3, <1>7 DEF HealStop, Status
    <2> QED
      BY <1>1, <1>2, <1>4, <2>3, <2>4
  <1>8. CASE HealStart(h)
    <2> DEFINE a == IF h = "watchdog" THEN sources[heal[h].src] ELSE heal[h].adapter
    <2>1. CASE a # None /\ Startable(a)
      <3>1. /\ BeginStart(a)
            /\ heal' = [heal EXCEPT ![h] =
                  [src |-> heal[h].src, adapter |-> a, at |-> "finish", tries |-> heal[h].tries]]
        BY <1>8, <2>1 DEF HealStart
      <3>2. a \in Adapters
        BY <1>3, <2>1
      <3>3. a \notin fresh /\ \A s \in Keys : sources[s] = a => s = heal[h].src
        <4>1. CASE h = "watchdog"
          BY <1>3, <2>1, <4>1 DEF OwnInv, Keys
        <4>2. CASE h # "watchdog"
          BY <1>2, <4>2, NoneAssumption DEF HealInv
        <4> QED
          BY <4>1, <4>2
      <3>4. heal' \in [Healers -> Healing \cup {None}]
        BY <1>3, <3>1, <3>2 DEF Healing
      <3>5. HealInv'
        BY <1>2, <1>4, <3>1, <3>3 DEF HealInv
      <3>6. status' \in [Adapters -> Status] /\ halted' \subseteq Adapters
        BY <3>1, <3>2, StartType
      <3> QED
        BY <1>1, <1>2, <1>4, <3>4, <3>5, <3>6
    <2>2. CASE ~(a # None /\ Startable(a))
      <3>1. HealRetries(h) /\ UNCHANGED <<status, halted>>
        BY <1>8, <2>2 DEF HealStart
      <3> QED
        BY <1>1, <1>2, <1>4, <1>6, <3>1
    <2> QED
      BY <2>1, <2>2
  <1>9. CASE HealFinish(h)
    <2>1. status' \in [Adapters -> Status] /\ halted' = halted
      BY <1>3, <1>9, StartType DEF HealFinish
    <2>2. HealRetries(h) \/ heal' = [heal EXCEPT ![h] = None]
      BY <1>9 DEF HealFinish
    <2>3. heal' \in [Healers -> Healing \cup {None}] /\ HealInv'
      BY <1>5, <1>6, <2>2
    <2> QED
      BY <1>1, <1>2, <1>4, <2>1, <2>3
  <1> QED
    BY <1>7, <1>8, <1>9 DEF Heal

(* Every step keeps the types and what they rest on.                       *)
LEMMA StepTInv == TInv /\ [Next]_vars => TInv'
  <1> SUFFICES ASSUME TInv, [Next]_vars PROVE TInv'
    OBVIOUS
  <1>1. CASE UNCHANGED vars
    BY <1>1 DEF vars, TInv, TypeOK, OwnInv, CmdInv, HealInv, Keys
  <1>2. CASE Next
    <2>1. Observe
      BY <1>2 DEF Next
    <2>2. CASE Monitor
      BY <2>1, <2>2, DiscoveryTInv DEF Monitor, Discoverers
    <2>3. CASE Subscriber
      BY <2>1, <2>3, DiscoveryTInv, CommandTInv DEF Subscriber, Discoverers
    <2>4. CASE Environment
      BY <2>1, <2>4, ReceiveTInv, CaptureTInv, NoticeTInv DEF Environment
    <2>5. CASE \E h \in Healers : Heal(h)
      BY <2>1, <2>5, HealTInv
    <2> QED
      BY <1>2, <2>2, <2>3, <2>4, <2>5 DEF Next
  <1> QED
    BY <1>1, <1>2

(* Every variable keeps its type: no command, discovery or restart ever    *)
(* takes a source's absent adapter for an adapter.                         *)
THEOREM TypeCorrect == Spec => []TypeOK
  <1>1. TInv => TypeOK
    BY DEF TInv
  <1> QED
    BY InitTInv, StepTInv, <1>1, PTL DEF Spec

-----------------------------------------------------------------------------
(* Restarts that cancel out.                                               *)

(* NeverStranded with the step the restart is at, and new adapters.        *)
RestartInv ==
    /\ fresh \subseteq halted
    /\ \A s \in Keys : status[sources[s]] = "STOPPED" /\ sources[s] \notin halted =>
          \E h \in Healers : HealingAt(h, "start") /\ heal[h].adapter = sources[s]

(* No adapter is started before it was created.                            *)
LEMMA InitRestart == Init => RestartInv
  BY DEF Init, RestartInv, Keys

(* A step that stops no adapter, starts none and leaves table and restarts *)
(* alone strands nobody.                                                   *)
LEMMA KeptRestart ==
    ASSUME TInv, RestartInv, UNCHANGED <<sources, fresh, halted>>,
           \A a \in Adapters : status'[a] = "STOPPED" => status[a] = "STOPPED",
           \A h \in Healers : HealingAt(h, "start") =>
               HealingAt(h, "start")' /\ heal'[h].adapter = heal[h].adapter
    PROVE  RestartInv'
  BY DEF TInv, TypeOK, RestartInv, Keys

(* The commands take adapters out of service only as operators.            *)
LEMMA CommandRestart ==
    ASSUME TInv, RestartInv, Remove \/ Insert \/ CommandStarts \/ CommandStarted \/ Halt
    PROVE  RestartInv'
  <1> USE DEF TInv, TypeOK
  <1>1. heal' = heal /\ cmd # None /\ cmd \in Command /\ cmd.src \in Sources
    BY DEF Remove, Insert, CommandStarts, CommandStarted, Halt, Executing, Command
  <1>2. \A h \in Healers : HealingAt(h, "start")' = HealingAt(h, "start")
    BY <1>1 DEF HealingAt
  <1>3. CASE Remove
    BY <1>1, <1>2, <1>3 DEF Remove, RestartInv, Keys
  <1>4. CASE Insert
    BY <1>1, <1>2, <1>4 DEF Insert, RestartInv, Keys
  <1>5. CASE CommandStarts
    <2>1. cmd.src \in Keys /\ sources[cmd.src] \in Adapters /\ sources[cmd.src] \notin fresh
      BY <1>1, <1>5 DEF CommandStarts, Executing, CmdInv, OwnInv, Keys
    <2>2. CASE Startable(sources[cmd.src])
      BY <1>1, <1>2, <1>5, <2>1, <2>2 DEF CommandStarts, BeginStart, RestartInv, Keys
    <2>3. CASE ~Startable(sources[cmd.src])
      BY <1>1, <1>2, <1>5, <2>3 DEF CommandStarts, RestartInv, Keys
    <2> QED
      BY <2>2, <2>3
  <1>6. CASE CommandStarted
    <2>1. sources[cmd.src] \in Adapters
      BY <1>1, <1>6 DEF CommandStarted, Executing, CmdInv, Keys
    <2>2. PICK raised \in BOOLEAN : FinishStart(sources[cmd.src], raised)
      BY <1>6 DEF CommandStarted
    <2>3. \A a \in Adapters : status'[a] = "STOPPED" => status[a] = "STOPPED"
      BY <2>1, <2>2 DEF FinishStart
    <2> QED
      BY <1>1, <1>2, <1>6, <2>3, KeptRestart DEF CommandStarted
  <1>7. CASE Halt
    BY <1>1, <1>2, <1>7 DEF Halt, RestartInv, Keys
  <1> QED
    BY <1>3, <1>4, <1>5, <1>6, <1>7

(* A restart stops only what it is about to start, and gives an adapter up *)
(* only when it runs, failed, or belongs to no source any more.            *)
LEMMA HealRestart ==
    ASSUME TInv, RestartInv, NEW h \in Healers, Heal(h)
    PROVE  RestartInv'
  <1> USE DEF TInv, TypeOK
  <1>1. UNCHANGED <<sources, fresh>> /\ heal[h] \in Healing /\ Keys' = Keys
    BY DEF Heal, HealStop, HealStart, HealFinish, HealingAt, Keys
  <1>2. heal[h].src \in Sources /\ heal[h].adapter \in Adapters
    BY <1>1 DEF Healing
  <1>3. ASSUME NEW x, heal' = [heal EXCEPT ![h] = x]
        PROVE  \A g \in Healers \ {h} : HealingAt(g, "start") =>
                  HealingAt(g, "start")' /\ heal'[g].adapter = heal[g].adapter
    BY <1>3 DEF HealingAt
  <1>4. CASE HealStop(h)
    <2>1. heal' = [heal EXCEPT ![h] = [heal[h] EXCEPT !.at = "start"]]
      BY <1>4 DEF HealStop
    <2>2. HealingAt(h, "start")' /\ heal'[h].adapter = heal[h].adapter
      BY <1>1, <2>1, NoneAssumption DEF HealingAt, Healing
    <2>3. \A g \in Healers : HealingAt(g, "start") =>
             HealingAt(g, "start")' /\ heal'[g].adapter = heal[g].adapter
      BY <1>3, <2>1, <2>2
    <2>4. halted' = halted /\ status' = [status EXCEPT ![heal[h].adapter] = "STOPPED"]
      BY <1>4 DEF HealStop
    <2> QED
      BY <1>1, <1>2, <2>2, <2>3, <2>4 DEF RestartInv, Keys
  <1>5. CASE HealStart(h)
    <2> DEFINE a == IF h = "watchdog" THEN sources[heal[h].src] ELSE heal[h].adapter
    <2>1. PICK x : heal' = [heal EXCEPT ![h] = x]
      BY <1>5 DEF HealStart, HealRetries
    <2>2. \A g \in Healers \ {h} : HealingAt(g, "start") =>
             HealingAt(g, "start")' /\ heal'[g].adapter = heal[g].adapter
      BY <1>3, <2>1
    <2>3. \A s \in Keys : sources[s] = heal[h].adapter => a = heal[h].adapter
      BY <1>1, NoneAssumption DEF HealInv
    <2>4. CASE a # None /\ Startable(a)
      <3>1. status' = [status EXCEPT ![a] = "STARTING"] /\ halted' = halted \ {a}
        BY <1>5, <2>4 DEF HealStart, BeginStart
      <3>2. a \notin fresh
        BY <1>1, <1>2, <2>4, NoneAssumption DEF HealInv, OwnInv, Keys
      <3>3. a \in Adapters
        BY <1>2, <2>4
      <3> QED
        BY <1>1, <2>2, <2>3, <3>1, <3>2, <3>3 DEF RestartInv, Keys
    <2>5. CASE ~(a # None /\ Startable(a))
      <3>1. UNCHANGED <<status, halted>>
        BY <1>5, <2>5 DEF HealStart
      <3>2. \A s \in Keys : sources[s] = heal[h].adapter => status[sources[s]] # "STOPPED"
        BY <1>2, <2>3, <2>5, NoneAssumption DEF Startable
      <3> QED
        BY <1>1, <2>2, <3>1, <3>2 DEF RestartInv, Keys
    <2> QED
      BY <2>4, <2>5
  <1>6. CASE HealFinish(h)
    <2>1. PICK raised \in BOOLEAN : FinishStart(heal[h].adapter, raised)
      BY <1>6 DEF HealFinish
    <2>2. \A b \in Adapters : status'[b] = "STOPPED" => status[b] = "STOPPED"
      BY <1>2, <2>1 DEF FinishStart
    <2>3. PICK x : heal' = [heal EXCEPT ![h] = x]
      BY <1>6 DEF HealFinish, HealRetries
    <2>4. ~HealingAt(h, "start") /\ halted' = halted
      BY <1>6 DEF HealFinish, HealingAt
    <2> QED
      BY <1>1, <1>3, <2>2, <2>3, <2>4, KeptRestart
  <1> QED
    BY <1>4, <1>5, <1>6 DEF Heal

(* Every step keeps the adapters that nobody stopped for good in hand.     *)
LEMMA StepRestart == TInv /\ RestartInv /\ [Next]_vars => RestartInv'
  <1> SUFFICES ASSUME TInv, RestartInv, [Next]_vars PROVE RestartInv'
    OBVIOUS
  <1>1. CASE UNCHANGED vars
    BY <1>1 DEF vars, RestartInv, Keys, HealingAt
  <1>2. ASSUME UNCHANGED <<sources, status, fresh, heal, halted>>
        PROVE  RestartInv'
    BY <1>2 DEF RestartInv, Keys, HealingAt
  <1>3. CASE Monitor
    BY <1>2, <1>3 DEF Monitor, MonitorDiscovers, Visit, Abort, Apply
  <1>4. CASE Subscriber
    <2>1. CASE CommandDiscovers \/ Visit("command") \/ Abort("command") \/ Apply("command")
      BY <1>2, <2>1 DEF CommandDiscovers, Visit, Abort, Apply
    <2> QED
      BY <1>4, <2>1, CommandRestart DEF Subscriber
  <1>5. CASE Environment
    <2>1. CASE \E op \in DOMAIN Plan, s \in Sources : Receive(op, s)
      BY <1>2, <2>1 DEF Receive
    <2>2. ASSUME NEW a \in Adapters,
                 CaptureFails(a) \/ CaptureDisconnects(a) \/ CaptureReconnects(a)
          PROVE  RestartInv'
      <3>1. UNCHANGED <<sources, fresh, heal, halted>>
        BY <2>2 DEF CaptureFails, CaptureDisconnects, CaptureReconnects
      <3>2. \A b \in Adapters : status'[b] = "STOPPED" => status[b] = "STOPPED"
        BY <2>2 DEF CaptureFails, CaptureDisconnects, CaptureReconnects, TInv, TypeOK
      <3> QED
        BY <3>1, <3>2, KeptRestart DEF HealingAt
    <2>3. ASSUME NEW s \in Sources, ControllerNotices(s) \/ WatchdogNotices(s)
          PROVE  RestartInv'
      <3>1. PICK h \in Healers :
                 heal[h] = None /\ \A g \in Healers \ {h} : heal'[g] = heal[g]
        BY <2>3 DEF ControllerNotices, WatchdogNotices, TInv, TypeOK
      <3>2. \A g \in Healers : HealingAt(g, "start") =>
               HealingAt(g, "start")' /\ heal'[g].adapter = heal[g].adapter
        BY <3>1 DEF HealingAt, TInv, TypeOK
      <3>3. UNCHANGED <<sources, status, fresh, halted>>
        BY <2>3 DEF ControllerNotices, WatchdogNotices
      <3> QED
        BY <3>2, <3>3, KeptRestart
    <2> QED
      BY <1>5, <2>1, <2>2, <2>3 DEF Environment
  <1>6. CASE \E h \in Healers : Heal(h)
    BY <1>6, HealRestart
  <1> QED
    BY <1>1, <1>3, <1>4, <1>5, <1>6 DEF Next

(* Restarts by two healers and by the operator never leave an adapter that *)
(* nobody stopped without somebody about to start it.                      *)
THEOREM NobodyStranded == Spec => []NeverStranded
  <1>1. RestartInv => NeverStranded
    BY DEF RestartInv, NeverStranded, HealingAt
  <1> QED
    BY InitTInv, InitRestart, StepTInv, StepRestart, <1>1, PTL DEF Spec

-----------------------------------------------------------------------------
(* Walks over a table that changes.                                        *)

(* A source that was up all along is recorded as running once it was       *)
(* visited.                                                                *)
WalkInv ==
    \A d \in Discoverers : disc[d] # None =>
        \A s \in Sources \ down[d] :
            /\ s \in Running
            /\ s \in disc[d].visited => disc[d].found[s] # None

(* What a step that leaves d's walk alone does to it: only the sources it  *)
(* leaves down are forgotten.                                              *)
LEMMA KeptWalk ==
    ASSUME WalkInv, Observe, NEW d \in Discoverers, disc'[d] = disc[d], disc'[d] # None
    PROVE  \A s \in Sources \ down'[d] :
              /\ s \in Running'
              /\ s \in disc'[d].visited => disc'[d].found[s] # None
  BY DEF WalkInv, Observe

(* Every step keeps what the walks have recorded about sources that stay   *)
(* up.                                                                     *)
LEMMA StepWalk == TInv /\ WalkInv /\ [Next]_vars => WalkInv'
  <1> SUFFICES ASSUME TInv, WalkInv, [Next]_vars PROVE WalkInv'
    OBVIOUS
  <1>1. CASE UNCHANGED vars
    BY <1>1 DEF vars, WalkInv, Running, Keys
  <1>2. CASE Next
    <2>1. Observe
      BY <1>2 DEF Next
    <2> SUFFICES ASSUME NEW d \in Discoverers, disc'[d] # None
                 PROVE  \A s \in Sources \ down'[d] :
                           /\ s \in Running'
                           /\ s \in disc'[d].visited => disc'[d].found[s] # None
      BY DEF WalkInv
    <2>2. CASE disc'[d] = disc[d]
      BY <2>1, <2>2, KeptWalk
    <2>3. CASE BeginDiscovery(d)
      <3>1. disc'[d].visited = {}
        BY <2>3 DEF BeginDiscovery, TInv, TypeOK
      <3>2. Sources \ down'[d] \subseteq Running'
        BY <2>1 DEF Observe
      <3> QED
        BY <3>1, <3>2
    <2>4. CASE Visit(d)
      <3>1. PICK s \in Keys \ disc[d].visited :
               disc' = [disc EXCEPT
                  ![d].visited = @ \cup {s},
                  ![d].found[s] = IF status[sources[s]] = "RUNNING" THEN sources[s] ELSE None]
        BY <2>4 DEF Visit
      <3>2. disc[d] \in Discovery /\ s \in Sources
        BY <2>4, <3>1 DEF Visit, TInv, TypeOK, Keys
      <3>3. /\ disc'[d].visited = disc[d].visited \cup {s}
            /\ disc'[d].found = [disc[d].found EXCEPT ![s] =
                  IF status[sources[s]] = "RUNNING" THEN sources[s] ELSE None]
        BY <3>1, <3>2 DEF Discovery, TInv, TypeOK
      <3>4. Sources \ down'[d] \subseteq Running' \cap (Sources \ down[d])
        BY <2>1, <2>4 DEF Observe, Visit
      <3>5. ASSUME NEW r \in Sources \ down'[d], r \in disc'[d].visited
            PROVE  disc'[d].found[r] # None
        <4>1. r \in Running /\ (r \in disc[d].visited => disc[d].found[r] # None)
          BY <2>4, <3>4, <3>5 DEF WalkInv, Visit
        <4>2. CASE r = s
          BY <3>2, <3>3, <4>1, <4>2 DEF Running, Keys, Discovery
        <4>3. CASE r # s
          BY <3>2, <3>3, <3>5, <4>1, <4>3 DEF Discovery
        <4> QED
          BY <4>2, <4>3
      <3> QED
        BY <3>4, <3>5
    <2>5. disc'[d] = disc[d] \/ BeginDiscovery(d) \/ Visit(d) \/ disc'[d] = None
      <3> USE DEF TInv, TypeOK, Discoverers
      <3>1. CASE Monitor
        BY <3>1, ZenonT(40) DEF Monitor, MonitorDiscovers, BeginDiscovery, Visit, Abort, Apply, EndDiscovery
      <3>2. CASE Subscriber
        <4>1. CASE CommandDiscovers \/ Visit("command") \/ Abort("command") \/ Apply("command")
          BY <4>1, ZenonT(40) DEF CommandDiscovers, BeginDiscovery, Visit, Abort, Apply, EndDiscovery
        <4>2. CASE Remove \/ Insert \/ CommandStarts \/ CommandStarted \/ Halt
          BY <4>2 DEF Remove, Insert, CommandStarts, CommandStarted, Halt
        <4> QED
          BY <3>2, <4>1, <4>2 DEF Subscriber
      <3>3. CASE Environment
        BY <3>3 DEF Environment, Receive, CaptureFails, CaptureDisconnects,
                    CaptureReconnects, ControllerNotices, WatchdogNotices
      <3>4. CASE \E h \in Healers : Heal(h)
        BY <3>4 DEF Heal, HealStop, HealStart, HealFinish
      <3> QED
        BY <1>2, <3>1, <3>2, <3>3, <3>4 DEF Next
    <2> QED
      BY <2>2, <2>3, <2>4, <2>5
  <1> QED
    BY <1>1, <1>2

(* Only the end of a walk takes a watcher away, and only from a source     *)
(* that the walk may have missed.                                          *)
LEMMA StepKeepsWatcher ==
    ASSUME TInv, WalkInv, [Next]_vars, NEW s \in Sources,
           watchers[s] # None, watchers'[s] = None
    PROVE  \E d \in Discoverers : disc[d] # None /\ disc'[d] = None /\ s \in down[d]
  <1> USE DEF TInv, TypeOK
  <1>1. PICK d \in Discoverers : Apply(d)
    <2>1. watchers' # watchers
      OBVIOUS
    <2>2. CASE Monitor
      BY <2>1, <2>2 DEF Monitor, MonitorDiscovers, Visit, Abort, Apply, Discoverers
    <2>3. CASE Subscriber
      BY <2>1, <2>3 DEF Subscriber, CommandDiscovers, Visit, Abort, Remove, Insert,
                        CommandStarts, CommandStarted, Halt, Discoverers
    <2>4. CASE Environment
      BY <2>1, <2>4 DEF Environment, Receive, CaptureFails, CaptureDisconnects,
                        CaptureReconnects, ControllerNotices, WatchdogNotices
    <2>5. CASE \E h \in Healers : Heal(h)
      BY <2>1, <2>5 DEF Heal, HealStop, HealStart, HealFinish
    <2> QED
      BY <2>1, <2>2, <2>3, <2>4, <2>5 DEF Next, vars
  <1>2. disc[d] # None /\ disc'[d] = None /\ Keys \subseteq disc[d].visited
    BY <1>1 DEF Apply, EndDiscovery
  <1>3. disc[d].found[s] = None
    BY <1>1 DEF Apply
  <1>4. s \in down[d]
    BY <1>2, <1>3 DEF WalkInv, Running
  <1> QED
    BY <1>2, <1>4

(* A discovery takes no watcher from a source that was up throughout its   *)
(* walk, whatever else changes in the table meanwhile.                     *)
THEOREM WatchersKept == Spec => UpSourcesKeepWatcher
  <1>1. Init => WalkInv
    BY DEF Init, WalkInv
  <1>2. TInv /\ WalkInv /\ [Next]_vars =>
           [\A s \in Sources : watchers[s] # None /\ watchers'[s] = None =>
               \E d \in Discoverers : disc[d] # None /\ disc'[d] = None /\ s \in down[d]]_vars
    BY StepKeepsWatcher
  <1> QED
    BY InitTInv, StepTInv, StepWalk, <1>1, <1>2, PTL DEF Spec, UpSourcesKeepWatcher
=============================================================================
