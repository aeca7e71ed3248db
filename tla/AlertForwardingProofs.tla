----------------------- MODULE AlertForwardingProofs -----------------------
(***************************************************************************)
(* Proofs about AlertForwarding for any alerts and activations and any     *)
(* number of failures.                                                     *)
(***************************************************************************)
EXTENDS AlertForwarding, TLAPS

Forwarders == {"poller", "monitor"}

(* What a forwarding process has found when it is past a query: of the     *)
(* items in a table that would make its alert a duplicate, those that were *)
(* recorded since its check began.                                         *)
Excused(p, table) ==
    Checked(Mine(p)) /\ ~prog[p].blind =>
        \A x \in table \ {Mine(p)} :
            row[x] = "fresh" /\ Overlaps(Mine(p), x) => x \in prog[p].late

(* How far a forwarding process is with its alert, and what the database   *)
(* and the air say of that alert by then.                                  *)
Stage(p) ==
    /\ At(p, "idle") <=> Mine(p) = NoItem
    /\ ~At(p, "idle") => Mine(p) \in Alerts /\ Mine(p).via = p
    /\ prog[p].at \in Places \ {"idle", "filing"} => verdict[Mine(p)] = "none"
    /\ At(p, "filing") => verdict[Mine(p)] # "none"
    /\ prog[p].at \in {"messages", "activations", "building", "built"} =>
         row[Mine(p)] = "none"
    /\ prog[p].at \in {"recorded", "onair"} => row[Mine(p)] # "none"
    /\ At(p, "onair") => Mine(p) \in aired

Found(p) ==
    /\ At(p, "activations") => Excused(p, Alerts)
    /\ prog[p].at \in {"building", "built", "recorded"} => Excused(p, Items)

(* The web process only sends what is on record.                           *)
WebSends ==
    \/ At("web", "idle") /\ Mine("web") = NoItem
    \/ At("web", "onair") /\ Mine("web") \in Items /\ row[Mine("web")] # "none"

(* The record of an alert against its verdict and the received alert.      *)
OnFile(a) ==
    /\ verdict[a] = "none" /\ row[a] # "none" => Mine(a.via) = a
    /\ verdict[a] = "forwarded" => a \in aired /\ row[a] # "none"
    /\ received[a] = "linked" => verdict[a] = "forwarded"

FwdInv ==
    /\ FwdTypeOK
    /\ \A p \in Forwarders : Stage(p)
    /\ \A p \in Forwarders : Found(p)
    /\ WebSends
    /\ \A a \in Alerts : OnFile(a)
    /\ LightFollowsPolls

(* Alerts belong to the forwarding processes, activations to the web.      *)
LEMMA Kinds ==
    /\ \A a \in Alerts : a \in Items /\ a # NoItem /\ a.via \in Forwarders
    /\ \A w \in Activations : w \in Items /\ w # NoItem /\ w.via = "web"
    /\ Programs = Forwarders \cup {"web"}
  BY ItemsAssumption, NoItemAssumption DEF Items, Forwarders, Programs

LEMMA FwdInvInit == FwdInit => FwdInv
  <1> SUFFICES ASSUME FwdInit PROVE FwdInv
    OBVIOUS
  <1>1. FwdTypeOK
    <2>1. prog \in [Programs -> [at : Places, item : Items \cup {NoItem},
                                 late : SUBSET Items, blind : BOOLEAN]]
      BY DEF FwdInit, Idle, Places
    <2>2. hw \in [at : {"active", "incoming"}, sees : BOOLEAN,
                  wasActive : BOOLEAN, wasIncoming : BOOLEAN]
      BY DEF FwdInit
    <2>3. events \in 0 .. MaxEvents
      BY ItemsAssumption DEF FwdInit
    <2>4. /\ row \in [Items -> {"none", "fresh", "old", "deleted"}]
          /\ verdict \in [Alerts -> {"none", "refused", "duplicate", "failed",
                                     "forwarded", "lost"}]
          /\ received \in [Alerts -> {"none", "unlinked", "linked"}]
      BY DEF FwdInit
    <2>5. {active, incoming} \subseteq Items \cup {NoItem}
      BY DEF FwdInit
    <2>6. light \in {"green", "yellow", "red"} /\ aired \subseteq Items
      BY DEF FwdInit
    <2> QED
      BY <2>1, <2>2, <2>3, <2>4, <2>5, <2>6 DEF FwdTypeOK
  <1>2. \A p \in Programs : At(p, "idle") /\ Mine(p) = NoItem
    BY DEF FwdInit, At, Mine, Idle
  <1>3. \A p \in Forwarders : Stage(p) /\ Found(p)
    BY <1>2, Kinds DEF Stage, Found, At, Places
  <1>4. WebSends
    BY <1>2, Kinds DEF WebSends
  <1>5. \A a \in Alerts : OnFile(a)
    BY Kinds DEF FwdInit, OnFile
  <1>6. LightFollowsPolls
    BY DEF FwdInit, LightFollowsPolls
  <1> QED
    BY <1>1, <1>3, <1>4, <1>5, <1>6 DEF FwdInv

(* Typing, one action at a time. *)
LEMMA KeysType ==
    ASSUME FwdTypeOK, NEW x \in Items,
           SetKeys(x) \/ SetsInPart(x) \/ ClearKey \/ ClearFails
    PROVE  {active', incoming'} \subseteq Items \cup {NoItem}
  BY DEF SetKeys, SetsInPart, ClearKey, ClearFails, FwdTypeOK

LEMMA EventsType ==
    ASSUME FwdTypeOK, Happens \/ UNCHANGED events
    PROVE  events' \in 0 .. MaxEvents
  BY ItemsAssumption DEF Happens, FwdTypeOK

LEMMA FinishType ==
    ASSUME FwdTypeOK, NEW p \in Programs, Mine(p) \in Alerts,
           NEW v \in {"none", "refused", "duplicate", "failed", "forwarded", "lost"},
           Finish(p, v)
    PROVE  /\ verdict' \in [Alerts -> {"none", "refused", "duplicate", "failed",
                                       "forwarded", "lost"}]
           /\ prog' \in [Programs -> [at : Places, item : Items \cup {NoItem},
                                      late : SUBSET Items, blind : BOOLEAN]]
  <1>1. Mine(p) \in Items
    BY Kinds
  <1>2. After(p, Mine(p)) \in [at : Places, item : Items \cup {NoItem},
                               late : SUBSET Items, blind : BOOLEAN]
    BY <1>1 DEF After, Idle, Places
  <1> QED
    BY <1>2 DEF Finish, FwdTypeOK

LEMMA RecordType ==
    ASSUME FwdTypeOK, NEW x \in Items, Record(x)
    PROVE  /\ row' \in [Items -> {"none", "fresh", "old", "deleted"}]
           /\ prog' \in [Programs -> [at : Places, item : Items \cup {NoItem},
                                      late : SUBSET Items, blind : BOOLEAN]]
  <1>1. row' \in [Items -> {"none", "fresh", "old", "deleted"}]
    BY DEF Record, FwdTypeOK
  <1>2. ASSUME NEW p \in Programs
        PROVE  (IF Mine(p) = x THEN [prog[p] EXCEPT !.at = "recorded"]
                ELSE IF prog[p].at \in Places \ {"idle", "messages", "filing"}
                  THEN [prog[p] EXCEPT !.late = @ \cup {x}] ELSE prog[p])
               \in [at : Places, item : Items \cup {NoItem},
                    late : SUBSET Items, blind : BOOLEAN]
    <2>1. prog[p] \in [at : Places, item : Items \cup {NoItem},
                       late : SUBSET Items, blind : BOOLEAN]
      BY DEF FwdTypeOK
    <2>2. "recorded" \in Places /\ prog[p].late \cup {x} \in SUBSET Items
      BY <2>1 DEF Places
    <2> QED
      BY <2>1, <2>2
  <1> QED
    BY <1>1, <1>2 DEF Record

LEMMA FwdTypeStep == FwdInv /\ [FwdNext]_fwdVars => FwdTypeOK'
  <1> SUFFICES ASSUME FwdInv, [FwdNext]_fwdVars PROVE FwdTypeOK'
    OBVIOUS
  <1> DEFINE P == [at : Places, item : Items \cup {NoItem},
                   late : SUBSET Items, blind : BOOLEAN]
  <1>0. FwdTypeOK /\ (\A p \in Forwarders : Stage(p)) /\ WebSends
    BY DEF FwdInv
  <1>a. \A p \in Programs : At(p, "idle") \/ At(p, "onair") \/ Mine(p) \in Alerts
    BY <1>0, Kinds DEF Stage, WebSends
  <1>b. \A p \in Programs : prog[p].at \in Places \ {"idle", "onair"} => Mine(p) \in Alerts
    BY <1>a DEF At
  <1>1. ASSUME NEW p \in Programs, NEW a \in Alerts, Refuse(p, a) PROVE FwdTypeOK'
    <2>1. After(p, a) \in P
      BY Kinds DEF After, Idle, Places
    <2> QED
      BY <1>0, <1>1, <2>1 DEF Refuse, FwdTypeOK
  <1>2. ASSUME NEW p \in Programs, NEW a \in Alerts, Accept(p, a) PROVE FwdTypeOK'
    <2>1. [Idle EXCEPT !.item = a, !.at = IF Checked(a) THEN "messages" ELSE "building"] \in P
      BY Kinds DEF Idle, Places
    <2> QED
      BY <1>0, <1>2, <2>1 DEF Accept, FwdTypeOK
  <1>3. ASSUME NEW p \in Programs, NEW place \in {"messages", "activations"}, NEW table,
               NEW next \in {"activations", "building"}, CheckTable(p, place, table, next)
        PROVE  FwdTypeOK'
    <2>1. Mine(p) \in Alerts
      BY <1>3, <1>b DEF CheckTable, At, Places
    <2>2. CASE Finish(p, "duplicate") /\ UNCHANGED events
      BY <1>0, <1>3, <2>1, <2>2, FinishType DEF CheckTable, FwdTypeOK
    <2>3. CASE Goto(p, next) /\ UNCHANGED <<verdict, events>>
      <3>1. prog' \in [Programs -> P]
        BY <1>0, <2>3 DEF Goto, FwdTypeOK, Places
      <3> QED
        BY <1>0, <1>3, <2>3, <3>1 DEF CheckTable, FwdTypeOK
    <2>4. CASE Happens /\ prog' = [prog EXCEPT ![p].at = next, ![p].blind = TRUE] /\ UNCHANGED verdict
      <3>0. [prog[p] EXCEPT !.at = next, !.blind = TRUE] \in P
        <4>1. prog[p] \in P
          BY <1>0 DEF FwdTypeOK
        <4>2. next \in Places /\ TRUE \in BOOLEAN
          BY DEF Places
        <4> QED
          BY <4>1, <4>2
      <3>1. prog' \in [Programs -> P]
        <4>1. prog' = [prog EXCEPT ![p] = [prog[p] EXCEPT !.at = next, !.blind = TRUE]]
          BY <1>0, <2>4 DEF FwdTypeOK
        <4> QED
          BY <1>0, <3>0, <4>1 DEF FwdTypeOK
      <3> QED
        BY <1>0, <1>3, <2>4, <3>1, ItemsAssumption DEF CheckTable, Happens, FwdTypeOK
    <2> QED
      BY <1>3, <2>2, <2>3, <2>4 DEF CheckTable
  <1>4. ASSUME NEW p \in Programs, Build(p) PROVE FwdTypeOK'
    <2>1. Mine(p) \in Alerts /\ Mine(p) \in Items
      BY <1>4, <1>b, Kinds DEF Build, At, Places
    <2>2. CASE Happens /\ Finish(p, "failed") /\ UNCHANGED incoming
      BY <1>0, <1>4, <2>1, <2>2, FinishType, ItemsAssumption DEF Build, Happens, FwdTypeOK
    <2>3. CASE Goto(p, "built") /\ incoming' = Mine(p) /\ UNCHANGED <<verdict, events>>
      <3>1. [prog[p] EXCEPT !.at = "built"] \in P
        BY <1>0 DEF FwdTypeOK, Places
      <3>2. prog' \in [Programs -> P]
        BY <1>0, <2>3, <3>1 DEF Goto, FwdTypeOK
      <3> QED
        BY <1>0, <1>4, <2>1, <2>3, <3>2 DEF Build, FwdTypeOK
    <2> QED
      BY <1>4, <2>2, <2>3 DEF Build
  <1>5. ASSUME NEW p \in Programs, Commit(p) PROVE FwdTypeOK'
    <2>1. Mine(p) \in Alerts /\ Mine(p) \in Items
      BY <1>5, <1>b, Kinds DEF Commit, At, Places
    <2>2. CASE Happens /\ Finish(p, "failed") /\ UNCHANGED row
      BY <1>0, <1>5, <2>1, <2>2, FinishType, ItemsAssumption DEF Commit, Happens, FwdTypeOK
    <2>3. CASE Record(Mine(p)) /\ UNCHANGED <<verdict, events>>
      BY <1>0, <1>5, <2>1, <2>3, RecordType DEF Commit, FwdTypeOK
    <2> QED
      BY <1>5, <2>2, <2>3 DEF Commit
  <1>6. ASSUME NEW p \in Programs, OnAir(p) PROVE FwdTypeOK'
    <2>1. Mine(p) \in Items
      BY <1>6, <1>b, Kinds DEF OnAir, At, Places
    <2>2. prog' \in [Programs -> P]
      BY <1>0, <1>6 DEF OnAir, Goto, FwdTypeOK, Places
    <2>3. {active', incoming'} \subseteq Items \cup {NoItem} /\ events' \in 0 .. MaxEvents
      BY <1>0, <1>6, <2>1, KeysType, EventsType DEF OnAir
    <2> QED
      BY <1>0, <1>6, <2>1, <2>2, <2>3 DEF OnAir, FwdTypeOK
  <1>7. ASSUME NEW p \in Programs, OffAir(p) PROVE FwdTypeOK'
    <2>1. Mine(p) \in Alerts
      BY <1>0, <1>7, Kinds DEF OffAir, At, Stage
    <2>2. {active', incoming'} \subseteq Items \cup {NoItem} /\ events' \in 0 .. MaxEvents
      BY <1>0, <1>7, <2>1, Kinds, KeysType, EventsType DEF OffAir
    <2>3. Finish(p, "forwarded") \/ Finish(p, "failed")
      BY <1>7 DEF OffAir
    <2> QED
      BY <1>0, <1>7, <2>1, <2>2, <2>3, FinishType DEF OffAir, FwdTypeOK
  <1>8. ASSUME NEW p \in Programs, Crash(p) PROVE FwdTypeOK'
    <2>1. Idle \in P
      BY DEF Idle, Places
    <2>2. prog' \in [Programs -> P]
      BY <1>0, <1>8, <2>1 DEF Crash, FwdTypeOK
    <2>3. verdict' \in [Alerts -> {"none", "refused", "duplicate", "failed", "forwarded", "lost"}]
      BY <1>0, <1>8 DEF Crash, FwdTypeOK
    <2> QED
      BY <1>0, <1>8, <2>2, <2>3, ItemsAssumption DEF Crash, Happens, FwdTypeOK
  <1>9. CASE File
    <2>1. "monitor" \in Programs /\ Mine("monitor") \in Alerts
      BY <1>9, <1>b DEF File, At, Places, Programs
    <2>2. Idle \in P
      BY DEF Idle, Places
    <2>3. prog' \in [Programs -> P]
      BY <1>0, <1>9, <2>1, <2>2 DEF File, FwdTypeOK
    <2>4. received' \in [Alerts -> {"none", "unlinked", "linked"}]
      BY <1>0, <1>9, <2>1 DEF File, FiledAs, FwdTypeOK
    <2>5. events' \in 0 .. MaxEvents
      BY <1>0, <1>9, ItemsAssumption DEF File, Happens, FwdTypeOK
    <2> QED
      BY <1>0, <1>9, <2>3, <2>4, <2>5 DEF File, FwdTypeOK
  <1>10. ASSUME NEW w \in Activations, Generate(w) PROVE FwdTypeOK'
    BY <1>0, <1>10, Kinds, RecordType DEF Generate, FwdTypeOK
  <1>11. ASSUME NEW x \in Items, Send(x) PROVE FwdTypeOK'
    <2>1. [Idle EXCEPT !.at = "onair", !.item = x] \in P
      BY DEF Idle, Places
    <2>2. prog' \in [Programs -> P]
      BY <1>0, <1>11, <2>1 DEF Send, FwdTypeOK
    <2>3. {active', incoming'} \subseteq Items \cup {NoItem} /\ events' \in 0 .. MaxEvents
      BY <1>0, <1>11, KeysType, EventsType DEF Send
    <2> QED
      BY <1>0, <1>11, <2>2, <2>3 DEF Send, FwdTypeOK
  <1>12. CASE SendEnds
    <2>1. Idle \in P
      BY DEF Idle, Places
    <2>2. prog' \in [Programs -> P]
      BY <1>0, <1>12, <2>1 DEF SendEnds, FwdTypeOK
    <2>3. {active', incoming'} \subseteq Items \cup {NoItem} /\ events' \in 0 .. MaxEvents
      <3>1. Mine("web") \in Items
        BY <1>0, <1>12 DEF SendEnds, WebSends, At
      <3> QED
        BY <1>0, <1>12, <3>1, KeysType, EventsType DEF SendEnds
    <2> QED
      BY <1>0, <1>12, <2>2, <2>3 DEF SendEnds, FwdTypeOK
  <1>13. ASSUME NEW x \in Items, Delete(x) PROVE FwdTypeOK'
    BY <1>0, <1>13, ItemsAssumption DEF Delete, Happens, FwdTypeOK
  <1>14. ASSUME NEW x \in Items, Age(x) PROVE FwdTypeOK'
    BY <1>0, <1>14 DEF Age, FwdTypeOK
  <1>15. CASE ExpireActive
    BY <1>0, <1>15 DEF ExpireActive, FwdTypeOK
  <1>16. CASE ExpireIncoming
    BY <1>0, <1>16 DEF ExpireIncoming, FwdTypeOK
  <1>17. CASE PollActive
    <2>1. hw' \in [at : {"active", "incoming"}, sees : BOOLEAN,
                   wasActive : BOOLEAN, wasIncoming : BOOLEAN]
      <3>1. PICK b \in BOOLEAN : hw' = [hw EXCEPT !.at = "incoming", !.sees = b]
        BY <1>17, Zenon DEF PollActive
      <3> QED
        BY <1>0, <3>1 DEF FwdTypeOK
    <2> QED
      BY <1>0, <1>17, <2>1, ItemsAssumption DEF PollActive, Happens, FwdTypeOK
  <1>18. CASE PollIncoming
    <2>1. hw' \in [at : {"active", "incoming"}, sees : BOOLEAN,
                   wasActive : BOOLEAN, wasIncoming : BOOLEAN]
      <3>1. PICK i \in BOOLEAN : hw' = [at |-> "active", sees |-> FALSE,
                                        wasActive |-> hw.sees, wasIncoming |-> i]
        BY <1>18, Zenon DEF PollIncoming
      <3>2. hw.sees \in BOOLEAN
        BY <1>0 DEF FwdTypeOK
      <3> QED
        BY <3>1, <3>2
    <2>2. light' \in {"green", "yellow", "red"}
      BY <1>0, <1>18 DEF PollIncoming, Shown, FwdTypeOK
    <2>3. events' \in 0 .. MaxEvents
      BY <1>0, <1>18, ItemsAssumption DEF PollIncoming, Happens, FwdTypeOK
    <2> QED
      BY <1>0, <1>18, <2>1, <2>2, <2>3 DEF PollIncoming, FwdTypeOK
  <1>19. CASE UNCHANGED fwdVars
    BY <1>0, <1>19 DEF fwdVars, FwdTypeOK
  <1>20. \A p \in Programs : CheckMessages(p) \/ CheckActivations(p) => FwdTypeOK'
    BY <1>3 DEF CheckMessages, CheckActivations
  <1>21. SendActivation \/ ResendMessage \/ DeleteActivation \/ DeleteMessage => FwdTypeOK'
    BY <1>11, <1>13, Kinds DEF SendActivation, ResendMessage, DeleteActivation, DeleteMessage
  <1> QED
    BY <1>1, <1>2, <1>4, <1>5, <1>6, <1>7, <1>8, <1>9, <1>10, <1>12, <1>14, <1>15,
       <1>16, <1>17, <1>18, <1>19, <1>20, <1>21 DEF FwdNext

(* What the processes know and have put on record. *)
CoreInv ==
    /\ \A p \in Forwarders : Stage(p) /\ Found(p)
    /\ WebSends
    /\ \A a \in Alerts : OnFile(a)

coreVars == <<prog, row, verdict, received, aired>>

LEMMA CoreFrame == CoreInv /\ UNCHANGED coreVars => CoreInv'
  BY DEF CoreInv, coreVars, Stage, Found, Excused, WebSends, OnFile, At, Mine

(* A process leaves its alert with a verdict.                              *)
LEMMA CoreFinish ==
    ASSUME FwdTypeOK, CoreInv, NEW p \in Forwarders,
           NEW v \in {"duplicate", "failed", "forwarded", "lost"},
           prog[p].at \in Places \ {"idle", "filing"},
           v = "forwarded" => At(p, "onair"),
           verdict' = [verdict EXCEPT ![Mine(p)] = v],
           \/ prog' = [prog EXCEPT ![p] = After(p, Mine(p))]
           \/ prog' = [prog EXCEPT ![p] = Idle],
           UNCHANGED <<row, received, aired>>
    PROVE  CoreInv'
  <1> DEFINE a == Mine(p)
  <1>1. a \in Alerts /\ a.via = p /\ p \in Programs /\ verdict[a] = "none"
    BY Kinds DEF CoreInv, Stage, At
  <1>2. /\ prog'[p] \in {Idle, [Idle EXCEPT !.at = "filing", !.item = a]}
        /\ \A q \in Programs \ {p} : prog'[q] = prog[q]
        /\ verdict'[a] = v /\ \A b \in Alerts \ {a} : verdict'[b] = verdict[b]
    BY <1>1 DEF FwdTypeOK, After
  <1>3. a # NoItem
    BY <1>1, Kinds
  <1>4. Stage(p)' /\ Found(p)'
    <2>1. CASE prog'[p] = Idle
      BY <1>1, <1>2, <1>3, <2>1 DEF Stage, Found, At, Mine, Idle, Places
    <2>2. CASE prog'[p] = [Idle EXCEPT !.at = "filing", !.item = a]
      <3>1. prog'[p].at = "filing" /\ prog'[p].item = a
        BY <2>2 DEF Idle
      <3> QED
        BY <1>1, <1>2, <1>3, <3>1 DEF Stage, Found, At, Mine, Places
    <2> QED
      BY <1>2, <2>1, <2>2
  <1>5. ASSUME NEW q \in Forwarders, q # p PROVE Stage(q)' /\ Found(q)'
    <2>1. prog'[q] = prog[q] /\ Mine(q) # a
      BY <1>1, <1>2, <1>3, <1>5, Kinds DEF CoreInv, Stage
    <2> QED
      BY <1>2, <1>5, <2>1 DEF CoreInv, Stage, Found, Excused, At, Mine
  <1>6. WebSends'
    <2>1. prog'["web"] = prog["web"]
      BY <1>2 DEF Programs, Forwarders
    <2> QED
      BY <2>1 DEF CoreInv, WebSends, At, Mine
  <1>7. ASSUME NEW b \in Alerts PROVE OnFile(b)'
    <2>1. CASE b = a
      <3>1. v = "forwarded" => a \in aired /\ row[a] # "none"
        BY DEF CoreInv, Stage, At
      <3>2. received[a] # "linked"
        BY <1>1 DEF CoreInv, OnFile
      <3> QED
        BY <1>2, <2>1, <3>1, <3>2 DEF OnFile
    <2>2. CASE b # a
      <3>1. verdict'[b] = verdict[b]
        BY <1>2, <2>2
      <3>2. verdict[b] = "none" /\ row[b] # "none" => b.via # p
        BY <1>1, <2>2 DEF CoreInv, OnFile
      <3>3. b.via \in Programs
        BY Kinds
      <3> QED
        BY <1>2, <3>1, <3>2, <3>3 DEF CoreInv, OnFile, Mine
    <2> QED
      BY <2>1, <2>2
  <1> QED
    BY <1>4, <1>5, <1>6, <1>7 DEF CoreInv

(* The same, for an alert that does not make it to the air.                *)
LEMMA CoreFails ==
    ASSUME FwdTypeOK, CoreInv, NEW p \in Forwarders,
           NEW v \in {"duplicate", "failed"}, Finish(p, v),
           prog[p].at \in {"messages", "activations", "building", "built"},
           UNCHANGED <<row, received, aired>>
    PROVE  CoreInv'
  <1>1. prog[p].at \in Places \ {"idle", "filing"}
    BY DEF Places
  <1>2. v \in {"duplicate", "failed", "forwarded", "lost"} /\ v # "forwarded"
    OBVIOUS
  <1>3. /\ verdict' = [verdict EXCEPT ![Mine(p)] = v]
        /\ prog' = [prog EXCEPT ![p] = After(p, Mine(p))]
    BY DEF Finish
  <1> QED
    BY <1>1, <1>2, <1>3, CoreFinish

(* A process goes on with its alert and changes nothing else of this.      *)
LEMMA CoreGoes ==
    ASSUME FwdTypeOK, CoreInv, NEW p \in Forwarders,
           prog[p].at \in Places \ {"idle", "filing"},
           NEW place \in Places \ {"idle", "filing"},
           prog'[p].at = place /\ prog'[p].item = prog[p].item,
           \A q \in Programs \ {p} : prog'[q] = prog[q],
           place \in {"messages", "activations", "building", "built"} =>
               prog[p].at \in {"messages", "activations", "building", "built"},
           place \in {"recorded", "onair"} => prog[p].at \in {"recorded", "onair"},
           aired \subseteq aired', place = "onair" => Mine(p) \in aired',
           Found(p)',
           UNCHANGED <<row, verdict, received>>
    PROVE  CoreInv'
  <1>1. p \in Programs
    BY Kinds
  <1>2. /\ prog'[p].at = place /\ prog'[p].item = prog[p].item
        /\ \A q \in Programs \ {p} : prog'[q] = prog[q]
    OBVIOUS
  <1>3. Stage(p)'
    BY <1>2 DEF CoreInv, Stage, At, Mine, Places
  <1>4. ASSUME NEW q \in Forwarders, q # p PROVE Stage(q)' /\ Found(q)'
    <2>1. prog'[q] = prog[q]
      BY <1>2, <1>4, Kinds
    <2> QED
      BY <2>1 DEF CoreInv, Stage, Found, Excused, At, Mine
  <1>5. WebSends'
    <2>1. prog'["web"] = prog["web"]
      BY <1>2 DEF Programs, Forwarders
    <2> QED
      BY <2>1 DEF CoreInv, WebSends, At, Mine
  <1>6. ASSUME NEW a \in Alerts PROVE OnFile(a)'
    <2>1. prog'[a.via].item = prog[a.via].item
      BY <1>2, Kinds
    <2> QED
      BY <2>1 DEF CoreInv, OnFile, Mine
  <1> QED
    BY <1>3, <1>4, <1>5, <1>6 DEF CoreInv

(* A row is committed, by the process whose item it is or by the operator. *)
LEMMA CoreRecord ==
    ASSUME FwdTypeOK, CoreInv, NEW x \in Items, row[x] = "none", Record(x),
           \/ x \in Activations
           \/ \E p \in Forwarders : At(p, "built") /\ Mine(p) = x,
           UNCHANGED <<verdict, received, aired>>
    PROVE  CoreInv'
  <1>1. row' = [row EXCEPT ![x] = "fresh"] /\ row'[x] = "fresh"
    BY DEF Record, FwdTypeOK
  <1>2. \A y \in Items \ {x} : row'[y] = row[y]
    BY <1>1 DEF FwdTypeOK
  <1>3. ASSUME NEW p \in Forwarders, Mine(p) = x PROVE Stage(p)' /\ Found(p)'
    <2>1. p \in Programs /\ x \in Alerts /\ x.via = p
      BY <1>3, Kinds, NoItemAssumption DEF CoreInv, Stage
    <2>2. At(p, "built")
      <3>1. x \notin Activations
        BY <2>1, Kinds DEF Forwarders
      <3>2. PICK q \in Forwarders : At(q, "built") /\ Mine(q) = x
        BY <3>1
      <3>3. x.via = q
        BY <3>2, Kinds, NoItemAssumption DEF CoreInv, Stage
      <3> QED
        BY <2>1, <3>2, <3>3
    <2>3. prog'[p] = [prog[p] EXCEPT !.at = "recorded"]
      BY <1>3, <2>1 DEF Record
    <2>4. /\ prog'[p].at = "recorded" /\ prog'[p].item = x
          /\ prog'[p].late = prog[p].late /\ prog'[p].blind = prog[p].blind
      BY <1>3, <2>1, <2>3 DEF FwdTypeOK, Mine
    <2>5. Stage(p)'
      BY <1>1, <1>3, <2>1, <2>2, <2>4 DEF CoreInv, Stage, At, Mine, Places
    <2>6. Excused(p, Items)'
      BY <1>2, <1>3, <2>2, <2>4 DEF CoreInv, Found, Excused, At, Mine
    <2> QED
      BY <2>4, <2>5, <2>6 DEF Found, At
  <1>4. ASSUME NEW p \in Forwarders, Mine(p) # x PROVE Stage(p)' /\ Found(p)'
    <2>1. /\ prog'[p].at = prog[p].at /\ prog'[p].item = prog[p].item
          /\ prog'[p].blind = prog[p].blind
          /\ prog[p].at \in Places \ {"idle", "messages", "filing"} =>
               prog'[p].late = prog[p].late \cup {x}
      BY <1>4, Kinds DEF Record, FwdTypeOK
    <2>2. Mine(p) \in Alerts => Mine(p) \in Items /\ row'[Mine(p)] = row[Mine(p)]
      BY <1>2, <1>4, Kinds
    <2>3. Stage(p)'
      BY <2>1, <2>2 DEF CoreInv, Stage, At, Mine, Places
    <2>4. ASSUME NEW table \in SUBSET Items, Excused(p, table),
                 prog[p].at \in Places \ {"idle", "messages", "filing"}
          PROVE  Excused(p, table)'
      BY <1>2, <2>1, <2>4 DEF Excused, Mine
    <2>5. Alerts \in SUBSET Items
      BY DEF Items
    <2> QED
      BY <2>1, <2>3, <2>4, <2>5 DEF CoreInv, Found, At, Places
  <1>5. WebSends'
    <2>1. "web" \in Programs
      BY DEF Programs
    <2>2. Mine("web") # x
      BY NoItemAssumption DEF CoreInv, WebSends
    <2>3. prog'["web"].at = prog["web"].at /\ prog'["web"].item = prog["web"].item
      BY <2>1, <2>2 DEF Record, FwdTypeOK, Mine
    <2>4. Mine("web") \in Items => row'[Mine("web")] = row[Mine("web")]
      BY <1>2, <2>2
    <2> QED
      BY <2>3, <2>4 DEF CoreInv, WebSends, At, Mine
  <1>6. ASSUME NEW a \in Alerts PROVE OnFile(a)'
    <2>1. a.via \in Programs /\ a \in Items
      BY Kinds
    <2>2. prog'[a.via].item = prog[a.via].item
      BY <2>1 DEF Record, FwdTypeOK
    <2>3. a = x => Mine(a.via) = a
      <3>1. a \notin Activations
        BY Kinds DEF Forwarders
      <3>2. ASSUME NEW q \in Forwarders, Mine(q) = a PROVE a.via = q
        BY <3>2, Kinds DEF CoreInv, Stage
      <3> QED
        BY <3>1, <3>2
    <2>4. a # x => row'[a] = row[a]
      BY <1>2, <2>1
    <2> QED
      BY <1>1, <2>2, <2>3, <2>4 DEF CoreInv, OnFile, Mine
  <1> QED
    BY <1>3, <1>4, <1>5, <1>6 DEF CoreInv

LEMMA CoreStep == FwdInv /\ [FwdNext]_fwdVars => CoreInv'
  <1> SUFFICES ASSUME FwdInv, [FwdNext]_fwdVars PROVE CoreInv'
    OBVIOUS
  <1>0. FwdTypeOK /\ CoreInv
    BY DEF FwdInv, CoreInv
  <1>a. \A p \in Programs : prog[p].at \in Places \ {"idle", "onair"} => p \in Forwarders
    BY <1>0, Kinds DEF CoreInv, WebSends, At
  <1>b. \A p \in Programs : prog[p].blind \in BOOLEAN
    BY <1>0 DEF FwdTypeOK
  <1>1. ASSUME NEW p \in Programs, NEW a \in Alerts, Refuse(p, a) PROVE CoreInv'
    <2>1. p \in Forwarders /\ a # NoItem /\ a \in Items
      BY <1>1, Kinds DEF Refuse
    <2>2. /\ prog'[p] \in {Idle, [Idle EXCEPT !.at = "filing", !.item = a]}
          /\ \A q \in Programs \ {p} : prog'[q] = prog[q]
          /\ verdict'[a] = "refused" /\ \A b \in Alerts \ {a} : verdict'[b] = verdict[b]
          /\ UNCHANGED <<row, received, aired>>
      BY <1>0, <1>1 DEF Refuse, After, FwdTypeOK
    <2>3. Stage(p)' /\ Found(p)'
      <3>1. CASE prog'[p] = Idle
        BY <2>1, <2>2, <3>1 DEF Stage, Found, At, Mine, Idle, Places
      <3>2. CASE prog'[p] = [Idle EXCEPT !.at = "filing", !.item = a]
        <4>1. prog'[p].at = "filing" /\ prog'[p].item = a /\ a.via = p
          BY <1>1, <3>2 DEF Idle, Refuse
        <4> QED
          BY <2>1, <2>2, <4>1 DEF Stage, Found, At, Mine, Places
      <3> QED
        BY <2>2, <3>1, <3>2
    <2>4. ASSUME NEW q \in Forwarders, q # p PROVE Stage(q)' /\ Found(q)'
      <3>1. prog'[q] = prog[q] /\ Mine(q) # a
        BY <1>0, <1>1, <2>1, <2>2, <2>4, Kinds DEF CoreInv, Stage, Refuse
      <3> QED
        BY <1>0, <2>2, <2>4, <3>1 DEF CoreInv, Stage, Found, Excused, At, Mine
    <2>5. WebSends'
      <3>1. prog'["web"] = prog["web"]
        BY <2>1, <2>2 DEF Programs, Forwarders
      <3> QED
        BY <1>0, <2>2, <3>1 DEF CoreInv, WebSends, At, Mine
    <2>6. ASSUME NEW b \in Alerts PROVE OnFile(b)'
      <3>1. CASE b = a
        BY <1>0, <1>1, <2>2, <3>1 DEF Refuse, CoreInv, OnFile
      <3>2. CASE b # a
        <4>1. verdict[b] = "none" /\ row[b] # "none" => b.via # p
          BY <1>0, <1>1, <2>1, <3>2, Kinds DEF Refuse, CoreInv, OnFile, Stage
        <4> QED
          BY <1>0, <2>2, <3>2, <4>1, Kinds DEF CoreInv, OnFile, Mine
      <3> QED
        BY <3>1, <3>2
    <2> QED
      BY <2>3, <2>4, <2>5, <2>6 DEF CoreInv
  <1>2. ASSUME NEW p \in Programs, NEW a \in Alerts, Accept(p, a) PROVE CoreInv'
    <2>1. p \in Forwarders /\ a # NoItem /\ a \in Items /\ a.via = p /\ At(p, "idle")
      BY <1>2, Kinds DEF Accept
    <2>2. Mine(p) = NoItem
      BY <1>0, <2>1 DEF CoreInv, Stage
    <2>3. row[a] = "none" /\ verdict[a] = "none"
      BY <1>0, <1>2, <2>1, <2>2 DEF CoreInv, OnFile, Accept
    <2>4. /\ prog'[p].at = (IF Checked(a) THEN "messages" ELSE "building")
          /\ prog'[p].item = a
          /\ \A q \in Programs \ {p} : prog'[q] = prog[q]
          /\ UNCHANGED <<row, verdict, received, aired>>
      <3>1. prog'[p] = [Idle EXCEPT !.item = a, !.at = IF Checked(a) THEN "messages" ELSE "building"]
        BY <1>0, <1>2 DEF Accept, FwdTypeOK
      <3> QED
        BY <1>0, <1>2, <3>1 DEF Accept, FwdTypeOK, Idle
    <2>5. Stage(p)'
      BY <2>1, <2>3, <2>4 DEF Stage, At, Mine, Places
    <2>6. Found(p)'
      BY <2>4 DEF Found, Excused, At, Mine
    <2>7. ASSUME NEW q \in Forwarders, q # p PROVE Stage(q)' /\ Found(q)'
      <3>1. prog'[q] = prog[q]
        BY <2>4, <2>7, Kinds
      <3> QED
        BY <1>0, <2>4, <3>1 DEF CoreInv, Stage, Found, Excused, At, Mine
    <2>8. WebSends'
      <3>1. prog'["web"] = prog["web"]
        BY <2>1, <2>4 DEF Programs, Forwarders
      <3> QED
        BY <1>0, <2>4, <3>1 DEF CoreInv, WebSends, At, Mine
    <2>9. ASSUME NEW b \in Alerts PROVE OnFile(b)'
      <3>1. verdict[b] = "none" /\ row[b] # "none" => b.via # p
        BY <1>0, <2>1, <2>2, <2>9, Kinds DEF CoreInv, OnFile
      <3> QED
        BY <1>0, <2>4, <3>1, Kinds DEF CoreInv, OnFile, Mine
    <2> QED
      BY <2>5, <2>6, <2>7, <2>8, <2>9 DEF CoreInv
  <1>3. ASSUME NEW p \in Programs, CheckMessages(p) PROVE CoreInv'
    <2>1. p \in Forwarders /\ prog[p].at = "messages"
      BY <1>3, <1>a DEF CheckMessages, CheckTable, At, Places
    <2>2. UNCHANGED <<row, received, aired>>
      BY <1>3 DEF CheckMessages, CheckTable
    <2>3. CASE Finish(p, "duplicate")
      BY <1>0, <2>1, <2>2, <2>3, CoreFails
    <2>4. ASSUME NEW blind \in BOOLEAN, UNCHANGED verdict,
                 blind \/ ~Hit(Mine(p), Alerts),
                 prog' = [prog EXCEPT ![p] = [prog[p] EXCEPT !.at = "activations", !.blind = blind]]
          PROVE  CoreInv'
      <3>1. /\ prog'[p].at = "activations" /\ prog'[p].item = Mine(p)
            /\ prog'[p].blind = blind
            /\ \A q \in Programs \ {p} : prog'[q] = prog[q]
        BY <1>0, <2>4 DEF FwdTypeOK, Mine
      <3>2. Excused(p, Alerts)'
        BY <2>2, <2>4, <3>1 DEF Excused, Hit, Mine
      <3>3. Found(p)'
        BY <3>1, <3>2 DEF Found, At
      <3> QED
        <4>1. "activations" \in Places \ {"idle", "filing"} /\ prog[p].at \in Places \ {"idle", "filing"}
          BY <2>1 DEF Places
        <4> QED
          BY <1>0, <2>1, <2>2, <2>4, <3>1, <3>3, <4>1, CoreGoes DEF Mine
    <2>5. CASE ~Hit(Mine(p), Alerts) /\ Goto(p, "activations") /\ UNCHANGED verdict
      <3>1. prog' = [prog EXCEPT ![p] = [prog[p] EXCEPT !.at = "activations", !.blind = prog[p].blind]]
        BY <1>0, <2>5 DEF Goto, FwdTypeOK
      <3> QED
        BY <1>b, <2>4, <2>5, <3>1
    <2>6. CASE prog' = [prog EXCEPT ![p].at = "activations", ![p].blind = TRUE] /\ UNCHANGED verdict
      <3>1. prog' = [prog EXCEPT ![p] = [prog[p] EXCEPT !.at = "activations", !.blind = TRUE]]
        BY <1>0, <2>6 DEF FwdTypeOK
      <3> QED
        BY <2>4, <2>6, <3>1
    <2> QED
      BY <1>3, <2>3, <2>5, <2>6 DEF CheckMessages, CheckTable
  <1>4. ASSUME NEW p \in Programs, CheckActivations(p) PROVE CoreInv'
    <2>1. p \in Forwarders /\ prog[p].at = "activations"
      BY <1>4, <1>a DEF CheckActivations, CheckTable, At, Places
    <2>2. UNCHANGED <<row, received, aired>>
      BY <1>4 DEF CheckActivations, CheckTable
    <2>3. CASE Finish(p, "duplicate")
      BY <1>0, <2>1, <2>2, <2>3, CoreFails
    <2>4. ASSUME NEW blind \in BOOLEAN, UNCHANGED verdict,
                 blind \/ (~Hit(Mine(p), Activations) /\ blind = prog[p].blind),
                 prog' = [prog EXCEPT ![p] = [prog[p] EXCEPT !.at = "building", !.blind = blind]]
          PROVE  CoreInv'
      <3>1. /\ prog'[p].at = "building" /\ prog'[p].item = Mine(p)
            /\ prog'[p].blind = blind /\ prog'[p].late = prog[p].late
            /\ \A q \in Programs \ {p} : prog'[q] = prog[q]
        BY <1>0, <2>4 DEF FwdTypeOK, Mine
      <3>2. Excused(p, Alerts)
        BY <1>0, <2>1 DEF CoreInv, Found, At
      <3>3. Excused(p, Items)'
        BY <2>2, <2>4, <3>1, <3>2 DEF Excused, Hit, Mine, Items
      <3>4. Found(p)'
        BY <3>1, <3>3 DEF Found, At
      <3> QED
        <4>1. "building" \in Places \ {"idle", "filing"} /\ prog[p].at \in Places \ {"idle", "filing"}
          BY <2>1 DEF Places
        <4> QED
          BY <1>0, <2>1, <2>2, <2>4, <3>1, <3>4, <4>1, CoreGoes DEF Mine
    <2>5. CASE ~Hit(Mine(p), Activations) /\ Goto(p, "building") /\ UNCHANGED verdict
      <3>1. prog' = [prog EXCEPT ![p] = [prog[p] EXCEPT !.at = "building", !.blind = prog[p].blind]]
        BY <1>0, <2>5 DEF Goto, FwdTypeOK
      <3> QED
        BY <1>b, <2>4, <2>5, <3>1
    <2>6. CASE prog' = [prog EXCEPT ![p].at = "building", ![p].blind = TRUE] /\ UNCHANGED verdict
      <3>1. prog' = [prog EXCEPT ![p] = [prog[p] EXCEPT !.at = "building", !.blind = TRUE]]
        BY <1>0, <2>6 DEF FwdTypeOK
      <3> QED
        BY <2>4, <2>6, <3>1
    <2> QED
      BY <1>4, <2>3, <2>5, <2>6 DEF CheckActivations, CheckTable
  <1>5. ASSUME NEW p \in Programs, Build(p) PROVE CoreInv'
    <2>1. p \in Forwarders /\ prog[p].at = "building" /\ UNCHANGED <<row, received, aired>>
      BY <1>5, <1>a DEF Build, At, Places
    <2>2. CASE Finish(p, "failed")
      BY <1>0, <2>1, <2>2, CoreFails
    <2>3. CASE Goto(p, "built") /\ UNCHANGED verdict
      <3>1. /\ prog'[p].at = "built" /\ prog'[p].item = prog[p].item
            /\ \A q \in Programs \ {p} : prog'[q] = prog[q]
        BY <1>0, <2>3 DEF Goto, FwdTypeOK
      <3>2. Found(p)'
        BY <1>0, <2>1, <2>3 DEF Goto, FwdTypeOK, CoreInv, Found, Excused, At, Mine
      <3> QED
        BY <1>0, <2>1, <2>3, <3>1, <3>2, CoreGoes DEF Places
    <2> QED
      BY <1>5, <2>2, <2>3 DEF Build
  <1>6. ASSUME NEW p \in Programs, Commit(p) PROVE CoreInv'
    <2>1. p \in Forwarders /\ prog[p].at = "built" /\ UNCHANGED <<received, aired>>
      BY <1>6, <1>a DEF Commit, At, Places
    <2>2. CASE Finish(p, "failed") /\ UNCHANGED row
      BY <1>0, <2>1, <2>2, CoreFails
    <2>3. CASE Record(Mine(p)) /\ UNCHANGED verdict
      <3>1. Mine(p) \in Items /\ row[Mine(p)] = "none"
        BY <1>0, <2>1, Kinds DEF CoreInv, Stage, At
      <3> QED
        BY <1>0, <2>1, <2>3, <3>1, CoreRecord DEF At
    <2> QED
      BY <1>6, <2>2, <2>3 DEF Commit
  <1>7. ASSUME NEW p \in Programs, OnAir(p) PROVE CoreInv'
    <2>1. /\ p \in Forwarders /\ prog[p].at = "recorded"
          /\ aired' = aired \cup {Mine(p)} /\ UNCHANGED <<row, verdict, received>>
      BY <1>7, <1>a DEF OnAir, At, Places
    <2>2. /\ prog'[p].at = "onair" /\ prog'[p].item = prog[p].item
          /\ \A q \in Programs \ {p} : prog'[q] = prog[q]
      BY <1>0, <1>7 DEF OnAir, Goto, FwdTypeOK
    <2>3. Found(p)'
      BY <1>0, <1>7 DEF OnAir, Goto, FwdTypeOK, Found, At
    <2> QED
      BY <1>0, <2>1, <2>2, <2>3, CoreGoes DEF Places, Mine
  <1>8. ASSUME NEW p \in Programs, OffAir(p) PROVE CoreInv'
    <2>1. p \in Forwarders /\ At(p, "onair") /\ UNCHANGED <<row, received, aired>>
      BY <1>8, Kinds DEF OffAir
    <2>2. PICK v \in {"forwarded", "failed"} : Finish(p, v)
      BY <1>8 DEF OffAir
    <2> QED
      BY <1>0, <2>1, <2>2, CoreFinish DEF Finish, At, Places
  <1>9. ASSUME NEW p \in Programs, Crash(p) PROVE CoreInv'
    <2>1. prog' = [prog EXCEPT ![p] = Idle] /\ UNCHANGED <<row, received, aired>>
      BY <1>9 DEF Crash
    <2>2. CASE p \in Forwarders /\ prog[p].at # "filing"
      <3>1. prog[p].at \in Places \ {"idle", "filing"}
        BY <1>0, <1>9, <2>2 DEF Crash, At, FwdTypeOK
      <3>2. verdict' = [verdict EXCEPT ![Mine(p)] = "lost"]
        BY <1>0, <1>9, <2>2, <3>1 DEF Crash, CoreInv, Stage, At, Places, Forwarders
      <3> QED
        BY <1>0, <2>1, <2>2, <3>1, <3>2, CoreFinish
    <2>3. CASE p \in Forwarders /\ prog[p].at = "filing"
      <3>1. UNCHANGED verdict
        BY <1>0, <1>9, <2>3 DEF Crash, CoreInv, Stage, At
      <3>2. verdict[Mine(p)] # "none" /\ Mine(p).via = p
        BY <1>0, <2>3 DEF CoreInv, Stage, At
      <3>3. prog'[p] = Idle /\ \A q \in Programs \ {p} : prog'[q] = prog[q]
        BY <1>0, <2>1 DEF FwdTypeOK
      <3>4. ASSUME NEW q \in Forwarders PROVE Stage(q)' /\ Found(q)'
        <4>1. CASE q = p
          BY <2>1, <3>1, <3>3, <4>1 DEF Stage, Found, At, Mine, Idle, Places
        <4>2. CASE q # p
          <5>1. prog'[q] = prog[q]
            BY <3>3, <4>2, Kinds
          <5> QED
            BY <1>0, <2>1, <3>1, <5>1 DEF CoreInv, Stage, Found, Excused, At, Mine
        <4> QED
          BY <4>1, <4>2
      <3>5. WebSends'
        <4>1. prog'["web"] = prog["web"]
          BY <2>3, <3>3 DEF Programs, Forwarders
        <4> QED
          BY <1>0, <2>1, <4>1 DEF CoreInv, WebSends, At, Mine
      <3>6. ASSUME NEW a \in Alerts PROVE OnFile(a)'
        <4>1. verdict[a] = "none" /\ row[a] # "none" => a.via # p
          BY <1>0, <3>2 DEF CoreInv, OnFile
        <4> QED
          BY <1>0, <2>1, <3>1, <3>3, <4>1, Kinds DEF CoreInv, OnFile, Mine
      <3> QED
        BY <3>4, <3>5, <3>6 DEF CoreInv
    <2>4. CASE p = "web"
      <3>1. UNCHANGED verdict
        BY <1>9, <2>4 DEF Crash
      <3>2. prog'["web"] = Idle /\ \A q \in Forwarders : prog'[q] = prog[q]
        BY <1>0, <2>1, <2>4 DEF FwdTypeOK, Programs, Forwarders
      <3> QED
        BY <1>0, <2>1, <3>1, <3>2, Kinds DEF CoreInv, Stage, Found, Excused, WebSends, OnFile, At, Mine, Idle
    <2> QED
      BY <2>2, <2>3, <2>4, Kinds
  <1>10. CASE File
    <2>1. "monitor" \in Forwarders /\ "monitor" \in Programs
      BY DEF Forwarders, Programs
    <2>2. At("monitor", "filing") /\ prog' = [prog EXCEPT !["monitor"] = Idle]
          /\ UNCHANGED <<row, verdict, aired>>
      BY <1>10 DEF File
    <2>3. prog'["monitor"] = Idle /\ \A q \in Programs \ {"monitor"} : prog'[q] = prog[q]
      BY <1>0, <2>1, <2>2 DEF FwdTypeOK
    <2>4. verdict[Mine("monitor")] # "none" /\ Mine("monitor") \in Alerts
          /\ Mine("monitor").via = "monitor"
      BY <1>0, <2>1, <2>2 DEF CoreInv, Stage, At
    <2>5. ASSUME NEW a \in Alerts
          PROVE  received'[a] = "linked" => verdict[a] = "forwarded"
      <3>1. received'[a] \in {received[a], FiledAs(Mine("monitor"))}
            /\ (a # Mine("monitor") => received'[a] = received[a])
        BY <1>0, <1>10, <2>4 DEF File, FwdTypeOK
      <3> QED
        BY <1>0, <3>1 DEF CoreInv, OnFile, FiledAs
    <2>6. ASSUME NEW q \in Forwarders PROVE Stage(q)' /\ Found(q)'
      <3>1. CASE q = "monitor"
        BY <2>2, <2>3, <3>1 DEF Stage, Found, At, Mine, Idle, Places
      <3>2. CASE q # "monitor"
        <4>1. prog'[q] = prog[q]
          BY <2>3, <3>2, Kinds
        <4> QED
          BY <1>0, <2>2, <4>1 DEF CoreInv, Stage, Found, Excused, At, Mine
      <3> QED
        BY <3>1, <3>2
    <2>7. WebSends'
      <3>1. prog'["web"] = prog["web"]
        BY <2>3 DEF Programs
      <3> QED
        BY <1>0, <2>2, <3>1 DEF CoreInv, WebSends, At, Mine
    <2>8. ASSUME NEW a \in Alerts PROVE OnFile(a)'
      <3>1. verdict[a] = "none" /\ row[a] # "none" => a.via # "monitor"
        BY <1>0, <2>4 DEF CoreInv, OnFile
      <3> QED
        BY <1>0, <2>2, <2>3, <2>5, <3>1, Kinds DEF CoreInv, OnFile, Mine
    <2> QED
      BY <2>6, <2>7, <2>8 DEF CoreInv
  <1>11. ASSUME NEW w \in Activations, Generate(w) PROVE CoreInv'
    BY <1>0, <1>11, Kinds, CoreRecord DEF Generate
  <1>12. ASSUME NEW x \in Items, Send(x) PROVE CoreInv'
    <2>1. /\ prog'["web"].at = "onair" /\ prog'["web"].item = x
          /\ \A q \in Forwarders : prog'[q] = prog[q]
      <3>1. /\ prog'["web"] = [Idle EXCEPT !.at = "onair", !.item = x]
            /\ \A q \in Forwarders : prog'[q] = prog[q]
        BY <1>0, <1>12 DEF Send, FwdTypeOK, Programs, Forwarders
      <3> QED
        BY <3>1 DEF Idle
    <2>2. /\ row[x] # "none" /\ aired \subseteq aired'
          /\ UNCHANGED <<row, verdict, received>>
      BY <1>12 DEF Send
    <2>3. \A q \in Forwarders : Stage(q)' /\ Found(q)'
      BY <1>0, <2>1, <2>2 DEF CoreInv, Stage, Found, Excused, At, Mine
    <2>4. WebSends'
      BY <2>1, <2>2 DEF WebSends, At, Mine
    <2>5. \A a \in Alerts : OnFile(a)'
      BY <1>0, <2>1, <2>2, Kinds DEF CoreInv, OnFile, Mine
    <2> QED
      BY <2>3, <2>4, <2>5 DEF CoreInv
  <1>13. CASE SendEnds
    <2>1. prog'["web"] = Idle /\ \A q \in Forwarders : prog'[q] = prog[q]
      BY <1>0, <1>13 DEF SendEnds, FwdTypeOK, Programs, Forwarders
    <2>2. UNCHANGED <<row, verdict, received, aired>>
      BY <1>13 DEF SendEnds
    <2>3. WebSends'
      BY <2>1 DEF WebSends, At, Mine, Idle
    <2>4. \A q \in Forwarders : Stage(q)' /\ Found(q)'
      BY <1>0, <2>1, <2>2 DEF CoreInv, Stage, Found, Excused, At, Mine
    <2>5. \A a \in Alerts : OnFile(a)'
      BY <1>0, <2>1, <2>2, Kinds DEF CoreInv, OnFile, Mine
    <2> QED
      BY <2>3, <2>4, <2>5 DEF CoreInv
  <1>14. ASSUME NEW x \in Items, NEW to \in {"old", "deleted"},
                row[x] \in {"fresh", "old"}, row' = [row EXCEPT ![x] = to],
                UNCHANGED <<prog, verdict, received, aired>>
         PROVE  CoreInv'
    <2>1. \A y \in Items : (row'[y] = "none" <=> row[y] = "none")
                           /\ (row'[y] = "fresh" => row[y] = "fresh")
      BY <1>0, <1>14 DEF FwdTypeOK
    <2>2. ASSUME NEW p \in Forwarders PROVE Stage(p)' /\ Found(p)'
      <3>1. Stage(p)'
        BY <1>0, <1>14, <2>1, Kinds DEF CoreInv, Stage, At, Mine, Places
      <3>2. ASSUME NEW table \in SUBSET Items, Excused(p, table) PROVE Excused(p, table)'
        BY <1>14, <2>1, <3>2 DEF Excused, Mine
      <3>3. Alerts \in SUBSET Items /\ Items \in SUBSET Items
        BY DEF Items
      <3> QED
        BY <1>0, <1>14, <3>1, <3>2, <3>3 DEF CoreInv, Found, At
    <2>3. WebSends'
      BY <1>0, <1>14, <2>1 DEF CoreInv, WebSends, At, Mine
    <2>4. \A a \in Alerts : OnFile(a)'
      BY <1>0, <1>14, <2>1, Kinds DEF CoreInv, OnFile, Mine
    <2> QED
      BY <2>2, <2>3, <2>4 DEF CoreInv
  <1>15. ASSUME NEW x \in Items, Delete(x) \/ Age(x) PROVE CoreInv'
    BY <1>14, <1>15 DEF Delete, Age
  <1>16. SendActivation \/ ResendMessage \/ DeleteActivation \/ DeleteMessage => CoreInv'
    BY <1>12, <1>15, Kinds DEF SendActivation, ResendMessage, DeleteActivation, DeleteMessage
  <1>17. CASE ExpireActive \/ ExpireIncoming \/ PollActive \/ PollIncoming \/ UNCHANGED fwdVars
    <2>1. UNCHANGED coreVars
      BY <1>17 DEF ExpireActive, ExpireIncoming, PollActive, PollIncoming, fwdVars, coreVars
    <2> QED
      BY <1>0, <2>1, CoreFrame
  <1> QED
    BY <1>1, <1>2, <1>3, <1>4, <1>5, <1>6, <1>7, <1>8, <1>9, <1>10, <1>11, <1>13,
       <1>15, <1>16, <1>17 DEF FwdNext

(* The light, poll by poll.                                                *)
LEMMA LightStep == FwdInv /\ [FwdNext]_fwdVars => LightFollowsPolls'
  <1> SUFFICES ASSUME FwdInv, [FwdNext]_fwdVars PROVE LightFollowsPolls'
    OBVIOUS
  <1>0. FwdTypeOK /\ LightFollowsPolls
    BY DEF FwdInv
  <1>1. CASE PollIncoming
    <2>1. PICK i \in BOOLEAN :
            /\ hw' = [at |-> "active", sees |-> FALSE,
                      wasActive |-> hw.sees, wasIncoming |-> i]
            /\ light' = Shown(hw.sees, i)
      BY <1>1, Zenon DEF PollIncoming
    <2>2. hw'.wasActive = hw.sees /\ hw'.wasIncoming = i
      BY <2>1
    <2>3. hw.sees \in BOOLEAN /\ hw.wasActive \in BOOLEAN /\ hw.wasIncoming \in BOOLEAN
          /\ light \in {"green", "yellow", "red"}
      BY <1>0 DEF FwdTypeOK
    <2>4. CASE hw.sees
      <3>1. light' = "red"
        BY <1>0, <2>1, <2>3, <2>4 DEF LightFollowsPolls, Shown
      <3> QED
        BY <2>2, <2>4, <3>1 DEF LightFollowsPolls
    <2>5. CASE ~hw.sees
      <3>1. light' # "red" /\ (light' = "yellow" => i)
        BY <1>0, <2>1, <2>3, <2>5 DEF LightFollowsPolls, Shown
      <3> QED
        BY <2>2, <2>5, <3>1 DEF LightFollowsPolls
    <2> QED
      BY <2>3, <2>4, <2>5
  <1>2. CASE PollActive
    <2>1. PICK b \in BOOLEAN : hw' = [hw EXCEPT !.at = "incoming", !.sees = b]
      BY <1>2, Zenon DEF PollActive
    <2>2. hw'.wasActive = hw.wasActive /\ hw'.wasIncoming = hw.wasIncoming
      BY <1>0, <2>1 DEF FwdTypeOK
    <2>3. UNCHANGED light
      BY <1>2 DEF PollActive
    <2> QED
      BY <1>0, <2>2, <2>3 DEF LightFollowsPolls
  <1>3. CASE UNCHANGED <<hw, light>>
    BY <1>0, <1>3 DEF LightFollowsPolls
  <1>4. PollIncoming \/ PollActive \/ UNCHANGED <<hw, light>>
    BY DEF FwdNext, fwdVars, Refuse, Accept, CheckMessages, CheckActivations, CheckTable,
           Build, Commit, OnAir, OffAir, Crash, File, Generate, SendActivation,
           ResendMessage, Send, SendEnds, DeleteActivation, DeleteMessage, Delete, Age,
           ExpireActive, ExpireIncoming
  <1> QED
    BY <1>1, <1>2, <1>3, <1>4

LEMMA FwdInvariant == FwdSpec => []FwdInv
  <1>1. FwdInv /\ [FwdNext]_fwdVars => FwdInv'
    BY FwdTypeStep, CoreStep, LightStep DEF FwdInv, CoreInv
  <1> QED
    BY <1>1, FwdInvInit, PTL DEF FwdSpec

-----------------------------------------------------------------------------
(* The variables of the alert paths keep their types.                      *)
THEOREM FwdTypeCorrect == FwdSpec => []FwdTypeOK
  <1>1. FwdInv => FwdTypeOK
    BY DEF FwdInv
  <1> QED
    BY <1>1, FwdInvariant, PTL

(* The duplicate check of auto_forward.py misses only what was recorded    *)
(* while it was under way, whatever the alerts and however many.           *)
THEOREM RepeatsWereConcurrent == FwdSpec => []RepeatOnlyIfConcurrent
  <1>1. FwdInv => RepeatOnlyIfConcurrent
    <2> SUFFICES ASSUME FwdInv, NEW p \in Forwarders,
                        At(p, "recorded"), Checked(Mine(p)), ~prog[p].blind
                 PROVE  \A x \in Items \ {Mine(p)} :
                            row[x] = "fresh" /\ Overlaps(Mine(p), x) => x \in prog[p].late
      BY Kinds DEF RepeatOnlyIfConcurrent, Programs, Forwarders
    <2> QED
      BY DEF FwdInv, Found, Excused, At
  <1> QED
    BY <1>1, FwdInvariant, PTL

(* A received alert that is linked to a message was broadcast, and that    *)
(* broadcast is over.                                                      *)
THEOREM LinksAreHonest == FwdSpec => []LinkedWasAired
  <1>1. FwdInv => LinkedWasAired
    <2> SUFFICES ASSUME FwdInv, NEW a \in Alerts, received[a] = "linked"
                 PROVE  /\ a \in aired /\ row[a] # "none"
                        /\ \A p \in Forwarders : Mine(p) = a => ~At(p, "onair")
      BY DEF LinkedWasAired, Programs, Forwarders
    <2>1. verdict[a] = "forwarded" /\ a \in aired /\ row[a] # "none"
      BY DEF FwdInv, OnFile
    <2>2. ASSUME NEW p \in Forwarders, Mine(p) = a PROVE ~At(p, "onair")
      BY <2>1, <2>2 DEF FwdInv, Stage, At, Places
    <2> QED
      BY <2>1, <2>2
  <1> QED
    BY <1>1, FwdInvariant, PTL

(* The tower light shows what the last poll saw, though the code only acts *)
(* on changes.                                                             *)
THEOREM LightIsTrue == FwdSpec => []LightFollowsPolls
  <1>1. FwdInv => LightFollowsPolls
    BY DEF FwdInv
  <1> QED
    BY <1>1, FwdInvariant, PTL

-----------------------------------------------------------------------------
(* The refinement of AlertDelivery. Every step puts one item on record,    *)
(* broadcasts one, settles or links one alert, or does none of these.      *)
OnRecord == {x \in Items : row[x] # "none"}
Linked == {a \in Alerts : received[a] = "linked"}
outcomeVars == <<OnRecord, aired, verdict, Linked>>

(* A process that is done with its alert settles it.                       *)
LEMMA Settles ==
    ASSUME FwdInv, NEW p \in Forwarders, NEW v \in {"duplicate", "failed", "forwarded"},
           prog[p].at \in Places \ {"idle", "filing", "recorded"},
           v = "forwarded" => At(p, "onair"), v = "duplicate" => ~At(p, "onair"),
           Finish(p, v), UNCHANGED <<row, received, aired>>
    PROVE  [Delivery!DeliveryNext]_outcomeVars
  <1>1. Mine(p) \in Alerts /\ Mine(p) \in Items /\ verdict[Mine(p)] = "none"
    BY Kinds DEF FwdInv, Stage, At
  <1>2. verdict' = [verdict EXCEPT ![Mine(p)] = v]
    BY DEF Finish
  <1>3. At(p, "onair") => Mine(p) \in aired
    BY DEF FwdInv, Stage
  <1>4. ~At(p, "onair") => row[Mine(p)] = "none"
    BY DEF FwdInv, Stage, At, Places
  <1>5. CASE v = "forwarded"
    <2>1. Delivery!Forward(Mine(p))
      BY <1>1, <1>2, <1>3, <1>5 DEF Delivery!Forward, Delivery!Open
    <2> QED
      BY <1>1, <2>1 DEF Delivery!DeliveryNext
  <1>6. CASE v = "failed"
    <2>1. Delivery!Fail(Mine(p))
      BY <1>1, <1>2, <1>3, <1>4, <1>6 DEF Delivery!Fail, Delivery!Open
    <2> QED
      BY <1>1, <2>1 DEF Delivery!DeliveryNext
  <1>7. CASE v = "duplicate"
    <2>1. Delivery!Drop(Mine(p))
      BY <1>1, <1>2, <1>4, <1>7 DEF Delivery!Drop, Delivery!Open, Delivery!Dropped
    <2> QED
      BY <1>1, <2>1 DEF Delivery!DeliveryNext
  <1> QED
    BY <1>5, <1>6, <1>7

LEMMA Recorded ==
    ASSUME FwdInv, NEW x \in Items, row[x] = "none", x \in Alerts => verdict[x] = "none",
           Record(x), UNCHANGED <<verdict, received, aired>>
    PROVE  [Delivery!DeliveryNext]_outcomeVars
  <1>1. row \in [Items -> {"none", "fresh", "old", "deleted"}]
    BY DEF FwdInv, FwdTypeOK
  <1>2. row' = [row EXCEPT ![x] = "fresh"]
    BY DEF Record
  <1>3. OnRecord' = OnRecord \cup {x}
    BY <1>1, <1>2 DEF OnRecord
  <1>4. Delivery!PutOnRecord(x)
    BY <1>3 DEF Delivery!PutOnRecord, Delivery!Open, OnRecord
  <1> QED
    BY <1>4 DEF Delivery!DeliveryNext

LEMMA Broadcasts ==
    ASSUME NEW x \in Items, row[x] # "none", aired' = aired \cup {x},
           UNCHANGED <<row, verdict, received>>
    PROVE  [Delivery!DeliveryNext]_outcomeVars
  <1>1. Delivery!Broadcast(x)
    BY DEF Delivery!Broadcast
  <1> QED
    BY <1>1 DEF Delivery!DeliveryNext

(* Nothing leaves the record: a row ages and is marked as deleted.         *)
LEMMA StaysOnRecord ==
    ASSUME FwdInv, NEW x \in Items, row[x] # "none", NEW s \in {"old", "deleted"},
           row' = [row EXCEPT ![x] = s], UNCHANGED <<verdict, received, aired>>
    PROVE  UNCHANGED outcomeVars
  <1>1. row \in [Items -> {"none", "fresh", "old", "deleted"}]
    BY DEF FwdInv, FwdTypeOK
  <1>2. OnRecord' = OnRecord
    BY <1>1 DEF OnRecord
  <1> QED
    BY <1>2 DEF outcomeVars, Linked

LEMMA DeliveryStep == FwdInv /\ [FwdNext]_fwdVars => [Delivery!DeliveryNext]_outcomeVars
  <1> SUFFICES ASSUME FwdInv, [FwdNext]_fwdVars PROVE [Delivery!DeliveryNext]_outcomeVars
    OBVIOUS
  <1>0. /\ \A p \in Forwarders : Stage(p)
        /\ \A a \in Alerts : OnFile(a)
        /\ WebSends /\ FwdTypeOK
    BY DEF FwdInv
  <1>a. \A p \in Programs : prog[p].at \in Places \ {"idle", "onair"} => p \in Forwarders
    BY <1>0, Kinds DEF WebSends, At
  <1>f. UNCHANGED <<row, aired, verdict, received>> => UNCHANGED outcomeVars
    BY DEF outcomeVars, OnRecord, Linked
  <1>1. ASSUME NEW p \in Programs, NEW a \in Alerts, Refuse(p, a)
        PROVE  [Delivery!DeliveryNext]_outcomeVars
    <2>1. p \in Forwarders /\ a.via = p
      BY <1>1, Kinds DEF Refuse
    <2>2. Mine(p) = NoItem /\ a # NoItem
      BY <1>0, <1>1, <2>1, Kinds DEF Refuse, Stage
    <2>3. row[a] = "none"
      BY <1>0, <1>1, <2>1, <2>2 DEF Refuse, OnFile
    <2>4. Delivery!Drop(a)
      BY <1>1, <2>3 DEF Refuse, Delivery!Drop, Delivery!Open, Delivery!Dropped
    <2> QED
      BY <2>4 DEF Delivery!DeliveryNext
  <1>2. ASSUME NEW p \in Programs, NEW place \in {"messages", "activations"}, NEW table, NEW next,
               CheckTable(p, place, table, next)
        PROVE  [Delivery!DeliveryNext]_outcomeVars
    <2>1. p \in Forwarders /\ prog[p].at = place
      BY <1>2, <1>a DEF CheckTable, At, Places
    <2>2. CASE Finish(p, "duplicate")
      BY <1>2, <2>1, <2>2, Settles DEF CheckTable, At, Places
    <2>3. CASE UNCHANGED verdict
      BY <1>2, <1>f, <2>3 DEF CheckTable
    <2> QED
      BY <1>2, <2>2, <2>3 DEF CheckTable
  <1>3. ASSUME NEW p \in Programs, Build(p) PROVE [Delivery!DeliveryNext]_outcomeVars
    <2>1. p \in Forwarders /\ prog[p].at = "building"
      BY <1>3, <1>a DEF Build, At, Places
    <2>2. CASE Finish(p, "failed")
      BY <1>3, <2>1, <2>2, Settles DEF Build, At, Places
    <2>3. CASE UNCHANGED verdict
      BY <1>3, <1>f, <2>3 DEF Build
    <2> QED
      BY <1>3, <2>2, <2>3 DEF Build
  <1>4. ASSUME NEW p \in Programs, Commit(p) PROVE [Delivery!DeliveryNext]_outcomeVars
    <2>1. p \in Forwarders /\ prog[p].at = "built"
      BY <1>4, <1>a DEF Commit, At, Places
    <2>2. CASE Finish(p, "failed") /\ UNCHANGED row
      BY <1>4, <2>1, <2>2, Settles DEF Commit, At, Places
    <2>3. CASE Record(Mine(p)) /\ UNCHANGED verdict
      <3>1. Mine(p) \in Items /\ row[Mine(p)] = "none" /\ verdict[Mine(p)] = "none"
        BY <1>0, <2>1, Kinds DEF Stage, At, Places
      <3> QED
        BY <1>4, <2>3, <3>1, Recorded DEF Commit
    <2> QED
      BY <1>4, <2>2, <2>3 DEF Commit
  <1>5. ASSUME NEW p \in Programs, OnAir(p) PROVE [Delivery!DeliveryNext]_outcomeVars
    <2>1. p \in Forwarders /\ prog[p].at = "recorded"
      BY <1>5, <1>a DEF OnAir, At, Places
    <2>2. Mine(p) \in Items /\ row[Mine(p)] # "none"
      BY <1>0, <2>1, Kinds DEF Stage, At
    <2> QED
      BY <1>5, <2>2, Broadcasts DEF OnAir
  <1>6. ASSUME NEW p \in Programs, OffAir(p) PROVE [Delivery!DeliveryNext]_outcomeVars
    <2>1. p \in Forwarders /\ prog[p].at = "onair"
      BY <1>6, Kinds DEF OffAir, At
    <2>2. PICK v \in {"forwarded", "failed"} : Finish(p, v)
      BY <1>6 DEF OffAir
    <2> QED
      BY <1>6, <2>1, <2>2, Settles DEF OffAir, At, Places
  <1>7. ASSUME NEW p \in Programs, Crash(p) PROVE [Delivery!DeliveryNext]_outcomeVars
    <2>1. CASE p # "web" /\ verdict[Mine(p)] = "none"
      <3>1. Mine(p) \in Alerts
        BY <1>0, <1>7, <2>1, Kinds DEF Crash, Stage
      <3>2. Delivery!Lose(Mine(p))
        <4>1. verdict' = [verdict EXCEPT ![Mine(p)] = "lost"]
          BY <1>7, <2>1 DEF Crash
        <4>2. OnRecord' = OnRecord /\ Linked' = Linked /\ aired' = aired
          BY <1>7 DEF Crash, OnRecord, Linked
        <4> QED
          BY <2>1, <4>1, <4>2 DEF Delivery!Lose, Delivery!Open, OnRecord, Linked
      <3> QED
        BY <3>1, <3>2 DEF Delivery!DeliveryNext
    <2>2. CASE ~(p # "web" /\ verdict[Mine(p)] = "none")
      BY <1>7, <1>f, <2>2 DEF Crash
    <2> QED
      BY <2>1, <2>2
  <1>8. CASE File
    <2>0. Mine("monitor") \in Alerts /\ verdict[Mine("monitor")] # "none"
      <3>1. "monitor" \in Forwarders /\ At("monitor", "filing")
        BY <1>8 DEF File, Forwarders
      <3> QED
        BY <1>0, <3>1 DEF Stage, At
    <2>1. PICK a \in Alerts : a = Mine("monitor") /\ verdict[a] # "none"
      BY <2>0
    <2>2. CASE received' = [received EXCEPT ![a] = FiledAs(a)] /\ received[a] # "linked"
                 /\ verdict[a] = "forwarded"
      <3>1. received \in [Alerts -> {"none", "unlinked", "linked"}]
        BY <1>0 DEF FwdTypeOK
      <3>2. Linked' = Linked \cup {a} /\ a \notin Linked
        BY <2>1, <2>2, <3>1 DEF Linked, FiledAs
      <3>3. OnRecord' = OnRecord /\ aired' = aired /\ verdict' = verdict
        BY <1>8 DEF File, OnRecord
      <3>4. Delivery!Link(a)
        BY <2>2, <3>2, <3>3 DEF Delivery!Link, Linked, OnRecord
      <3>5. \E b \in Alerts : Delivery!Link(b)
        BY <2>1, <3>4, Zenon
      <3> QED
        BY <3>5 DEF Delivery!DeliveryNext
    <2>3. CASE received' = [received EXCEPT ![a] = FiledAs(a)]
                 /\ ~(received[a] # "linked" /\ verdict[a] = "forwarded")
      <3>1. received \in [Alerts -> {"none", "unlinked", "linked"}]
        BY <1>0 DEF FwdTypeOK
      <3>2. received[a] = "linked" <=> FiledAs(a) = "linked"
        BY <1>0, <2>1, <2>3 DEF OnFile, FiledAs
      <3>3. Linked' = Linked
        BY <2>1, <2>3, <3>1, <3>2 DEF Linked
      <3> QED
        BY <1>8, <3>3 DEF File, outcomeVars, OnRecord
    <2>4. CASE UNCHANGED received
      BY <1>8, <1>f, <2>4 DEF File
    <2> QED
      BY <1>8, <2>1, <2>2, <2>3, <2>4 DEF File
  <1>9. ASSUME NEW w \in Activations, Generate(w) PROVE [Delivery!DeliveryNext]_outcomeVars
    <2>1. w \in Items /\ w \notin Alerts
      BY Kinds DEF Forwarders
    <2> QED
      BY <1>9, <2>1, Recorded DEF Generate
  <1>10. ASSUME NEW x \in Items, Send(x) PROVE [Delivery!DeliveryNext]_outcomeVars
    BY <1>10, Broadcasts DEF Send
  <1>11. ASSUME NEW x \in Items, Delete(x) \/ Age(x) PROVE [Delivery!DeliveryNext]_outcomeVars
    BY <1>11, StaysOnRecord DEF Delete, Age
  <1>12. SendActivation \/ ResendMessage \/ DeleteActivation \/ DeleteMessage
           => [Delivery!DeliveryNext]_outcomeVars
    BY <1>10, <1>11, Kinds DEF SendActivation, ResendMessage, DeleteActivation, DeleteMessage
  <1>13. ASSUME \/ \E p \in Programs, a \in Alerts : Accept(p, a)
                \/ SendEnds \/ ExpireActive \/ ExpireIncoming \/ PollActive \/ PollIncoming
                \/ UNCHANGED fwdVars
         PROVE  [Delivery!DeliveryNext]_outcomeVars
    <2>1. UNCHANGED <<row, aired, verdict, received>>
      BY <1>13 DEF Accept, SendEnds, ExpireActive, ExpireIncoming, PollActive, PollIncoming, fwdVars
    <2> QED
      BY <1>f, <2>1
  <1>14. \A p \in Programs : CheckMessages(p) \/ CheckActivations(p)
           => [Delivery!DeliveryNext]_outcomeVars
    BY <1>2 DEF CheckMessages, CheckActivations
  <1> QED
    BY <1>1, <1>3, <1>4, <1>5, <1>6, <1>7, <1>8, <1>9, <1>11, <1>12, <1>13, <1>14 DEF FwdNext

(* Whatever fails, dies and interleaves, every alert is settled once; it   *)
(* is put on record only while it is open, and heard only from the record: *)
(* never when it was refused, a duplicate or failed before its record. One *)
(* that failed after its record was heard, and only one whose broadcast    *)
(* was completed is linked                                                 *)
(* (auto_forward.py:340, eas.py:2663, eas.py:2773, eas_monitor.py:462).    *)
THEOREM ForwardingDelivers == FwdSpec => ImplementsDelivery
  <1>1. FwdInit => Delivery!DeliveryInit
    BY DEF FwdInit, Delivery!DeliveryInit, Delivery!Open
  <1>2. FwdInv /\ [FwdNext]_fwdVars
          => [Delivery!DeliveryNext]_<<{x \in Items : row[x] # "none"}, aired, verdict,
                                       {a \in Alerts : received[a] = "linked"}>>
    BY DeliveryStep DEF outcomeVars, OnRecord, Linked
  <1> QED
    BY <1>1, <1>2, FwdInvariant, PTL
       DEF FwdSpec, ImplementsDelivery, Delivery!DeliverySpec, Delivery!deliveryVars

=============================================================================
