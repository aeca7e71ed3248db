----------------------------- MODULE SDRReceiver -----------------------------
(***************************************************************************)
(* One receiver of the SDR service: start and stop, called by the thread   *)
(* that works off the commands (sdr_hardware_service.py), the capture loop *)
(* of each start, and the device, which only one handle may have open      *)
(* (app_core/radio/drivers.py). Opening takes up to ten seconds, a pause   *)
(* between two attempts up to a minute, and stop waits for the loop for    *)
(* two seconds only: a loop may outlive its stop, and find the receiver    *)
(* running again.                                                          *)
(***************************************************************************)
EXTENDS Naturals, FiniteSets

CONSTANTS
    Loops,         \* capture threads
    MaxSdrEvents   \* bound: commands, and losses of the device

ASSUME SdrAssumption == IsFiniteSet(Loops) /\ MaxSdrEvents \in Nat

Handles == 1 .. Cardinality(Loops) + 2
None == 0

VARIABLES
    enabled,    \* _running
    handle,     \* _handle
    caller,     \* where the command thread is in start or stop, and the handle
                \* it has just opened
    latest,     \* _thread, the loop that stop waits for
    loops,      \* where each loop is, and its handle
    closed,     \* handles that were torn down
    attached,   \* does the device work
    givenUp,    \* history: how often stop gave up waiting for the loop
    sdrEvents   \* how many so far

sdrVars == <<enabled, handle, caller, latest, loops, closed, attached, givenUp, sdrEvents>>

SdrTypeOK ==
    /\ enabled \in BOOLEAN
    /\ handle \in Handles \cup {None}
    /\ caller \in [at : {"idle", "opening", "opened", "assigned", "armed",
                          "joining", "tearing"},
                    handle : Handles \cup {None}]
    /\ latest \in Loops \cup {None}
    /\ loops \in [Loops -> [at : {"ended", "begun", "testing", "opening", "opened", "reading"},
                            handle : Handles \cup {None}]]
    /\ closed \subseteq Handles
    /\ attached \in BOOLEAN
    /\ givenUp \in Nat
    /\ sdrEvents \in 0 .. MaxSdrEvents

SdrInit ==
    /\ enabled = FALSE
    /\ handle = None
    /\ caller = [at |-> "idle", handle |-> None]
    /\ latest = None
    /\ loops = [l \in Loops |-> [at |-> "ended", handle |-> None]]
    /\ closed = {}
    /\ attached = TRUE
    /\ givenUp = 0
    /\ sdrEvents = 0

SdrHappens == sdrEvents < MaxSdrEvents /\ sdrEvents' = sdrEvents + 1
Alive(l) == loops[l].at # "ended"

(* A handle that nobody refers to any more is destroyed, and its device is *)
(* closed with it.                                                         *)
Referred == ({handle, caller.handle} \cup {loops[l].handle : l \in Loops}) \ {None}
OpenHandles == Referred \ closed
CanOpen == attached /\ OpenHandles = {}
NewHandle == CHOOSE h \in Handles \ Referred : TRUE

CallerTo(place, h) == caller' = [at |-> place, handle |-> h]
LoopTo(l, place, h) == loops' = [loops EXCEPT ![l] = [at |-> place, handle |-> h]]

-----------------------------------------------------------------------------
(* start: three attempts to open, then the loop goes on trying.            *)

Start ==
    /\ caller.at = "idle" /\ ~enabled
    /\ SdrHappens
    /\ CallerTo("opening", None)
    /\ UNCHANGED <<enabled, handle, latest, loops, closed, attached, givenUp>>

StartOpens ==
    /\ caller.at = "opening" /\ CanOpen
    /\ CallerTo("opened", NewHandle)
    /\ closed' = closed \ {NewHandle}
    /\ UNCHANGED <<enabled, handle, latest, loops, attached, givenUp, sdrEvents>>

StartGivesUp ==
    /\ caller.at = "opening" /\ ~CanOpen
    /\ CallerTo("opened", None)
    /\ UNCHANGED <<enabled, handle, latest, loops, closed, attached, givenUp, sdrEvents>>

Assign ==
    /\ caller.at = "opened"
    /\ handle' = caller.handle
    /\ CallerTo("assigned", None)
    /\ UNCHANGED <<enabled, latest, loops, closed, attached, givenUp, sdrEvents>>

Arm ==
    /\ caller.at = "assigned"
    /\ enabled' = TRUE
    /\ CallerTo("armed", None)
    /\ UNCHANGED <<handle, latest, loops, closed, attached, givenUp, sdrEvents>>

Spawn ==
    /\ caller.at = "armed"
    /\ \E l \in Loops : /\ ~Alive(l)
                        /\ latest' = l
                        /\ LoopTo(l, "begun", None)
    /\ CallerTo("idle", None)
    /\ UNCHANGED <<enabled, handle, closed, attached, givenUp, sdrEvents>>

(* stop.                                                                   *)

Stop ==
    /\ caller.at = "idle" /\ enabled
    /\ SdrHappens
    /\ enabled' = FALSE
    /\ CallerTo("joining", None)
    /\ UNCHANGED <<handle, latest, loops, closed, attached, givenUp>>

Join ==
    /\ caller.at = "joining" /\ ~Alive(latest)
    /\ CallerTo("tearing", None)
    /\ UNCHANGED <<enabled, handle, latest, loops, closed, attached, givenUp, sdrEvents>>

JoinTimesOut ==
    /\ caller.at = "joining" /\ Alive(latest)
    /\ CallerTo("tearing", None)
    /\ givenUp' = givenUp + 1
    /\ UNCHANGED <<enabled, handle, latest, loops, closed, attached, sdrEvents>>

TearDown_Fault ==
    /\ caller.at = "tearing"
    /\ CallerTo("idle", None)
    /\ UNCHANGED <<enabled, handle, latest, loops, closed, attached, givenUp, sdrEvents>>

TearDown ==
    /\ caller.at = "tearing"
    /\ closed' = closed \cup ({handle} \ {None})
    /\ handle' = None
    /\ CallerTo("idle", None)
    /\ UNCHANGED <<enabled, latest, loops, attached, givenUp, sdrEvents>>

-----------------------------------------------------------------------------
(* The capture loop.                                                       *)

Begun(l) ==
    /\ loops[l].at = "begun"
    /\ LoopTo(l, "testing", handle)
    /\ UNCHANGED <<enabled, handle, caller, latest, closed, attached, givenUp, sdrEvents>>

Test(l) ==
    /\ loops[l].at = "testing"
    /\ IF ~enabled THEN LoopTo(l, "ended", None)
       ELSE LoopTo(l, IF loops[l].handle = None THEN "opening" ELSE "reading",
                   loops[l].handle)
    /\ UNCHANGED <<enabled, handle, caller, latest, closed, attached, givenUp, sdrEvents>>

LoopOpens(l) ==
    /\ loops[l].at = "opening"
    /\ IF CanOpen
         THEN LoopTo(l, "opened", NewHandle) /\ closed' = closed \ {NewHandle}
         ELSE LoopTo(l, "testing", None) /\ UNCHANGED closed
    /\ UNCHANGED <<enabled, handle, caller, latest, attached, givenUp, sdrEvents>>

Adopt(l) ==
    /\ loops[l].at = "opened"
    /\ handle' = loops[l].handle
    /\ LoopTo(l, "testing", loops[l].handle)
    /\ UNCHANGED <<enabled, caller, latest, closed, attached, givenUp, sdrEvents>>

(* A read that fails tears down the loop's own handle.                     *)
CanRead(l) == attached /\ loops[l].handle \notin closed

ReadStream_Fault(l) ==
    /\ loops[l].at = "reading"
    /\ LoopTo(l, "testing", IF CanRead(l) THEN loops[l].handle ELSE None)
    /\ UNCHANGED <<enabled, handle, caller, latest, closed, attached, givenUp, sdrEvents>>

ReadStream(l) ==
    /\ loops[l].at = "reading"
    /\ IF CanRead(l)
         THEN LoopTo(l, "testing", loops[l].handle) /\ UNCHANGED <<handle, closed>>
         ELSE /\ closed' = closed \cup {loops[l].handle}
              /\ handle' = IF handle = loops[l].handle THEN None ELSE handle
              /\ LoopTo(l, "testing", None)
    /\ UNCHANGED <<enabled, caller, latest, attached, givenUp, sdrEvents>>

(* The device is unplugged, or fails once, or comes back.                  *)
Detach ==
    /\ attached /\ SdrHappens
    /\ attached' = FALSE
    /\ UNCHANGED <<enabled, handle, caller, latest, loops, closed, givenUp>>

Attach ==
    /\ ~attached
    /\ attached' = TRUE
    /\ UNCHANGED <<enabled, handle, caller, latest, loops, closed, givenUp, sdrEvents>>

-----------------------------------------------------------------------------
CallerStep == StartOpens \/ StartGivesUp \/ Assign \/ Arm \/ Spawn \/ Join \/ JoinTimesOut \/ TearDown
LoopStep(l) == Begun(l) \/ Test(l) \/ LoopOpens(l) \/ Adopt(l) \/ ReadStream(l)

SdrNext ==
    \/ Start \/ Stop \/ CallerStep \/ Detach \/ Attach
    \/ \E l \in Loops : LoopStep(l)

(* The command thread and the capture loops go on.                         *)
SdrFairness == WF_sdrVars(CallerStep) /\ \A l \in Loops : WF_sdrVars(LoopStep(l))

SdrSpec == SdrInit /\ [][SdrNext]_sdrVars /\ SdrFairness

-----------------------------------------------------------------------------
Streams == \E l \in Loops : /\ loops[l].at \in {"testing", "reading"}
                            /\ loops[l].handle \in OpenHandles

(* A receiver that runs and whose device works streams in the end, however *)
(* its starts and stops met with loops that outlived theirs and with       *)
(* handles that these opened after the teardown (drivers.py:446,           *)
(* drivers.py:1190).                                                       *)
StreamsInTheEnd == (enabled /\ attached) ~> (Streams \/ ~enabled \/ ~attached)

(* There is never more than one loop beside those that a stop gave up      *)
(* waiting for, and if it never did, a stopped receiver has its device     *)
(* closed and its loop ended (drivers.py:487, drivers.py:489).             *)
LoopsAccountedFor ==
    /\ Cardinality({l \in Loops : Alive(l)}) <= 1 + givenUp
    /\ givenUp = 0 /\ ~enabled /\ caller.at = "idle" =>
         OpenHandles = {} /\ \A l \in Loops : ~Alive(l)

=============================================================================
