---------------------------- MODULE RwtScheduler ----------------------------
(***************************************************************************)
(* Required weekly tests (app_core/rwt_scheduler.py). Every worker of the  *)
(* web server runs a scheduler: once a minute it reads the one row of the  *)
(* schedule and, in the window of a scheduled day on which no test has     *)
(* succeeded, makes a test and writes its day and status back to the row.  *)
(* The operator can ask for a test at any time                             *)
(* (webapp/routes_rwt_schedule.py) and change the schedule.                *)
(***************************************************************************)
EXTENDS Naturals, FiniteSets

CONSTANTS
    Schedulers,     \* one for each worker of the web server
    Operators,      \* requests for a test
    MaxDay,         \* bound: the last day
    MaxRwtEvents    \* bound: failures and changes of the schedule

ASSUME RwtAssumption ==
    /\ MaxDay \in Nat /\ MaxRwtEvents \in Nat
    /\ Schedulers \cap Operators = {}

Threads == Schedulers \cup Operators
Days == 0 .. MaxDay
NoRun == [day |-> MaxDay + 1, status |-> "none"]

VARIABLES
    day,         \* today
    inWindow,    \* is it the time of day to send?
    scheduled,   \* the configured days, none when the schedule is disabled
    lastRun,     \* last_run_at and last_run_status
    thread,      \* where each thread is: idle, checked, or making a test
    loaded,      \* last_run_status in the row that the thread has loaded
    testDay,     \* the day that a test under way was made on
    tests,       \* history: days for which a scheduler recorded a success
    repeated,    \* history: days for which one recorded a second one
    overlapped,  \* history: see Overlap
    rwtEvents

rwtVars == <<day, inWindow, scheduled, lastRun, thread, loaded, testDay, tests, repeated,
             overlapped, rwtEvents>>

RwtTypeOK ==
    /\ day \in Days /\ inWindow \in BOOLEAN /\ scheduled \subseteq Days
    /\ lastRun \in [day : Days, status : {"success", "failed"}] \cup {NoRun}
    /\ thread \in [Threads -> {"idle", "checked", "making"}]
    /\ loaded \in [Threads -> {"none", "success", "failed"}]
    /\ testDay \in [Threads -> Days]
    /\ tests \subseteq Days /\ repeated \subseteq Days /\ overlapped \subseteq Days
    /\ rwtEvents \in 0 .. MaxRwtEvents

RwtInit ==
    /\ day = 0 /\ inWindow = FALSE
    /\ scheduled = Days
    /\ lastRun = NoRun
    /\ thread = [t \in Threads |-> "idle"]
    /\ loaded = [t \in Threads |-> "none"] /\ testDay = [t \in Threads |-> 0]
    /\ tests = {} /\ repeated = {} /\ overlapped = {}
    /\ rwtEvents = 0

RwtEvent == rwtEvents < MaxRwtEvents /\ rwtEvents' = rwtEvents + 1
rwtHistory == <<tests, repeated, overlapped>>

-----------------------------------------------------------------------------
(* _check_and_send_rwt: the conditions, as they are read.                  *)
SentToday_Fault == lastRun.day = day /\ lastRun.status = "failed"
SentToday == lastRun.day = day /\ lastRun.status = "success"

Load(t) ==
    /\ thread[t] = "idle"
    /\ thread' = [thread EXCEPT ![t] = "checked"]
    /\ loaded' = [loaded EXCEPT ![t] = lastRun.status]
    /\ UNCHANGED <<day, inWindow, scheduled, lastRun, testDay, rwtHistory>>

Check(s) ==
    /\ Load(s)
    /\ day \in scheduled /\ inWindow /\ ~SentToday
    /\ UNCHANGED rwtEvents

(* The operator's request goes straight to trigger_rwt_broadcast.          *)
Ask(o) == Load(o) /\ RwtEvent

(* trigger_rwt_broadcast takes the time again.                             *)
Make(t) ==
    /\ thread[t] = "checked"
    /\ thread' = [thread EXCEPT ![t] = "making"]
    /\ testDay' = [testDay EXCEPT ![t] = day]
    /\ UNCHANGED <<day, inWindow, scheduled, lastRun, loaded, rwtHistory, rwtEvents>>

(* The day is written, and the status unless the row had it already when   *)
(* it was loaded: then the one that another thread wrote since stays.      *)
Written(t, d, status) ==
    [day |-> d, status |-> IF loaded[t] = status /\ lastRun # NoRun THEN lastRun.status ELSE status]

(* Days that may see another test: a second scheduler has made up its mind *)
(* before this success can be seen, a failure written meanwhile hides it,  *)
(* or the record is of a day that is over and replaces the one of today.   *)
Overlap(t) ==
    {d \in Days : \/ /\ d = testDay[t]
                    /\ \/ \E s \in Schedulers \ {t} : thread[s] # "idle"
                       \/ Written(t, d, "success").status = "failed"
                  \/ d = lastRun.day /\ d > testDay[t]}

RecordTest(t) ==
    /\ thread[t] = "making"
    /\ thread' = [thread EXCEPT ![t] = "idle"]
    /\ lastRun' = Written(t, testDay[t], "success")
    /\ overlapped' = overlapped \cup Overlap(t)
    /\ IF t \in Schedulers
         THEN /\ tests' = tests \cup {testDay[t]}
              /\ repeated' = repeated \cup (tests \cap {testDay[t]})
         ELSE UNCHANGED <<tests, repeated>>
    /\ UNCHANGED <<day, inWindow, scheduled, loaded, testDay, rwtEvents>>

(* A failure is recorded in the same way, or not at all.                   *)
Fail(t) ==
    /\ thread[t] \in {"checked", "making"}
    /\ RwtEvent
    /\ thread' = [thread EXCEPT ![t] = "idle"]
    /\ \/ /\ lastRun' = Written(t, day, "failed")
          /\ overlapped' = overlapped \cup
               (IF lastRun'.status = "failed" THEN {day} \cap tests ELSE {})
       \/ UNCHANGED <<lastRun, overlapped>>
    /\ UNCHANGED <<day, inWindow, scheduled, loaded, testDay, tests, repeated>>

-----------------------------------------------------------------------------
(* The web page replaces the schedule and leaves the last run.             *)
Save(days) ==
    /\ RwtEvent
    /\ scheduled' = days
    /\ UNCHANGED <<day, inWindow, lastRun, thread, loaded, testDay, rwtHistory>>

TimePasses ==
    /\ \/ inWindow' = ~inWindow /\ UNCHANGED day
       \/ day < MaxDay /\ day' = day + 1 /\ inWindow' \in BOOLEAN
    /\ UNCHANGED <<scheduled, lastRun, thread, loaded, testDay, rwtHistory, rwtEvents>>

RwtNext ==
    \/ \E s \in Schedulers : Check(s)
    \/ \E o \in Operators : Ask(o)
    \/ \E t \in Threads : Make(t) \/ RecordTest(t) \/ Fail(t)
    \/ \E days \in SUBSET Days : Save(days)
    \/ TimePasses

RwtSpec == RwtInit /\ [][RwtNext]_rwtVars

-----------------------------------------------------------------------------
(* The schedulers record a second test for a day only if two of them were  *)
(* at it at the same time, or a failure, whoever asked for the test, was   *)
(* written over the success or kept in its place (rwt_scheduler.py:300,    *)
(* :176, :202): not because the window is left and entered, the schedule   *)
(* changes or midnight passes.                                             *)
RepeatOnlyIfOverlapped == repeated \subseteq overlapped

=============================================================================
