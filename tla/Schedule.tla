------------------------------ MODULE Schedule ------------------------------
(***************************************************************************)
(* The availability schedule (scheduling.rs) and the loop of cmd_serve     *)
(* that follows it (main.rs): sleep until a window opens, serve until it   *)
(* closes, unload the engines.                                             *)
(*                                                                         *)
(* The unit of time is the second (in the code DayLen is 86400 of them);   *)
(* windows begin and end on one, and the durations count them whole.  A    *)
(* sleep that begins within a second ends within one: its timer runs       *)
(* behind the clock by the part that time_to_secs cuts off.  Every call    *)
(* reads the clock anew, and the clock may move up to Lag between two      *)
(* reads.  A window that does not parse is one with no day or with a time  *)
(* outside the day.                                                        *)
(***************************************************************************)
EXTENDS Integers, Sequences

CONSTANTS
    Schedules,  \* the configurations: sequences of windows
    DayLen,     \* the length of a day
    HourLen,    \* the length of an hour
    Lag         \* the most that passes between two reads of the clock

Weekdays == 0..6
ScheduleWindow == [days : SUBSET Weekdays, start : Nat, end : Nat]

ASSUME ScheduleAssumption ==
    /\ Schedules \subseteq Seq(ScheduleWindow)
    /\ DayLen \in Nat \ {0} /\ HourLen \in 1..DayLen /\ Lag \in Nat

VARIABLES
    config,     \* the schedule of the configuration file
    day, time,  \* the local time
    phase,      \* where the loop of cmd_serve is
    left,       \* how long the sleep it waits for still lasts
    ahead,      \* the second has turned on the clock, not yet on the timer
    slip        \* what went by the schedule in this pass of the loop: "none",
                \* "hour" (no start was found), or "crossed" (a window opened
                \* or closed between two reads)

schedVars == <<config, day, time, phase, left, ahead, slip>>

prev_weekday(d) == (d + 6) % 7
weekday_plus(d, n) == (d + n) % 7

(* from_config keeps the windows that parse.                               *)
ParsedWindows ==
    {i \in DOMAIN config : /\ config[i].days # {}
                           /\ config[i].start < DayLen /\ config[i].end < DayLen}

Overnight(w) == w.end <= w.start

(* The two arms of an overnight window, and the arm of a same-day one.     *)
ActiveTillTomorrow(w) == Overnight(w) /\ day \in w.days /\ time >= w.start

ActiveTillToday(w) ==
    \/ Overnight(w) /\ prev_weekday(day) \in w.days /\ time < w.end
    \/ ~Overnight(w) /\ day \in w.days /\ time >= w.start /\ time < w.end

Active(w) == ActiveTillTomorrow(w) \/ ActiveTillToday(w)

is_active_now == \E i \in ParsedWindows : Active(config[i])

WindowEnds(w) ==
    IF ActiveTillTomorrow(w) THEN (DayLen - time) + w.end ELSE w.end - time

(* duration_until_inactive: until the end of the FIRST window that is      *)
(* open.                                                                   *)
duration_until_inactive ==
    LET open == {i \in ParsedWindows : Active(config[i])}
    IN  WindowEnds(config[CHOOSE i \in open : \A j \in open : i <= j])

(* A plausible bug: a day too many is counted.                             *)
WaitADayMore(w, n) ==
    IF n = 0 THEN w.start - time ELSE (DayLen - time) + n * DayLen + w.start

Wait(w, n) ==
    IF n = 0 THEN w.start - time ELSE (DayLen - time) + (n - 1) * DayLen + w.start

(* The starts duration_until_next_active finds, window by window: later     *)
(* today, or on one of the next six days.                                  *)
Waits ==
    {Wait(config[p[1]], p[2]) :
        p \in {q \in ParsedWindows \X (0..6) :
                  /\ weekday_plus(day, q[2]) \in config[q[1]].days
                  /\ q[2] = 0 => time < config[q[1]].start}}

(* The shortest wait, an hour if there is none.                            *)
NextStart ==
    IF Waits = {} THEN HourLen ELSE CHOOSE m \in Waits : \A k \in Waits : m <= k

-----------------------------------------------------------------------------

(* Without a window that parses there is no schedule, and cmd_serve only   *)
(* waits for Ctrl+C.                                                       *)
SchedInit ==
    /\ config \in Schedules /\ day \in Weekdays /\ time \in 0..DayLen-1 /\ left = 0
    /\ phase = IF ParsedWindows = {} THEN "always" ELSE "check"
    /\ ahead = FALSE /\ slip = "none"

(* The loop goes on to another read of the clock, or to a sleep.           *)
Enter(p, n) == phase' = p /\ left' = n /\ ahead' = FALSE /\ UNCHANGED <<config, day, time>>

(* The top of the loop.                                                    *)
CheckSchedule ==
    /\ phase = "check" /\ UNCHANGED slip
    /\ Enter(IF is_active_now THEN "remaining" ELSE "again", Lag)

(* duration_until_next_active first asks once more.                        *)
CheckAgain ==
    /\ phase = "again" /\ UNCHANGED slip
    /\ IF is_active_now THEN Enter("sleep", 0) ELSE Enter("next", Lag)

duration_until_next_active ==
    /\ phase = "next" /\ Enter("sleep", NextStart)
    /\ slip' = IF Waits = {} /\ slip = "none" THEN "hour" ELSE slip

(* The sleep is over; the loop serves.                                     *)
WakeUp == phase = "sleep" /\ left = 0 /\ Enter("remaining", Lag) /\ UNCHANGED slip

(* For the rest of the window or, when none is open, for a day.            *)
Serve ==
    /\ phase = "remaining" /\ UNCHANGED slip
    /\ IF is_active_now THEN Enter("serve", duration_until_inactive)
                        ELSE Enter("serve_a_day", DayLen)

(* The window is over: the engines are unloaded and the loop starts again. *)
CloseWindow ==
    /\ phase \in {"serve", "serve_a_day"} /\ left = 0
    /\ Enter("check", Lag) /\ slip' = "none"

(* Ctrl+C leaves either sleep, or the wait without a schedule.             *)
CtrlC ==
    /\ phase \in {"sleep", "serve", "serve_a_day", "always"}
    /\ Enter("stopped", 0) /\ UNCHANGED slip

(* The next second of the day.                                             *)
Turn ==
    IF time = DayLen - 1
    THEN day' = weekday_plus(day, 1) /\ time' = 0
    ELSE day' = day /\ time' = time + 1

(* Time passes between two reads,                                          *)
ClockMoves ==
    /\ phase \in {"check", "again", "next", "remaining"} /\ left > 0
    /\ Turn /\ left' = left - 1 /\ UNCHANGED <<config, phase, ahead>>
    /\ slip' = IF phase = "check" \/ is_active_now' = is_active_now THEN slip ELSE "crossed"

(* and in a sleep, first on the clock and then on the timer.               *)
ClockTicks ==
    /\ phase \in {"sleep", "serve", "serve_a_day"} /\ left > 0 /\ ~ahead
    /\ Turn /\ ahead' = TRUE /\ UNCHANGED <<config, phase, left, slip>>

TimerRuns ==
    /\ ahead /\ ahead' = FALSE /\ left' = left - 1
    /\ UNCHANGED <<config, day, time, phase, slip>>

LoopSteps ==
    CheckSchedule \/ CheckAgain \/ duration_until_next_active \/ WakeUp \/ Serve \/ CloseWindow

SchedNext == LoopSteps \/ CtrlC \/ ClockMoves \/ ClockTicks \/ TimerRuns

(* The loop runs on, and the timers fire.                                  *)
SchedFairness == WF_schedVars(LoopSteps) /\ WF_schedVars(ClockTicks \/ TimerRuns)

SchedSpec == SchedInit /\ [][SchedNext]_schedVars /\ SchedFairness

-----------------------------------------------------------------------------

SchedTypeOK ==
    /\ config \in Schedules /\ day \in Weekdays /\ time \in 0..DayLen-1 /\ left \in Nat
    /\ phase \in {"check", "again", "next", "remaining", "sleep", "serve", "serve_a_day",
                  "always", "stopped"}
    /\ ahead \in BOOLEAN /\ slip \in {"none", "hour", "crossed"}

(* When a window is open, from its definition alone: it opens on each of   *)
(* its days and lasts until its end, the next day if need be.              *)
Length(w) == IF w.end > w.start THEN w.end - w.start ELSE w.end - w.start + DayLen

Since(w, d) == ((day - d + 7) % 7) * DayLen + time - w.start

OpenNow(w) == \E d \in w.days : Since(w, d) \in 0..Length(w)-1

Open == \E i \in ParsedWindows : OpenNow(config[i])

(* is_active_now is true exactly while some window is open, also for the   *)
(* overnight windows and across the end of the week.                       *)
ActiveIsRight == is_active_now <=> Open

(* What the clock still has to go before the sleep ends; the sleep may     *)
(* last a part of a second more.                                           *)
Rest == IF ahead THEN left - 1 ELSE left

(* The sleep of duration_until_next_active does not run into a window by   *)
(* more than a part of a second, unless one opened between two reads.      *)
NeverOversleeps == (phase = "sleep" /\ Rest > 0 /\ slip # "crossed") => ~Open

(* A window that the loop serves is open until the sleep of                *)
(* duration_until_inactive is over, but for a part of a second.            *)
ServesTheWindow == (phase = "serve" /\ Rest > 0) => Open

(* The sleep ends when a window has opened: the loop serves blindly, for a *)
(* day, only after the hour it waits when it finds no start in the next    *)
(* six days, or when a window opened or closed between two reads.          *)
WakesForAWindow == phase = "serve_a_day" => slip # "none"

(* The loop of cmd_serve follows the windows to the second, with the two   *)
(* exceptions named: a boundary that falls between two reads of the clock, *)
(* and the hour without a start.                                           *)
ScheduleIsKept == ActiveIsRight /\ NeverOversleeps /\ ServesTheWindow /\ WakesForAWindow

(* The loop reaches a window: it does not sleep through the week for ever. *)
EveryWindowServed == (phase = "sleep") ~> (phase \in {"serve", "stopped"})
=============================================================================
