---------------------------- MODULE LocalProofs -----------------------------
(***************************************************************************)
(* What the provider's machine does without the coordinator, for any       *)
(* schedule and any number of hosts and accounts: the schedule, setup and  *)
(* the link to an account.                                                 *)
(***************************************************************************)
EXTENDS Schedule, Setup, DeviceLink, TLAPS, WellFoundedInduction

-----------------------------------------------------------------------------
(* The schedule.  While the loop sleeps, what is inductive is that every   *)
(* window is at least as far away as the sleep is long (SleepsShort), and  *)
(* one of them no farther (SleepsToAStart); while it serves, that some     *)
(* window is open and closes exactly when the timer fires                  *)
(* (ServesToTheEnd); and between two reads, that the clock is where the    *)
(* first of them found it (ReadsAgree).                                    *)

(* How long it is until a window next opens on day d.                      *)
Until(w, d) ==
    IF d = day /\ time >= w.start THEN 7 * DayLen + w.start - time
                                  ELSE ((d - day + 7) % 7) * DayLen + w.start - time

Far(n) ==
    \A i \in ParsedWindows : /\ ~OpenNow(config[i])
                             /\ \A d \in config[i].days : Until(config[i], d) >= n

Opens(n) == \E i \in ParsedWindows : \E d \in config[i].days : Until(config[i], d) = n

Closes(n) ==
    \E i \in ParsedWindows : \E d \in config[i].days :
        Since(config[i], d) >= 0 /\ Since(config[i], d) + n = Length(config[i])

SleepsShort == (phase = "sleep" /\ Rest > 0 /\ slip # "crossed") => Far(Rest)

SleepsToAStart ==
    (phase = "sleep" /\ slip = "none") => IF Rest = 0 THEN is_active_now ELSE Opens(Rest)

ServesToTheEnd == phase = "serve" => Closes(Rest)

ReadsAgree ==
    /\ phase \in {"again", "next"} /\ slip # "crossed" => ~is_active_now
    /\ phase = "remaining" /\ slip = "none" => is_active_now
    /\ phase = "serve_a_day" => slip # "none"

SchedInv ==
    /\ SchedTypeOK /\ (ahead => left > 0 /\ phase \in {"sleep", "serve", "serve_a_day"})
    /\ SleepsShort /\ SleepsToAStart /\ ServesToTheEnd /\ ReadsAgree

-----------------------------------------------------------------------------
(* A window that parses, and a moment of the week.                         *)
Proper(w) == w.days \subseteq Weekdays /\ w.start \in 0..DayLen-1 /\ w.end \in 0..DayLen-1
Moment == day \in Weekdays /\ time \in 0..DayLen-1

(* from_config keeps windows whose times lie within the day.               *)
LEMMA ParsedIsProper ==
    ASSUME config \in Schedules, NEW i \in ParsedWindows
    PROVE  i \in Nat /\ Proper(config[i])
<1>1. config \in Seq(ScheduleWindow)
  BY ScheduleAssumption, Zenon
<1>2. i \in DOMAIN config /\ config[i].start < DayLen /\ config[i].end < DayLen
  BY Zenon DEF ParsedWindows
<1>3. i \in Nat /\ config[i] \in ScheduleWindow
  BY <1>1, <1>2
<1> QED
  BY <1>2, <1>3, ScheduleAssumption DEF Proper, ScheduleWindow

(* Multiples of the length of a day, as far as the arithmetic below needs  *)
(* them.                                                                   *)
LEMMA Multiples ==
    ASSUME NEW n \in 0..6
    PROVE  /\ n * DayLen \in Nat
           /\ n = 0 => n * DayLen = 0
           /\ n = 1 => n * DayLen = DayLen
           /\ n >= 1 => n * DayLen >= DayLen
           /\ n >= 2 => n * DayLen >= 2 * DayLen
           /\ n * DayLen <= 6 * DayLen
           /\ (n - 1) * DayLen = n * DayLen - DayLen
           /\ (n + 1) * DayLen = n * DayLen + DayLen
<1> DayLen \in Nat
  BY ScheduleAssumption, Zenon
<1>1. n = 0 \/ n = 1 \/ n = 2 \/ n = 3 \/ n = 4 \/ n = 5 \/ n = 6
  OBVIOUS
<1> QED
  BY <1>1

(* Days apart, modulo the week.                                            *)
LEMMA DaysApart ==
    ASSUME NEW a \in Weekdays, NEW b \in Weekdays
    PROVE  /\ (a - b + 7) % 7 \in 0..6
           /\ (a - b + 7) % 7 = 0 <=> a = b
           /\ (a - b + 7) % 7 = 1 <=> b = prev_weekday(a)
           /\ weekday_plus(b, (a - b + 7) % 7) = a
           /\ prev_weekday(a) \in Weekdays
BY DEF Weekdays, prev_weekday, weekday_plus

LEMMA DaysOn ==
    ASSUME NEW a \in Weekdays, NEW n \in 0..6
    PROVE  weekday_plus(a, n) \in Weekdays /\ (weekday_plus(a, n) - a + 7) % 7 = n
BY DEF Weekdays, weekday_plus

(* A window is open on day d or on the morning after it, never later.      *)
LEMMA OpenOnTwoDays ==
    ASSUME NEW w, Proper(w), Moment, NEW d \in w.days
    PROVE  /\ Since(w, d) \in Int /\ Length(w) \in 1..DayLen
           /\ d = day => Since(w, d) = time - w.start
           /\ d = prev_weekday(day) => Since(w, d) = DayLen + time - w.start
           /\ (d # day /\ d # prev_weekday(day)) => Since(w, d) > Length(w)
<1>0. DayLen \in Nat \ {0} /\ d \in Weekdays /\ w.start \in Nat /\ w.end \in Nat /\ time \in Nat
      /\ w.start < DayLen /\ w.end < DayLen /\ time < DayLen /\ day \in Weekdays
  BY ScheduleAssumption DEF Proper, Moment
<1>1. PICK n \in 0..6 : /\ n = (day - d + 7) % 7
                        /\ n = 0 <=> day = d
                        /\ n = 1 <=> d = prev_weekday(day)
  BY <1>0, DaysApart, Zenon
<1>2. PICK m \in Nat : /\ m = n * DayLen
                       /\ n = 0 => m = 0
                       /\ n = 1 => m = DayLen
                       /\ n >= 2 => m >= 2 * DayLen
  BY Multiples, Zenon
<1>3. Since(w, d) = m + time - w.start
  BY <1>1, <1>2, Zenon DEF Since
<1>4. Length(w) \in 1..DayLen
  BY <1>0 DEF Length
<1> QED
  BY <1>0, <1>1, <1>2, <1>3, <1>4

(* The arms of is_active_now say when a window is open.                    *)
LEMMA ActiveIsOpen ==
    ASSUME NEW w, Proper(w), Moment
    PROVE  Active(w) <=> OpenNow(w)
<1>0. DayLen \in Nat \ {0} /\ w.start \in Nat /\ w.end \in Nat /\ time \in Nat
      /\ w.start < DayLen /\ w.end < DayLen /\ time < DayLen
  BY ScheduleAssumption DEF Proper, Moment
<1>1. ASSUME Active(w) PROVE OpenNow(w)
  <2>1. CASE Overnight(w) /\ day \in w.days /\ time >= w.start
    <3>1. Since(w, day) \in 0..Length(w)-1
      BY <1>0, <2>1, OpenOnTwoDays DEF Overnight, Length
    <3> QED
      BY <2>1, <3>1, Zenon DEF OpenNow
  <2>2. CASE Overnight(w) /\ prev_weekday(day) \in w.days /\ time < w.end
    <3>1. Since(w, prev_weekday(day)) \in 0..Length(w)-1
      BY <1>0, <2>2, OpenOnTwoDays DEF Overnight, Length
    <3> QED
      BY <2>2, <3>1, Zenon DEF OpenNow
  <2>3. CASE ~Overnight(w) /\ day \in w.days /\ time >= w.start /\ time < w.end
    <3>1. Since(w, day) \in 0..Length(w)-1
      BY <1>0, <2>3, OpenOnTwoDays DEF Overnight, Length
    <3> QED
      BY <2>3, <3>1, Zenon DEF OpenNow
  <2> QED
    BY <1>1, <2>1, <2>2, <2>3, Zenon DEF Active, ActiveTillTomorrow, ActiveTillToday
<1>2. ASSUME OpenNow(w) PROVE Active(w)
  <2>1. PICK d \in w.days : Since(w, d) \in 0..Length(w)-1
    BY <1>2, Zenon DEF OpenNow
  <2>2. d = day \/ d = prev_weekday(day)
    BY <2>1, OpenOnTwoDays
  <2>3. CASE d = day
    <3>1. time >= w.start /\ time - w.start < Length(w)
      BY <1>0, <2>1, <2>3, OpenOnTwoDays
    <3> QED
      BY <1>0, <2>3, <3>1 DEF Length, Active, ActiveTillTomorrow, ActiveTillToday, Overnight
  <2>4. CASE d = prev_weekday(day)
    <3>1. DayLen + time - w.start < Length(w)
      BY <1>0, <2>1, <2>4, OpenOnTwoDays
    <3> QED
      BY <1>0, <2>4, <3>1 DEF Length, Active, ActiveTillTomorrow, ActiveTillToday, Overnight
  <2> QED
    BY <2>2, <2>3, <2>4, Zenon
<1> QED
  BY <1>1, <1>2, Zenon
-----------------------------------------------------------------------------
(* What a tick of the clock does to the two distances.                     *)
LEMMA TickMoves ==
    ASSUME NEW w, Proper(w), Moment, Moment', NEW d \in w.days,
           Turn
    PROVE  /\ Since(w, d) \in 0..Length(w)-1 => Since(w, d)' = Since(w, d) + 1
           /\ Until(w, d) >= 2 => Until(w, d)' = Until(w, d) - 1
           /\ Until(w, d) = 1 => Since(w, d)' = 0
           /\ Since(w, d)' \in 0..Length(w)-1 =>
                 Since(w, d) \in 0..Length(w)-1 \/ Until(w, d) = 1
<1>0. DayLen \in Nat \ {0} /\ d \in Weekdays /\ w.start \in Nat /\ w.end \in Nat /\ time \in Nat
      /\ w.start < DayLen /\ w.end < DayLen /\ time < DayLen /\ day \in Weekdays
      /\ day' \in Weekdays /\ time' \in Nat
  BY ScheduleAssumption DEF Proper, Moment
<1>1. PICK len \in 1..DayLen : len = Length(w)
  BY OpenOnTwoDays, Zenon
(* The days since d, and the days until d, before and after.               *)
<1>a. /\ (day - d + 7) % 7 \in 0..6 /\ ((day - d + 7) % 7 = 0 <=> day = d)
      /\ (d - day + 7) % 7 \in 0..6 /\ ((d - day + 7) % 7 = 0 <=> d = day)
  BY <1>0, DaysApart, ZenonT(40)
<1>b. /\ (day' - d + 7) % 7 \in 0..6 /\ ((day' - d + 7) % 7 = 0 <=> day' = d)
      /\ (d - day' + 7) % 7 \in 0..6 /\ ((d - day' + 7) % 7 = 0 <=> d = day')
  BY <1>0, DaysApart, ZenonT(40)
<1>2. PICK s \in 0..6 : s = (day - d + 7) % 7 /\ (s = 0 <=> day = d)
  BY <1>a, Zenon
<1>3. PICK s1 \in 0..6 : s1 = (day' - d + 7) % 7 /\ (s1 = 0 <=> day' = d)
  BY <1>b, Zenon
<1>4. PICK u \in 0..6 : u = (d - day + 7) % 7 /\ (u = 0 <=> d = day)
  BY <1>a, Zenon
<1>5. PICK u1 \in 0..6 : u1 = (d - day' + 7) % 7 /\ (u1 = 0 <=> d = day')
  BY <1>b, Zenon
<1>6. PICK S \in Nat, S1 \in Nat, U \in Nat, U1 \in Nat :
         /\ S = s * DayLen /\ S1 = s1 * DayLen /\ U = u * DayLen /\ U1 = u1 * DayLen
         /\ s = 0 => S = 0
         /\ s >= 1 => S >= DayLen
         /\ s >= 2 => S >= 2 * DayLen
         /\ s1 = 0 => S1 = 0
         /\ u = 0 => U = 0
         /\ u >= 1 => U >= DayLen
         /\ u >= 2 => U >= 2 * DayLen
  BY <1>0, Multiples, Zenon
<1>c. /\ s = 0 => S = 0
      /\ s >= 1 => S >= DayLen
      /\ s >= 2 => S >= 2 * DayLen
      /\ s1 = 0 => S1 = 0
      /\ u = 0 => U = 0
      /\ u >= 1 => U >= DayLen
      /\ u >= 2 => U >= 2 * DayLen
  BY <1>6, Zenon
<1>7. /\ Since(w, d) = S + time - w.start
      /\ Since(w, d)' = S1 + time' - w.start
      /\ Until(w, d) = IF u = 0 /\ time >= w.start THEN 7 * DayLen + w.start - time
                                                  ELSE U + w.start - time
      /\ Until(w, d)' = IF u1 = 0 /\ time' >= w.start THEN 7 * DayLen + w.start - time'
                                                     ELSE U1 + w.start - time'
  BY <1>2, <1>3, <1>4, <1>5, <1>6, Zenon DEF Since, Until
<1>8. CASE time # DayLen - 1
  <2>1. s1 = s /\ u1 = u /\ time' = time + 1
    BY <1>8, <1>2, <1>3, <1>4, <1>5, Zenon DEF Turn
  <2>2. S1 = S /\ U1 = U
    BY <2>1, <1>6, Zenon
  <2>3. s = 0 <=> u = 0
    BY <1>2, <1>4, ZenonT(40)
  <2> QED
    BY <1>0, <1>1, <1>7, <1>8, <1>c, <2>1, <2>2, <2>3, SMTT(30)
<1>9. CASE time = DayLen - 1
  <2>1. /\ time' = 0
        /\ s = 6 => s1 = 0
        /\ s < 6 => s1 = s + 1
        /\ u = 0 => u1 = 6
        /\ u > 0 => u1 = u - 1
        /\ s1 = 0 <=> u = 1
        /\ s = 0 <=> u = 0
    BY <1>0, <1>9, <1>2, <1>3, <1>4, <1>5 DEF weekday_plus, Weekdays, Turn
  <2>2. /\ s < 6 => S1 = S + DayLen
        /\ u = 0 => U1 = 6 * DayLen
        /\ u > 0 => U1 = U - DayLen
        /\ u = 1 => U = DayLen
    <3>1. s < 6 => S1 = S + DayLen
      BY <2>1, <1>6, Multiples, Zenon
    <3>2. u = 0 => U1 = 6 * DayLen
      BY <2>1, <1>6, Zenon
    <3>3. u > 0 => U1 = U - DayLen
      BY <2>1, <1>6, Multiples, Zenon
    <3>4. u = 1 => U = DayLen
      BY <1>6, Multiples, Zenon
    <3> QED
      BY <3>1, <3>2, <3>3, <3>4, Zenon
  <2> QED
    BY <1>0, <1>1, <1>7, <1>9, <1>c, <2>1, <2>2, SMTT(30)
<1> QED
  BY <1>8, <1>9, Zenon
-----------------------------------------------------------------------------
(* A set of naturals that is not empty has a least element.                *)
LEMMA Least ==
    ASSUME NEW S, S \subseteq Nat, S # {}
    PROVE  /\ (CHOOSE m \in S : \A k \in S : m <= k) \in S
           /\ \A k \in S : (CHOOSE m \in S : \A j \in S : m <= j) <= k
<1>1. PICK m \in S : \A k \in S : <<k, m>> \notin OpToRel(<, Nat)
  BY NatLessThanWellFounded, WFMin, Zenon
<1>2. \A k \in S : ~(k < m)
  BY <1>1, Zenon DEF OpToRel
<1>3. \A k \in S : m <= k
  BY <1>2
<1> QED
  BY <1>3, Zenon

(* The first open window closes when duration_until_inactive says.         *)
LEMMA UntilInactive ==
    ASSUME config \in Schedules, Moment, is_active_now
    PROVE  /\ duration_until_inactive \in Nat
           /\ Closes(duration_until_inactive)
<1> DEFINE open == {i \in ParsedWindows : Active(config[i])}
           first == CHOOSE i \in open : \A j \in open : i <= j
<1>1. open \subseteq Nat /\ open # {}
  BY ParsedIsProper, Zenon DEF is_active_now
<1>2. first \in open
  BY <1>1, Least, Zenon
<1> HIDE DEF first
<1>3. PICK w : w = config[first] /\ Proper(w) /\ Active(w)
  BY <1>2, ParsedIsProper, Zenon
<1>4. duration_until_inactive = WindowEnds(w)
  BY <1>3, Zenon DEF duration_until_inactive, first
<1>5. DayLen \in Nat \ {0} /\ w.start \in Nat /\ w.end \in Nat /\ time \in Nat
      /\ w.start < DayLen /\ w.end < DayLen /\ time < DayLen
  BY <1>3, ScheduleAssumption DEF Proper, Moment
<1>6. WindowEnds(w) \in Nat /\ \E d \in w.days : /\ Since(w, d) >= 0
                                               /\ Since(w, d) + WindowEnds(w) = Length(w)
  <2>1. CASE ActiveTillTomorrow(w)
    <3>1. day \in w.days /\ time >= w.start /\ w.end <= w.start
      BY <2>1, Zenon DEF ActiveTillTomorrow, Overnight
    <3>2. Since(w, day) = time - w.start
      BY <1>3, <3>1, OpenOnTwoDays, Zenon
    <3>3. WindowEnds(w) = DayLen - time + w.end /\ Length(w) = w.end - w.start + DayLen
      BY <1>5, <2>1, <3>1 DEF WindowEnds, Length
    <3> QED
      BY <1>5, <3>1, <3>2, <3>3
  <2>2. CASE ~ActiveTillTomorrow(w) /\ w.end <= w.start
    <3>1. prev_weekday(day) \in w.days /\ time < w.end
      BY <1>3, <2>2, Zenon DEF Active, ActiveTillToday, Overnight
    <3>2. Since(w, prev_weekday(day)) = DayLen + time - w.start
      BY <1>3, <3>1, OpenOnTwoDays, Zenon
    <3>3. WindowEnds(w) = w.end - time /\ Length(w) = w.end - w.start + DayLen
      BY <1>5, <2>2 DEF WindowEnds, Length
    <3> QED
      BY <1>5, <3>1, <3>2, <3>3
  <2>3. CASE ~ActiveTillTomorrow(w) /\ ~(w.end <= w.start)
    <3>1. day \in w.days /\ time >= w.start /\ time < w.end
      BY <1>3, <2>3, Zenon DEF Active, ActiveTillToday, Overnight
    <3>2. Since(w, day) = time - w.start
      BY <1>3, <3>1, OpenOnTwoDays, Zenon
    <3>3. WindowEnds(w) = w.end - time /\ Length(w) = w.end - w.start
      BY <1>5, <2>3 DEF WindowEnds, Length
    <3> QED
      BY <1>5, <3>1, <3>2, <3>3
  <2> QED
    BY <2>1, <2>2, <2>3, Zenon
<1> QED
  BY <1>2, <1>3, <1>4, <1>6, Zenon DEF Closes

(* is_active_now is right, at any moment and so also at the next.          *)
LEMMA ActiveIsRightNow == (Moment /\ config \in Schedules) => (is_active_now <=> Open)
<1> SUFFICES ASSUME Moment, config \in Schedules PROVE is_active_now <=> Open
  BY Zenon
<1>1. \A i \in ParsedWindows : Active(config[i]) <=> OpenNow(config[i])
  BY ParsedIsProper, ActiveIsOpen, Zenon
<1> QED
  BY <1>1, Zenon DEF is_active_now, Open

LEMMA ActiveIsRightNext ==
    (Moment /\ config \in Schedules)' => (is_active_now <=> Open)'
BY ActiveIsRightNow, PTL

(* No window opens before the wait of duration_until_next_active is over,  *)
(* and unless it is the hour one then does.                                *)
LEMMA UntilNextActive ==
    ASSUME config \in Schedules, Moment
    PROVE  /\ NextStart \in Nat \ {0}
           /\ \A i \in ParsedWindows : \A d \in config[i].days :
                 Until(config[i], d) >= NextStart
           /\ Waits # {} => Opens(NextStart)
<1>0. /\ DayLen \in Nat \ {0} /\ HourLen \in 1..DayLen
      /\ time \in Nat /\ time < DayLen /\ day \in Weekdays
  BY ScheduleAssumption DEF Moment
<1>1. ASSUME NEW k \in Waits PROVE k \in Nat \ {0} /\ k <= 7 * DayLen - time /\ Opens(k)
  <2>1. PICK q \in ParsedWindows \X (0..6) :
           /\ k = Wait(config[q[1]], q[2]) /\ weekday_plus(day, q[2]) \in config[q[1]].days
           /\ q[2] = 0 => time < config[q[1]].start
    BY Zenon DEF Waits
  <2>2. PICK i \in ParsedWindows, n \in 0..6 : q[1] = i /\ q[2] = n
    BY Zenon
  <2>3. PICK st \in Nat : st = config[i].start /\ st < DayLen
    BY <1>0, ParsedIsProper DEF Proper
  <2>4. PICK m \in Nat : m = n * DayLen /\ m <= 6 * DayLen /\ (n >= 1 => m >= DayLen)
                         /\ (n = 0 => m = 0) /\ (n - 1) * DayLen = m - DayLen
    BY Multiples, Zenon
  <2>5. k = IF n = 0 THEN st - time ELSE DayLen - time + (m - DayLen) + st
    BY <2>1, <2>2, <2>3, <2>4, Zenon DEF Wait
  <2>6. n = 0 => time < st
    BY <2>1, <2>2, <2>3, Zenon
  <2>7. k = m + st - time /\ k \in Nat \ {0} /\ k <= 7 * DayLen - time
    BY <1>0, <2>3, <2>4, <2>5, <2>6
  <2>8. PICK d \in config[i].days : d = weekday_plus(day, n)
    BY <2>1, <2>2, Zenon
  <2>9. d \in Weekdays /\ (d - day + 7) % 7 = n /\ (n = 0 <=> d = day)
    <3>1. d \in Weekdays /\ (d - day + 7) % 7 = n
      BY <1>0, <2>8, DaysOn, Zenon
    <3> QED
      BY <1>0, <3>1, DaysApart, Zenon
  <2>10. ~(d = day /\ time >= st)
    BY <1>0, <2>3, <2>6, <2>9
  <2>11. Until(config[i], d) = k
    BY <2>3, <2>4, <2>7, <2>9, <2>10, ZenonT(40) DEF Until
  <2> QED
    BY <2>7, <2>11, Zenon DEF Opens
<1>2. /\ NextStart \in Nat \ {0}
      /\ NextStart <= 7 * DayLen - time
      /\ \A k \in Waits : NextStart <= k
      /\ Waits # {} => Opens(NextStart)
  <2>1. CASE Waits = {}
    BY <1>0, <2>1 DEF NextStart
  <2>2. CASE Waits # {}
    <3>1. Waits \subseteq Nat
      BY <1>1, Zenon
    <3>2. NextStart \in Waits /\ \A k \in Waits : NextStart <= k
      BY <2>2, <3>1, Least, Zenon DEF NextStart
    <3> QED
      BY <1>1, <3>2, Zenon
  <2> QED
    BY <2>1, <2>2, Zenon
<1>3. ASSUME NEW i \in ParsedWindows, NEW d \in config[i].days
      PROVE  Until(config[i], d) >= NextStart
  <2>1. PICK st \in Nat : st = config[i].start /\ st < DayLen /\ d \in Weekdays
    BY <1>0, ParsedIsProper DEF Proper
  <2>2. CASE d = day /\ time >= st
    BY <1>0, <1>2, <2>1, <2>2 DEF Until
  <2>3. CASE ~(d = day /\ time >= st)
    <3>1. PICK n \in 0..6 : /\ n = (d - day + 7) % 7 /\ (n = 0 <=> d = day)
                            /\ weekday_plus(day, n) = d
      BY <1>0, <2>1, DaysApart
    <3>2. PICK m \in Nat : /\ m = n * DayLen /\ (n = 0 => m = 0)
                           /\ (n - 1) * DayLen = m - DayLen
      BY Multiples, Zenon
    <3> DEFINE q == <<i, n>>
    <3>a. q[1] = i /\ q[2] = n /\ q \in ParsedWindows \X (0..6)
      BY Zenon
    <3>b. /\ weekday_plus(day, q[2]) \in config[q[1]].days
          /\ q[2] = 0 => time < config[q[1]].start
      BY <1>0, <2>1, <2>3, <3>1, <3>a
    <3> HIDE DEF q
    <3>3. Wait(config[i], n) \in Waits
      BY <3>a, <3>b, ZenonT(40) DEF Waits
    <3>4. Wait(config[i], n) = m + st - time
      <4>1. Wait(config[i], n) = IF n = 0 THEN st - time ELSE DayLen - time + (m - DayLen) + st
        BY <2>1, <3>2, Zenon DEF Wait
      <4> QED
        BY <1>0, <2>1, <3>2, <4>1
    <3>5. Until(config[i], d) = m + st - time
      BY <2>1, <2>3, <3>1, <3>2, ZenonT(40) DEF Until
    <3> QED
      BY <1>2, <3>3, <3>4, <3>5, ZenonT(40)
  <2> QED
    BY <2>2, <2>3, Zenon
<1> QED
  BY <1>2, <1>3, Zenon
-----------------------------------------------------------------------------

LEMMA InitSchedInv == SchedInit => SchedInv
<1> SUFFICES ASSUME SchedInit PROVE SchedInv
  OBVIOUS
<1>1. 0 \in Nat
  OBVIOUS
<1>2. /\ config \in Schedules /\ day \in Weekdays /\ time \in 0..DayLen-1 /\ left = 0
      /\ phase \in {"always", "check"} /\ ahead = FALSE /\ slip = "none"
  BY Zenon DEF SchedInit
<1>3. SchedTypeOK
  BY <1>1, <1>2, Zenon DEF SchedTypeOK
<1> QED
  BY <1>2, <1>3, Zenon DEF SchedInv, SleepsShort, SleepsToAStart, ServesToTheEnd, ReadsAgree

(* While the clock stands still the windows are where they were.           *)
LEMMA ClockStands ==
    ASSUME UNCHANGED <<config, day, time>>
    PROVE  /\ is_active_now' <=> is_active_now
           /\ \A n : /\ Far(n)' <=> Far(n)
                     /\ Opens(n)' <=> Opens(n)
                     /\ Closes(n)' <=> Closes(n)
<1>1. is_active_now' <=> is_active_now
  BY ZenonT(40) DEF is_active_now, Active, ActiveTillTomorrow, ActiveTillToday, Overnight, ParsedWindows,
                    prev_weekday
<1>2. ASSUME NEW n PROVE (Far(n)' <=> Far(n)) /\ (Opens(n)' <=> Opens(n)) /\ (Closes(n)' <=> Closes(n))
  BY ZenonT(40) DEF Far, Opens, Closes, ParsedWindows, OpenNow, Length, Since, Until
<1> QED
  BY <1>1, <1>2, Zenon

(* The steps of the loop, which take no time.                              *)
LEMMA LoopKeepsSchedInv ==
    ASSUME SchedInv, LoopSteps \/ CtrlC \/ TimerRuns \/ UNCHANGED schedVars
    PROVE  SchedInv'
<1>0. /\ Moment /\ config \in Schedules /\ left \in Nat /\ DayLen \in Nat /\ Lag \in Nat
      /\ SchedTypeOK /\ (ahead => left > 0 /\ phase \in {"sleep", "serve", "serve_a_day"})
      /\ SleepsShort /\ SleepsToAStart /\ ServesToTheEnd /\ ReadsAgree
  BY ScheduleAssumption, Zenon DEF SchedInv, SchedTypeOK, Moment
<1>1. ASSUME NEW p, NEW n, Enter(p, n), n \in Nat,
             p \in {"check", "again", "next", "remaining", "sleep", "serve", "serve_a_day", "stopped"},
             slip' \in {"none", "hour", "crossed"},
             p = "sleep" /\ n > 0 /\ slip' # "crossed" => Far(n),
             p = "sleep" /\ slip' = "none" => IF n = 0 THEN is_active_now ELSE Opens(n),
             p = "serve" => Closes(n),
             p \in {"again", "next"} /\ slip' # "crossed" => ~is_active_now,
             p = "remaining" /\ slip' = "none" => is_active_now,
             p = "serve_a_day" => slip' # "none"
      PROVE  SchedInv'
  <2>1. /\ phase' = p /\ left' = n /\ ahead' = FALSE /\ UNCHANGED <<config, day, time>>
        /\ Rest' = n
    BY <1>1, Zenon DEF Enter, Rest
  <2>2. SchedTypeOK' /\ ~ahead'
    BY <1>0, <1>1, <2>1, Zenon DEF SchedTypeOK
  <2>3. SleepsShort' /\ SleepsToAStart' /\ ServesToTheEnd'
    BY <1>1, <2>1, ClockStands, Zenon DEF SleepsShort, SleepsToAStart, ServesToTheEnd
  <2>4. ReadsAgree'
    BY <1>1, <2>1, ClockStands, Zenon DEF ReadsAgree
  <2> QED
    BY <2>2, <2>3, <2>4, Zenon DEF SchedInv
<1>t. slip \in {"none", "hour", "crossed"}
  BY <1>0, Zenon DEF SchedTypeOK
<1>2. CASE CheckSchedule
  BY <1>0, <1>1, <1>2, <1>t, Zenon DEF CheckSchedule
<1>3. CASE CheckAgain
  <2>1. CASE is_active_now
    <3>1. Enter("sleep", 0) /\ slip' = "crossed"
      BY <1>0, <1>3, <2>1, <1>t, Zenon DEF CheckAgain, ReadsAgree
    <3> QED
      BY <1>1, <3>1, Zenon
  <2>2. CASE ~is_active_now
    BY <1>0, <1>1, <1>3, <1>t, <2>2, Zenon DEF CheckAgain
  <2> QED
    BY <2>1, <2>2, Zenon
<1>4. CASE duration_until_next_active
  <2>1. /\ phase = "next" /\ Enter("sleep", NextStart) /\ slip' \in {slip, "hour"}
        /\ slip' = "none" => Waits # {}
        /\ slip' # "crossed" => slip # "crossed"
    BY <1>4, Zenon DEF duration_until_next_active
  <2>2. /\ NextStart \in Nat /\ NextStart # 0 /\ (Waits # {} => Opens(NextStart))
        /\ \A i \in ParsedWindows : \A d \in config[i].days : Until(config[i], d) >= NextStart
    BY <1>0, UntilNextActive, Zenon
  <2>3. slip' # "crossed" => Far(NextStart)
    <3> SUFFICES ASSUME slip' # "crossed", NEW i \in ParsedWindows PROVE ~OpenNow(config[i])
      BY <2>2, Zenon DEF Far
    <3>1. ~Active(config[i])
      BY <1>0, <2>1, Zenon DEF ReadsAgree, is_active_now
    <3> QED
      BY <1>0, <3>1, ParsedIsProper, ActiveIsOpen, Zenon
  <2> QED
    BY <1>1, <1>t, <2>1, <2>2, <2>3, Zenon
<1>5. CASE WakeUp
  <2>1. phase = "sleep" /\ left = 0 /\ Enter("remaining", Lag) /\ slip' = slip /\ ~ahead
    BY <1>0, <1>5 DEF WakeUp
  <2>2. slip = "none" => is_active_now
    BY <1>0, <2>1, Zenon DEF SleepsToAStart, Rest
  <2> QED
    BY <1>0, <1>1, <1>t, <2>1, <2>2, Zenon
<1>6. CASE Serve
  <2>1. CASE is_active_now
    <3>1. Enter("serve", duration_until_inactive) /\ slip' = slip
      BY <1>6, <2>1, Zenon DEF Serve
    <3>2. duration_until_inactive \in Nat /\ Closes(duration_until_inactive)
      BY <1>0, <2>1, UntilInactive, Zenon
    <3> QED
      BY <1>1, <1>t, <3>1, <3>2, Zenon
  <2>2. CASE ~is_active_now
    <3>1. Enter("serve_a_day", DayLen) /\ slip' = slip /\ slip # "none"
      BY <1>0, <1>6, <2>2, Zenon DEF Serve, ReadsAgree
    <3> QED
      BY <1>0, <1>1, <1>t, <3>1, Zenon
  <2> QED
    BY <2>1, <2>2, Zenon
<1>7. CASE CloseWindow
  BY <1>0, <1>1, <1>7, Zenon DEF CloseWindow
<1>8. CASE CtrlC
  <2>1. 0 \in Nat
    OBVIOUS
  <2> QED
    BY <1>1, <1>8, <1>t, <2>1, Zenon DEF CtrlC
<1>9. CASE TimerRuns \/ UNCHANGED schedVars
  <2>1. /\ UNCHANGED <<config, day, time, phase, slip>> /\ Rest' = Rest
        /\ left' \in Nat /\ ahead' \in BOOLEAN
        /\ ahead' => left' > 0 /\ phase' \in {"sleep", "serve", "serve_a_day"}
    <3>1. CASE TimerRuns
      <4>1. /\ UNCHANGED <<config, day, time, phase, slip>> /\ ahead = TRUE /\ ahead' = FALSE
            /\ left' = left - 1 /\ left > 0
        BY <1>0, <3>1, Zenon DEF TimerRuns, SchedTypeOK
      <4>2. left - 1 \in Nat
        BY <1>0, <4>1
      <4> QED
        BY <4>1, <4>2, Zenon DEF Rest
    <3>2. CASE UNCHANGED schedVars
      BY <1>0, <3>2, Zenon DEF schedVars, Rest, SchedTypeOK
    <3> QED
      BY <1>9, <3>1, <3>2, Zenon
  <2>2. SchedTypeOK'
    BY <1>0, <2>1, Zenon DEF SchedTypeOK
  <2>3. SleepsShort' /\ SleepsToAStart' /\ ServesToTheEnd' /\ ReadsAgree'
    BY <1>0, <2>1, ClockStands, Zenon DEF SleepsShort, SleepsToAStart, ServesToTheEnd, ReadsAgree
  <2> QED
    BY <2>1, <2>2, <2>3, Zenon DEF SchedInv
<1> QED
  BY <1>2, <1>3, <1>4, <1>5, <1>6, <1>7, <1>8, <1>9, Zenon DEF LoopSteps

(* The next second is a moment of the week, too.                           *)
LEMMA TurnMoment ==
    ASSUME Moment, Turn
    PROVE  Moment'
<1>1. DayLen \in Nat \ {0}
  BY ScheduleAssumption, Zenon
<1>2. day' \in Weekdays
  BY DEF Moment, Turn, Weekdays, weekday_plus
<1> QED
  BY <1>1, <1>2 DEF Moment, Turn

(* A second passes, between two reads or in a sleep.                       *)
LEMMA ClockKeepsSchedInv ==
    ASSUME SchedInv, ClockMoves \/ ClockTicks
    PROVE  SchedInv'
<1>0. /\ Moment /\ config \in Schedules /\ left \in Nat
      /\ SchedTypeOK /\ (ahead => phase \in {"sleep", "serve", "serve_a_day"})
      /\ SleepsShort /\ SleepsToAStart /\ ServesToTheEnd /\ ReadsAgree
  BY Zenon DEF SchedInv, SchedTypeOK, Moment
<1>1. left > 0 /\ Turn /\ config' = config /\ phase' = phase
  BY Zenon DEF ClockMoves, ClockTicks
<1>2. Moment'
  BY <1>0, <1>1, TurnMoment, Zenon
<1>3. ParsedWindows' = ParsedWindows /\ \A i \in ParsedWindows : Length(config[i])' = Length(config[i])
  BY <1>1, Zenon DEF ParsedWindows, Length
<1>4. CASE ClockMoves
  <2>1. /\ phase \in {"check", "again", "next", "remaining"} /\ left' = left - 1 /\ ahead' = ahead
        /\ slip' = IF phase = "check" \/ is_active_now' = is_active_now THEN slip ELSE "crossed"
    BY <1>4, Zenon DEF ClockMoves
  <2>2. ~ahead
    BY <1>0, <2>1, Zenon
  <2>3. left' \in Nat
    BY <1>0, <1>1, <2>1
  <2>4. SchedTypeOK' /\ ~ahead'
    BY <1>0, <1>1, <1>2, <2>1, <2>2, <2>3, Zenon DEF SchedTypeOK, Moment
  <2>5. SleepsShort' /\ SleepsToAStart' /\ ServesToTheEnd'
    BY <1>1, <2>1, Zenon DEF SleepsShort, SleepsToAStart, ServesToTheEnd
  <2>6. ReadsAgree'
    BY <1>0, <1>1, <2>1, Zenon DEF ReadsAgree
  <2> QED
    BY <2>4, <2>5, <2>6, Zenon DEF SchedInv
<1>5. CASE ClockTicks
  <2>1. /\ ~ahead /\ ahead' = TRUE /\ left' = left /\ slip' = slip
        /\ phase \in {"sleep", "serve", "serve_a_day"}
    BY <1>5, Zenon DEF ClockTicks
  <2>2. Rest = left /\ Rest' = left - 1
    BY <2>1, Zenon DEF Rest
  <2>3. SchedTypeOK' /\ left' > 0 /\ phase' \in {"sleep", "serve", "serve_a_day"}
    BY <1>0, <1>1, <1>2, <2>1, Zenon DEF SchedTypeOK, Moment
  <2>4. ASSUME NEW i \in ParsedWindows, NEW d \in config[i].days
        PROVE  Until(config[i], d) \in Int /\ Since(config[i], d) \in Int /\ Length(config[i]) \in Int
    <3>1. PICK w : w = config[i] /\ Proper(w)
      BY <1>0, ParsedIsProper, Zenon
    <3>2. /\ d \in Weekdays /\ day \in Weekdays /\ w.start \in Int /\ time \in Int
          /\ DayLen \in Int
      BY <1>0, <2>4, <3>1, ScheduleAssumption DEF Proper, Moment
    <3>3. (d - day + 7) % 7 \in 0..6
      BY <3>2, DaysApart, Zenon
    <3>4. PICK m \in Nat : m = ((d - day + 7) % 7) * DayLen
      BY <3>3, Multiples, Zenon
    <3>5. Until(w, d) = IF d = day /\ time >= w.start THEN 7 * DayLen + w.start - time
                                                       ELSE m + w.start - time
      BY <3>4, Zenon DEF Until
    <3>6. Until(w, d) \in Int
      BY <3>2, <3>4, <3>5
    <3>7. Since(w, d) \in Int /\ Length(w) \in Int
      BY <1>0, <3>1, OpenOnTwoDays
    <3> QED
      BY <3>1, <3>6, <3>7, Zenon
  <2>5. ASSUME NEW i \in ParsedWindows, NEW d \in config[i].days
        PROVE  LET w == config[i]
               IN  /\ Since(w, d) \in 0..Length(w)-1 => Since(w, d)' = Since(w, d) + 1
                   /\ Until(w, d) >= 2 => Until(w, d)' = Until(w, d) - 1
                   /\ Until(w, d) = 1 => Since(w, d)' = 0
                   /\ Since(w, d)' \in 0..Length(w)-1 =>
                         Since(w, d) \in 0..Length(w)-1 \/ Until(w, d) = 1
    <3>1. PICK w : w = config[i] /\ Proper(w)
      BY <1>0, ParsedIsProper, Zenon
    <3>2. Since(config[i], d)' = Since(w, d)' /\ Until(config[i], d)' = Until(w, d)'
      BY <1>1, <3>1, Zenon DEF Since, Until
    <3> QED
      BY <1>0, <1>1, <1>2, <3>1, <3>2, TickMoves, Zenon
  <2>6. SleepsShort'
    <3>1. SUFFICES ASSUME phase = "sleep", left - 1 > 0, slip # "crossed", NEW i \in ParsedWindows
                   PROVE  /\ ~OpenNow(config[i])'
                          /\ \A d \in config[i].days : Until(config[i], d)' >= left - 1
      BY <1>1, <1>3, <2>1, <2>2, Zenon DEF SleepsShort, Far
    <3>2. ~OpenNow(config[i]) /\ \A d \in config[i].days : Until(config[i], d) >= left
      BY <1>0, <1>1, <2>2, <3>1, Zenon DEF SleepsShort, Far
    <3>3. ASSUME NEW d \in config[i].days
          PROVE  Since(config[i], d)' \notin 0..Length(config[i])-1 /\ Until(config[i], d)' >= left - 1
      <4>1. Since(config[i], d) \notin 0..Length(config[i])-1
        BY <3>2, Zenon DEF OpenNow
      <4>2. PICK u \in Int : u = Until(config[i], d) /\ u >= left
        BY <2>4, <3>2, Zenon
      <4>3. u >= 2 /\ u # 1 /\ u - 1 >= left - 1
        BY <1>0, <3>1, <4>2
      <4> QED
        BY <2>5, <4>1, <4>2, <4>3, Zenon
    <3>4. ASSUME OpenNow(config[i])' PROVE FALSE
      BY <1>1, <1>3, <3>3, <3>4, Zenon DEF OpenNow
    <3> QED
      BY <3>3, <3>4, Zenon
  <2>7. SleepsToAStart'
    <3>1. SUFFICES ASSUME phase = "sleep", slip = "none"
                   PROVE  IF left - 1 = 0 THEN is_active_now' ELSE Opens(left - 1)'
      BY <1>1, <2>1, <2>2, Zenon DEF SleepsToAStart
    <3>2. left # 0
      BY <1>0, <1>1
    <3>3. PICK i \in ParsedWindows : \E d \in config[i].days : Until(config[i], d) = left
      BY <1>0, <2>2, <3>1, <3>2, Zenon DEF SleepsToAStart, Opens
    <3>4. PICK d \in config[i].days : Until(config[i], d) = left
      BY <3>3, Zenon
    <3>5. CASE left - 1 = 0
      <4>1. left = 1
        BY <1>0, <3>5
      <4>2. Since(config[i], d)' = 0
        BY <2>5, <3>4, <4>1, Zenon
      <4>3. 0 \in 0..Length(config[i])'-1
        <5>1. Proper(config[i])
          BY <1>0, ParsedIsProper, Zenon
        <5>2. Length(config[i]) \in 1..DayLen
          BY <1>0, <5>1, OpenOnTwoDays, Zenon
        <5> QED
          BY <1>3, <5>2, ScheduleAssumption
      <4>4. OpenNow(config[i])'
        BY <1>1, <4>2, <4>3, Zenon DEF OpenNow
      <4>5. Open'
        BY <1>1, <1>3, <4>4, Zenon DEF Open
      <4>6. is_active_now'
        BY <1>0, <1>1, <1>2, <4>5, ActiveIsRightNext, Zenon
      <4> QED
        BY <3>5, <4>6, Zenon
    <3>6. CASE left - 1 # 0
      <4>1. left >= 2
        BY <1>0, <1>1, <3>6
      <4>2. Until(config[i], d)' = left - 1
        BY <2>5, <3>4, <4>1, Zenon
      <4> QED
        BY <1>1, <1>3, <2>1, <3>6, <4>2, Zenon DEF Opens
    <3> QED
      BY <3>5, <3>6, Zenon
  <2>8. ServesToTheEnd'
    <3>1. SUFFICES ASSUME phase = "serve" PROVE Closes(left - 1)'
      BY <1>1, <2>1, <2>2, Zenon DEF ServesToTheEnd, Closes
    <3>2. PICK i \in ParsedWindows : \E d \in config[i].days :
             Since(config[i], d) >= 0 /\ Since(config[i], d) + left = Length(config[i])
      BY <1>0, <2>2, <3>1, Zenon DEF ServesToTheEnd, Closes
    <3>3. PICK d \in config[i].days :
             Since(config[i], d) >= 0 /\ Since(config[i], d) + left = Length(config[i])
      BY <3>2, Zenon
    <3>4. Since(config[i], d) \in 0..Length(config[i])-1
      BY <1>0, <1>1, <2>4, <3>3
    <3>5. Since(config[i], d)' = Since(config[i], d) + 1
      BY <2>5, <3>4, Zenon
    <3>6. PICK n \in Int : n = left - 1
      BY <1>0
    <3>7. Since(config[i], d)' >= 0 /\ Since(config[i], d)' + n = Length(config[i])'
      BY <1>0, <1>3, <2>4, <3>3, <3>5, <3>6
    <3>8. Closes(n)'
      BY <1>1, <1>3, <3>7, Zenon DEF Closes
    <3> QED
      BY <2>1, <3>6, <3>8, Zenon DEF Closes
  <2>9. ReadsAgree'
    BY <1>0, <1>1, <2>1, Zenon DEF ReadsAgree
  <2> QED
    BY <2>3, <2>6, <2>7, <2>8, <2>9, Zenon DEF SchedInv
<1> QED
  BY <1>4, <1>5, Zenon

(* The schedule of cmd_serve, for every configuration and however long the *)
(* reads of the clock take: is_active_now is right at any time of the      *)
(* week; the loop sleeps into no window, and wakes in one, unless a window *)
(* opened or closed between two reads or no start was found; and it serves *)
(* no window beyond its end.                                               *)
THEOREM ScheduleFollowed == SchedSpec => [](SchedTypeOK /\ ScheduleIsKept)
<1>1. SchedInv => ActiveIsRight
  BY ActiveIsRightNow, Zenon DEF SchedInv, SchedTypeOK, Moment, ActiveIsRight
<1>2. SchedInv => NeverOversleeps
  BY Zenon DEF SchedInv, SleepsShort, Far, NeverOversleeps, Open
<1>3. SchedInv => ServesTheWindow
  <2> SUFFICES ASSUME SchedInv, phase = "serve", Rest > 0 PROVE Open
    BY Zenon DEF ServesTheWindow
  <2>1. config \in Schedules /\ Moment /\ left \in Nat /\ ahead \in BOOLEAN
    BY Zenon DEF SchedInv, SchedTypeOK, Moment
  <2>r. Rest \in Int
    BY <2>1 DEF Rest
  <2>p. PICK i \in ParsedWindows : \E d \in config[i].days :
           Since(config[i], d) >= 0 /\ Since(config[i], d) + Rest = Length(config[i])
    BY Zenon DEF SchedInv, ServesToTheEnd, Closes
  <2>2. PICK d \in config[i].days :
           Since(config[i], d) >= 0 /\ Since(config[i], d) + Rest = Length(config[i])
    BY <2>p, ZenonT(40)
  <2>3. Since(config[i], d) \in Int /\ Length(config[i]) \in Int
    BY <2>1, <2>2, ParsedIsProper, OpenOnTwoDays
  <2>4. Since(config[i], d) \in 0..Length(config[i])-1
    BY <2>r, <2>2, <2>3
  <2> QED
    BY <2>2, <2>4, Zenon DEF Open, OpenNow
<1>4. SchedInv => SchedTypeOK /\ WakesForAWindow
  BY Zenon DEF SchedInv, ReadsAgree, WakesForAWindow
<1>5. SchedInv => SchedTypeOK /\ ScheduleIsKept
  BY <1>1, <1>2, <1>3, <1>4, Zenon DEF ScheduleIsKept
<1>6. SchedInv /\ [SchedNext]_schedVars => SchedInv'
  BY LoopKeepsSchedInv, ClockKeepsSchedInv, Zenon DEF SchedNext
<1> QED
  BY InitSchedInv, <1>5, <1>6, PTL DEF SchedSpec

-----------------------------------------------------------------------------
(* Setup: a command that is repeated, or cut short, keeps the choices that *)
(* are on disk.                                                            *)

(* What is to be downloaded covers what was asked for, and only the first  *)
(* download can be a default, for which there is room.                     *)
DownloadsOK ==
    /\ todos \in Seq(Ids) /\ \A m \in asked : m \in stored \/ \E i \in DOMAIN todos : todos[i] = m
    /\ \A i \in DOMAIN todos : i > 1 => todos[i] \notin Defaults
    /\ (todos # <<>> /\ Head(todos) \in Defaults \ stored) => SizeOf(Head(todos)) <= diskLeft

(* Why the choices are kept: the address registered is that of the wallet  *)
(* file; a wallet and, but for autoupdate, a configuration are written     *)
(* only where there is none.                                               *)
SetupInv ==
    /\ keys \in Nat /\ (paid = {} \/ (paid = {wallet} /\ wallet # Absent /\ wallet # Torn))
    /\ step = "writing_wallet" => wallet = Absent
    /\ step = "saving_config" /\ running # "autoupdate" => cfgFile = Absent
    /\ step = "autoupdate" => running = "autoupdate"
    /\ step = "download" => DownloadsOK

(* The machine and the catalog stay what they are.                         *)
LEMMA CatalogStays ==
    ASSUME [SetupNext]_setupVars
    PROVE  /\ machine' = machine /\ Catalog' = Catalog /\ Ids' = Ids /\ Defaults' = Defaults /\ Optionals' = Optionals
           /\ \A m : SizeOf(m)' = SizeOf(m)
<1>1. machine' = machine
  BY Zenon DEF SetupNext, setupVars, shopVars, fileVars, RunCommand, Killed, CheckConfig, SaveConfig, AutoUpdate, LoadWallet,
         CreateWallet, Enroll, InstallProfile, Unenroll, SelectDownloads, DownloadFails, DownloadModel, StartService
<1>2. Catalog' = Catalog
  BY <1>1, Zenon DEF Catalog, fallback_catalog
<1> HIDE DEF Catalog
<1>3. Ids' = Ids
  BY <1>2, Zenon DEF Ids
<1>4. Defaults' = Defaults
  BY <1>1, <1>3, Zenon DEF Defaults, DefaultId
<1>5. Optionals' = Optionals
  BY <1>1, <1>2, <1>4, Zenon DEF Optionals
<1>6. \A m : SizeOf(m)' = SizeOf(m)
  BY <1>2, Zenon DEF SizeOf
<1> QED
  BY <1>1, <1>2, <1>3, <1>4, <1>5, <1>6, Zenon

LEMMA SetupInitInv == SetupInit => SetupInv
BY DEF SetupInit, SetupInv

(* The steps of a command that is not downloading.                         *)
LEMMA CommandKeeps ==
    ASSUME SetupInv,
           \/ RunCommand \/ Killed \/ CheckConfig \/ SaveConfig \/ AutoUpdate \/ LoadWallet \/ CreateWallet
           \/ Enroll \/ InstallProfile \/ Unenroll \/ DownloadFails \/ StartService
    PROVE  SetupInv'
<1> USE DEF Absent, Torn, Go, End, fileVars, shopVars
<1>1. CASE RunCommand
  BY <1>1, Zenon DEF RunCommand, SetupInv
<1>2. CASE Killed
  BY <1>2, Zenon DEF Killed, SetupInv
<1>3. CASE CheckConfig
  BY <1>3, Zenon DEF CheckConfig, AfterConfig, Loads, SetupInv
<1>4. CASE SaveConfig
  BY <1>4, Zenon DEF SaveConfig, AfterConfig, SetupInv
<1>5. CASE AutoUpdate
  BY <1>5, Zenon DEF AutoUpdate, SetupInv
<1>6. CASE LoadWallet
  BY <1>6, Zenon DEF LoadWallet, address_from_private_key, SetupInv
<1>7. CASE CreateWallet
  BY <1>7 DEF CreateWallet, generate_private_key, address_from_private_key, SetupInv
<1>8. CASE Enroll \/ InstallProfile
  BY <1>8, Zenon DEF Enroll, InstallProfile, SetupInv
<1>9. CASE Unenroll
  BY <1>9, Zenon DEF Unenroll, SetupInv
<1>10. CASE DownloadFails
  BY <1>10, Zenon DEF DownloadFails, SetupInv
<1>11. CASE StartService
  BY <1>11, Zenon DEF StartService, SetupInv
<1> QED
  BY <1>1, <1>2, <1>3, <1>4, <1>5, <1>6, <1>7, <1>8, <1>9, <1>10, <1>11, ZenonT(40)

(* The defaults that are missing come first, and none of the optionals is  *)
(* a default.                                                              *)
LEMMA SelectKeeps ==
    ASSUME SetupInv, SelectDownloads PROVE SetupInv'
<1>1. Ids' = Ids /\ Defaults' = Defaults /\ \A m : SizeOf(m)' = SizeOf(m)
  BY CatalogStays, Zenon DEF SetupNext
<1>2. /\ step' = "download" /\ diskLeft' = diskLeft /\ stored' = stored
      /\ UNCHANGED <<keys, paid, wallet>>
  BY Zenon DEF SelectDownloads, Go, fileVars
<1> DEFINE missing == {m \in Defaults : m \notin stored}
<1>3. PICK yes \in BOOLEAN, picks \in {<<>>} \union [1..1 -> Optionals \ stored] \union [1..2 -> Optionals \ stored] :
         LET offered == yes /\ missing # {} /\ \A m \in missing : SizeOf(m) <= diskLeft
             first == IF offered THEN <<CHOOSE m \in missing : TRUE>> ELSE <<>>
         IN  todos' = first \o picks /\ asked' = {todos'[i] : i \in DOMAIN todos'}
  BY Zenon DEF SelectDownloads
<1>4. picks \in Seq(Optionals)
  <2>1. CASE picks = <<>>
    BY <2>1
  <2>2. ASSUME NEW n \in Nat, picks \in [1..n -> Optionals \ stored] PROVE picks \in Seq(Optionals)
    <3>1. picks \in [1..n -> Optionals]
      BY <2>2, Zenon
    <3> QED
      BY <3>1
  <2> QED
    BY <1>3, <2>1, <2>2, Zenon
<1>5. Optionals \subseteq Ids \ Defaults /\ missing \subseteq Ids /\ missing \subseteq Defaults \ stored
  BY Zenon DEF Optionals, Ids, Defaults
<1>6. PICK first \in {<<>>} \union {<<m>> : m \in missing} :
         /\ todos' = first \o picks
         /\ first # <<>> => \A m \in missing : SizeOf(m) <= diskLeft
  <2>1. missing # {} => (CHOOSE m \in missing : TRUE) \in missing
    BY Zenon
  <2> HIDE DEF missing
  <2> QED
    BY <1>3, <2>1, Zenon
<1> HIDE DEF missing
<1>7. CASE first = <<>>
  <2>1. todos' = picks
    BY <1>4, <1>6, <1>7
  <2>2. todos' \in Seq(Ids) /\ \A i \in DOMAIN todos' : todos'[i] \notin Defaults
    BY <1>4, <1>5, <2>1
  <2>3. todos' # <<>> => Head(todos') \notin Defaults
    BY <2>2
  <2> QED
    BY <1>1, <1>2, <1>3, <2>2, <2>3, ZenonT(40) DEF SetupInv, DownloadsOK
<1>8. CASE first # <<>>
  <2>1. PICK m \in missing : first = <<m>>
    BY <1>6, <1>8, Zenon
  <2>2. /\ todos' \in Seq(Ids) /\ todos' # <<>> /\ Head(todos') = m
        /\ \A i \in DOMAIN todos' : i > 1 => todos'[i] \in Optionals
    <3>1. todos' = <<m>> \o picks /\ <<m>> \in Seq(Ids) /\ picks \in Seq(Ids)
      BY <1>4, <1>5, <1>6, <2>1
    <3>2. /\ Len(todos') = 1 + Len(picks) /\ todos'[1] = m /\ todos' \in Seq(Ids)
          /\ \A i \in 2..Len(todos') : todos'[i] = picks[i - 1] /\ i - 1 \in 1..Len(picks)
      BY <3>1
    <3> QED
      BY <1>4, <3>2
  <2>3. SizeOf(m) <= diskLeft
    BY <1>6, <1>8, Zenon
  <2>4. \A x \in asked' : \E i \in DOMAIN todos' : todos'[i] = x
    BY <1>3, Zenon
  <2>5. DownloadsOK'
    BY <1>1, <1>2, <1>5, <2>2, <2>3, <2>4, Zenon DEF DownloadsOK
  <2> QED
    BY <1>2, <2>5, Zenon DEF SetupInv
<1> QED
  BY <1>7, <1>8, Zenon

LEMMA DownloadKeeps ==
    ASSUME SetupInv, DownloadModel PROVE SetupInv'
<1>1. Ids' = Ids /\ Defaults' = Defaults /\ \A m : SizeOf(m)' = SizeOf(m)
  BY CatalogStays, Zenon DEF SetupNext
<1>2. /\ step = "download" /\ step' = "download" /\ todos # <<>> /\ todos' = Tail(todos)
      /\ stored' = stored \union {Head(todos)} /\ UNCHANGED <<asked, keys, paid, wallet>>
  BY Zenon DEF DownloadModel, Go, fileVars
<1>3. DownloadsOK
  BY <1>2, Zenon DEF SetupInv
<1>4. todos \in Seq(Ids)
  BY <1>3, Zenon DEF DownloadsOK
<1>5. /\ todos' \in Seq(Ids) /\ Head(todos) = todos[1] /\ Len(todos') = Len(todos) - 1 /\ Len(todos) > 0
      /\ \A i \in 1..Len(todos') : todos'[i] = todos[i + 1] /\ i + 1 \in 1..Len(todos)
  BY <1>2, <1>4
<1>6. ASSUME NEW i \in DOMAIN todos' PROVE todos'[i] \notin Defaults
  <2>1. i \in 1..Len(todos')
    BY <1>5
  <2>2. i + 1 \in 1..Len(todos) /\ todos'[i] = todos[i + 1]
    BY <1>5, <2>1, Zenon
  <2>3. i + 1 \in DOMAIN todos /\ i + 1 > 1
    BY <1>4, <2>1, <2>2
  <2> QED
    BY <1>3, <2>2, <2>3, Zenon DEF DownloadsOK
<1>7. todos' # <<>> => Head(todos') \notin Defaults
  BY <1>5, <1>6
<1>8. ASSUME NEW m \in asked, m \notin stored' PROVE \E i \in DOMAIN todos' : todos'[i] = m
  <2>1. PICK i \in DOMAIN todos : todos[i] = m
    BY <1>2, <1>3, <1>8, Zenon DEF DownloadsOK
  <2>2. i # 1 /\ i \in 1..Len(todos)
    BY <1>2, <1>4, <1>5, <1>8, <2>1
  <2>3. PICK j \in 1..Len(todos') : j = i - 1
    BY <1>5, <1>4, <2>2
  <2>4. todos'[j] = todos[i]
    BY <1>4, <1>5, <2>2, <2>3
  <2> QED
    BY <1>5, <2>1, <2>3, <2>4
<1>9. DownloadsOK'
  BY <1>1, <1>2, <1>5, <1>6, <1>7, <1>8, Zenon DEF DownloadsOK
<1> QED
  BY <1>2, <1>9, Zenon DEF SetupInv

LEMMA SetupNextInv == SetupInv /\ [SetupNext]_setupVars => SetupInv'
<1> SUFFICES ASSUME SetupInv, [SetupNext]_setupVars PROVE SetupInv'
  BY Zenon
<1>1. CASE UNCHANGED setupVars
  <2>1. DownloadsOK => DownloadsOK'
    BY <1>1, CatalogStays, Zenon DEF DownloadsOK, setupVars, shopVars
  <2> QED
    BY <1>1, <2>1, Zenon DEF SetupInv, setupVars, fileVars
<1> QED
  BY <1>1, CommandKeeps, SelectKeeps, DownloadKeeps, Zenon DEF SetupNext

(* The setup commands, in any order and killed at any step: one payout     *)
(* address until the wallet is deleted, automatic updates stay off, no     *)
(* default runs out of space, and the service starts only when the models  *)
(* asked for are there.                                                    *)
THEOREM SetupIsSafe == SetupSpec => SetupKeepsChoices
<1>1. SetupInv => AddressStable /\ DefaultsFit
  BY Zenon DEF SetupInv, DownloadsOK, AddressStable, DefaultsFit
<1>2. SetupInv /\ [SetupNext]_setupVars => [service' # service => asked' \subseteq stored']_setupVars
  <2> SUFFICES ASSUME SetupInv, SetupNext, service' # service PROVE asked' \subseteq stored'
    BY Zenon
  <2>1. StartService
    BY Zenon DEF SetupNext, RunCommand, Killed, CheckConfig, SaveConfig, AutoUpdate, LoadWallet, CreateWallet,
           Enroll, InstallProfile, Unenroll, SelectDownloads, DownloadFails, DownloadModel
  <2>2. todos = <<>> /\ asked' = asked /\ stored' = stored /\ step = "download"
    BY <2>1, Zenon DEF StartService, shopVars
  <2>3. DOMAIN todos = {}
    BY <2>2
  <2> QED
    BY <2>2, <2>3, Zenon DEF SetupInv, DownloadsOK
<1>3. SetupInv /\ [SetupNext]_setupVars =>
         [cfgFile = Disabled => (cfgFile' = Disabled \/ running = "autoupdate")]_setupVars
  <2> SUFFICES ASSUME SetupInv, SetupNext, cfgFile = Disabled
               PROVE  cfgFile' = Disabled \/ running = "autoupdate"
    BY Zenon
  <2>1. step = "saving_config" => running = "autoupdate"
    BY DEF SetupInv, Absent, Disabled
  <2> QED
    BY <2>1, Zenon DEF SetupNext, fileVars, RunCommand, Killed, CheckConfig, SaveConfig, AutoUpdate, LoadWallet, CreateWallet,
                Enroll, InstallProfile, Unenroll, SelectDownloads, DownloadFails, DownloadModel, StartService
<1> QED
  BY SetupInitInv, SetupNextInv, <1>1, <1>2, <1>3, PTL
     DEF SetupSpec, SetupKeepsChoices, StartsAfterDownloads, OptOutKept

-----------------------------------------------------------------------------
(* The link to an account: the token on disk is one of an approved code.   *)

(* A token that belongs to a code which the host showed.                   *)
Ours(h, t) == t \in DOMAIN tokens /\ codes[tokens[t].code].host = h

LinkTyped ==
    /\ codes \in Seq(Code) /\ tokens \in Seq([code : Nat, account : Accounts \union {NoAccount}])
    /\ saved \in [Hosts -> Int] /\ mine \in [Hosts -> Nat] /\ approving \in [Accounts -> Nat]
    /\ login \in [Hosts -> {"idle", "poll", "asked", "heard"}]
    /\ answer \in [Hosts -> [kind : {"none", "pending", "lost", "gone", "token"}, token : Nat]]

(* A code has an account only once it is approved.                         *)
AccountsApproved ==
    \A c \in DOMAIN codes : codes[c].account # NoAccount => codes[c].status = "approved"

(* A token carries the account of its code.                                *)
TokensCarry ==
    \A t \in DOMAIN tokens :
        /\ tokens[t].code \in DOMAIN codes /\ codes[tokens[t].code].status = "approved"
        /\ tokens[t].account = codes[tokens[t].code].account

(* The code polled for, and who approves which, are known.                 *)
CodesKnown ==
    /\ \A h \in Hosts : login[h] # "idle" => mine[h] \in DOMAIN codes /\ codes[mine[h]].host = h
    /\ \A a \in Accounts : approving[a] # NoCode => approving[a] \in DOMAIN codes

(* The answer to a poll and the token file are the machine's own.          *)
TokensOwned ==
    \A h \in Hosts : /\ saved[h] \notin {0, HalfToken} => Ours(h, saved[h])
                     /\ answer[h].kind = "token" => Ours(h, answer[h].token)
                     /\ login[h] = "heard" => answer[h].kind # "none"

(* Why a machine is linked to its approver.                                *)
LinkInv == LinkTyped /\ AccountsApproved /\ TokensCarry /\ CodesKnown /\ TokensOwned

LEMMA LinkInitInv == LinkInit => LinkInv
<1> SUFFICES ASSUME LinkInit PROVE LinkInv
  BY Zenon
<1>1. LinkTyped
  BY DEF LinkInit, LinkTyped, NoCode, Plain
<1>2. AccountsApproved /\ TokensCarry
  BY DEF LinkInit, AccountsApproved, TokensCarry
<1>3. CodesKnown
  BY Zenon DEF LinkInit, CodesKnown
<1>4. TokensOwned
  BY Zenon DEF LinkInit, TokensOwned, Plain
<1> QED
  BY <1>1, <1>2, <1>3, <1>4, Zenon DEF LinkInv

(* Codes come and are approved, but keep their machine and their account.  *)
CodesGrow ==
    \A c \in DOMAIN codes :
        /\ c \in DOMAIN codes' /\ codes'[c].host = codes[c].host
        /\ codes[c].status = "approved" =>
              codes'[c].status = "approved" /\ codes'[c].account = codes[c].account

LEMMA GrowKeepsTokens ==
    ASSUME LinkInv, CodesGrow, UNCHANGED <<tokens, saved, answer>>
    PROVE  /\ TokensCarry'
           /\ (\A h \in Hosts : login'[h] = "heard" => login[h] = "heard") => TokensOwned'
<1>1. TokensCarry /\ TokensOwned /\ tokens' = tokens /\ saved' = saved /\ answer' = answer
  BY ZenonT(40) DEF LinkInv
<1>2. TokensCarry'
  BY <1>1 DEF TokensCarry, CodesGrow
<1>3. \A h \in Hosts : \A t : Ours(h, t) => Ours(h, t)'
  BY <1>1, Zenon DEF Ours, TokensCarry, CodesGrow
<1>4. (\A h \in Hosts : login'[h] = "heard" => login[h] = "heard") => TokensOwned'
  BY <1>1, <1>3, Zenon DEF TokensOwned
<1> QED
  BY <1>2, <1>4, Zenon

LEMMA StartLoginKeeps ==
    ASSUME LinkInv, NEW h \in Hosts, StartLogin(h) PROVE LinkInv'
<1> DEFINE c0 == [host |-> h, status |-> "pending", account |-> NoAccount, expired |-> FALSE]
           n == Len(codes) + 1
<1>1. /\ codes' = Append(codes, c0) /\ login[h] = "idle"
      /\ \/ login' = [login EXCEPT ![h] = "poll"] /\ mine' = [mine EXCEPT ![h] = n]
         \/ UNCHANGED <<login, mine>>
      /\ UNCHANGED <<tokens, saved, answer, approving>>
  BY Zenon DEF StartLogin, Set
<1>2. LinkTyped /\ AccountsApproved /\ CodesKnown
  BY Zenon DEF LinkInv
<1>3. c0 \in Code /\ c0.host = h /\ c0.account = NoAccount
  BY ZenonT(40) DEF Code
<1> HIDE DEF c0
<1>4. codes \in Seq(Code) /\ codes' \in Seq(Code) /\ n \in Nat
  BY <1>1, <1>2, <1>3 DEF LinkTyped
<1>5. /\ DOMAIN codes = 1..Len(codes) /\ DOMAIN codes' = 1..n /\ codes'[n] = c0
      /\ \A c \in DOMAIN codes : codes'[c] = codes[c]
  BY <1>1, <1>3, <1>4
<1>6. n \in DOMAIN codes' /\ \A c \in DOMAIN codes' : c \in DOMAIN codes \/ c = n
  BY <1>4, <1>5
<1> HIDE DEF n
<1>7. CodesGrow
  BY <1>4, <1>5 DEF CodesGrow, n
<1>8. LinkTyped'
  BY <1>1, <1>2, <1>4, ZenonT(40) DEF LinkTyped
<1>9. AccountsApproved'
  BY <1>2, <1>3, <1>5, <1>6, Zenon DEF AccountsApproved
<1>10. CodesKnown'
  <2>1. \A c \in DOMAIN codes : c \in DOMAIN codes' /\ codes'[c].host = codes[c].host
    BY <1>7, Zenon DEF CodesGrow
  <2>2. ASSUME NEW g \in Hosts, login'[g] # "idle"
        PROVE  mine'[g] \in DOMAIN codes' /\ codes'[mine'[g]].host = g
    <3>1. CASE UNCHANGED <<login, mine>>
      BY <1>2, <2>1, <2>2, <3>1, ZenonT(40) DEF CodesKnown
    <3>2. CASE login' = [login EXCEPT ![h] = "poll"] /\ mine' = [mine EXCEPT ![h] = n]
      <4>1. CASE g = h
        BY <1>2, <1>3, <1>5, <1>6, <3>2, <4>1, ZenonT(40) DEF LinkTyped
      <4>2. CASE g # h
        BY <1>2, <2>1, <2>2, <3>2, <4>2, ZenonT(40) DEF LinkTyped, CodesKnown
      <4> QED
        BY <4>1, <4>2, Zenon
    <3> QED
      BY <1>1, <3>1, <3>2, Zenon
  <2>3. \A a \in Accounts : approving'[a] # NoCode => approving'[a] \in DOMAIN codes'
    BY <1>1, <1>2, <2>1, Zenon DEF CodesKnown
  <2> QED
    BY <2>2, <2>3, Zenon DEF CodesKnown
<1>11. \A g \in Hosts : login'[g] = "heard" => login[g] = "heard"
  BY <1>1, <1>2, Zenon DEF LinkTyped
<1> QED
  BY <1>1, <1>7, <1>8, <1>9, <1>10, <1>11, GrowKeepsTokens, ZenonT(40) DEF LinkInv

(* A code that is pending may get an account, or expire.                   *)
LEMMA CodeStepKeeps ==
    ASSUME LinkInv, NEW c \in DOMAIN codes, NEW r \in Code, r.host = codes[c].host,
           codes[c].status = "approved" => r.status = "approved" /\ r.account = codes[c].account,
           r.account # NoAccount => r.status = "approved",
           codes' = [codes EXCEPT ![c] = r],
           NEW b \in [Accounts -> Nat], approving' = b,
           \A a \in Accounts : b[a] \in {approving[a], NoCode},
           UNCHANGED <<tokens, saved, login, mine, answer>>
    PROVE  LinkInv' /\ CodesGrow
<1>1. LinkTyped /\ AccountsApproved /\ CodesKnown /\ codes \in Seq(Code)
  BY Zenon DEF LinkInv, LinkTyped
<1>2. /\ codes' \in Seq(Code) /\ DOMAIN codes' = DOMAIN codes /\ codes'[c] = r
      /\ \A d \in DOMAIN codes : d # c => codes'[d] = codes[d]
  BY <1>1
<1>3. CodesGrow
  BY <1>2, Zenon DEF CodesGrow
<1>4. LinkTyped'
  BY <1>1, <1>2, Zenon DEF LinkTyped
<1>5. AccountsApproved'
  BY <1>1, <1>2, Zenon DEF AccountsApproved
<1>6. CodesKnown'
  <2>1. \A d \in DOMAIN codes : d \in DOMAIN codes' /\ codes'[d].host = codes[d].host
    BY <1>3, Zenon DEF CodesGrow
  <2> QED
    BY <1>1, <2>1, Zenon DEF CodesKnown
<1> QED
  BY <1>3, <1>4, <1>5, <1>6, GrowKeepsTokens, ZenonT(40) DEF LinkInv

(* The steps of the machine that leave codes and tokens alone.             *)
LEMMA HostStepKeeps ==
    ASSUME LinkInv, NEW h \in Hosts, NEW l \in {"idle", "poll", "asked", "heard"},
           NEW s \in Int, NEW m \in Nat, NEW w \in [kind : {"none", "pending", "lost", "gone", "token"}, token : Nat],
           login' = [login EXCEPT ![h] = l], saved' = [saved EXCEPT ![h] = s],
           mine' = [mine EXCEPT ![h] = m], answer' = [answer EXCEPT ![h] = w],
           l # "idle" => m = mine[h] /\ login[h] # "idle",
           s \notin {0, HalfToken} => Ours(h, s), w.kind = "token" => Ours(h, w.token), l = "heard" => w.kind # "none",
           UNCHANGED <<codes, tokens, approving>>
    PROVE  LinkInv'
<1>1. LinkTyped /\ AccountsApproved /\ TokensCarry /\ CodesKnown /\ TokensOwned
  BY Zenon DEF LinkInv
<1>2. LinkTyped'
  BY <1>1, Zenon DEF LinkTyped
<1>3. /\ login'[h] = l /\ saved'[h] = s /\ mine'[h] = m /\ answer'[h] = w
      /\ \A g \in Hosts : g # h => /\ login'[g] = login[g] /\ saved'[g] = saved[g]
                                   /\ mine'[g] = mine[g] /\ answer'[g] = answer[g]
  BY <1>1, Zenon DEF LinkTyped
<1>4. AccountsApproved' /\ TokensCarry'
  BY <1>1, ZenonT(40) DEF AccountsApproved, TokensCarry
<1>5. CodesKnown'
  BY <1>1, <1>3 DEF CodesKnown
<1>6. \A g, t : Ours(g, t)' <=> Ours(g, t)
  BY ZenonT(40) DEF Ours
<1>7. \A g \in Hosts : /\ saved'[g] \notin {0, HalfToken} => Ours(g, saved'[g])
                       /\ answer'[g].kind = "token" => Ours(g, answer'[g].token)
                       /\ login'[g] = "heard" => answer'[g].kind # "none"
  BY <1>1, <1>3 DEF TokensOwned
<1>8. TokensOwned'
  BY <1>6, <1>7, Zenon DEF TokensOwned, Ours
<1> QED
  BY <1>2, <1>4, <1>5, <1>8, Zenon DEF LinkInv

LEMMA PlainIsAnswer ==
    ASSUME NEW k \in {"none", "pending", "lost", "gone"}
    PROVE  /\ Plain(k) \in [kind : {"none", "pending", "lost", "gone", "token"}, token : Nat]
           /\ Plain(k).kind = k /\ Plain(k).kind # "token"
BY Zenon DEF Plain

LEMMA ClientKeeps ==
    ASSUME LinkInv, NEW h \in Hosts, GiveUp(h) \/ Poll(h) \/ Hear(h) \/ Logout(h)
    PROVE  LinkInv'
<1> DEFINE Answer == [kind : {"none", "pending", "lost", "gone", "token"}, token : Nat]
<1>1. /\ saved \in [Hosts -> Int] /\ mine \in [Hosts -> Nat] /\ answer \in [Hosts -> Answer]
      /\ login \in [Hosts -> {"idle", "poll", "asked", "heard"}]
  BY Zenon DEF LinkInv, LinkTyped
<1>2. /\ saved[h] \notin {0, HalfToken} => Ours(h, saved[h])
      /\ answer[h].kind = "token" => Ours(h, answer[h].token)
      /\ login[h] = "heard" => answer[h].kind # "none"
  BY Zenon DEF LinkInv, TokensOwned
<1>3. /\ saved = [saved EXCEPT ![h] = saved[h]] /\ mine = [mine EXCEPT ![h] = mine[h]]
      /\ answer = [answer EXCEPT ![h] = answer[h]] /\ login = [login EXCEPT ![h] = login[h]]
      /\ saved[h] \in Int /\ mine[h] \in Nat /\ answer[h] \in Answer /\ answer[h].token \in Nat
      /\ answer[h].kind \in {"none", "pending", "lost", "gone", "token"}
  BY <1>1, Zenon
<1> HIDE DEF Answer
<1>4. CASE GiveUp(h)
  <2>1. /\ login[h] = "poll" /\ login' = [login EXCEPT ![h] = "idle"] /\ mine' = [mine EXCEPT ![h] = 0]
        /\ saved' = [saved EXCEPT ![h] = saved[h]] /\ answer' = [answer EXCEPT ![h] = answer[h]]
        /\ UNCHANGED <<codes, tokens, approving>>
    BY <1>3, <1>4, Zenon DEF GiveUp, Set, NoCode
  <2> QED
    BY <1>2, <1>3, <2>1, HostStepKeeps, Zenon DEF Answer
<1>5. CASE Poll(h)
  <2>1. PICK l \in {"asked", "heard"}, w \in {answer[h], Plain("lost")} :
           /\ login' = [login EXCEPT ![h] = l] /\ answer' = [answer EXCEPT ![h] = w]
           /\ l = "heard" => w = Plain("lost")
    BY <1>3, <1>5, Zenon DEF Poll, Set
  <2>2. /\ login[h] = "poll" /\ saved' = [saved EXCEPT ![h] = saved[h]] /\ mine' = [mine EXCEPT ![h] = mine[h]]
        /\ UNCHANGED <<codes, tokens, approving>>
    BY <1>3, <1>5, Zenon DEF Poll
  <2>3. w \in Answer /\ (w.kind = "token" => Ours(h, w.token)) /\ (l = "heard" => w.kind # "none")
    BY <1>2, <1>3, <2>1, PlainIsAnswer, ZenonT(40) DEF Answer
  <2> QED
    BY <1>2, <1>3, <2>1, <2>2, <2>3, HostStepKeeps, ZenonT(40) DEF Answer
<1>6. CASE Hear(h)
  <2> DEFINE w == Plain("none")
  <2>1. w \in Answer /\ w.kind # "token"
    BY PlainIsAnswer, Zenon DEF Answer
  <2>2. login[h] = "heard" /\ answer' = [answer EXCEPT ![h] = w] /\ UNCHANGED <<codes, tokens, approving>>
    BY <1>6, Zenon DEF Hear, Set
  <2> HIDE DEF w
  <2>3. CASE answer[h].kind \in {"pending", "lost"}
    <3>1. /\ login' = [login EXCEPT ![h] = "poll"] /\ saved' = [saved EXCEPT ![h] = saved[h]]
          /\ mine' = [mine EXCEPT ![h] = mine[h]]
      BY <1>3, <1>6, <2>3, ZenonT(40) DEF Hear, Set
    <3> QED
      BY <1>2, <1>3, <2>1, <2>2, <3>1, HostStepKeeps, ZenonT(40) DEF Answer
  <2>4. CASE ~(answer[h].kind \in {"pending", "lost"})
    <3>1. PICK s \in {saved[h], answer[h].token, HalfToken, 0} :
             saved' = [saved EXCEPT ![h] = s] /\ (answer[h].kind = "gone" => s = saved[h])
      BY <1>3, <1>6, <2>4, Zenon DEF Hear, Set, SaveToken
    <3>2. login' = [login EXCEPT ![h] = "idle"] /\ mine' = [mine EXCEPT ![h] = 0]
      BY <1>6, <2>4, Zenon DEF Hear, Set, NoCode
    <3>3. answer[h].kind # "gone" => answer[h].kind = "token"
      BY <1>2, <1>3, <2>2, <2>4, Zenon
    <3>4. s \notin {0, HalfToken} => Ours(h, s)
      BY <1>2, <1>3, <3>1, <3>3, ZenonT(40)
    <3>5. s \in Int
      BY <1>3, <3>1 DEF HalfToken
    <3> QED
      BY <2>1, <2>2, <3>1, <3>2, <3>4, <3>5, HostStepKeeps, ZenonT(40) DEF Answer
  <2> QED
    BY <2>3, <2>4, Zenon
<1>7. CASE Logout(h)
  <2>0. 0 \in Int
    OBVIOUS
  <2>1. PICK s \in {0, saved[h]} :
        /\ login[h] = "idle" /\ saved' = [saved EXCEPT ![h] = s] /\ login' = [login EXCEPT ![h] = login[h]]
        /\ mine' = [mine EXCEPT ![h] = mine[h]] /\ answer' = [answer EXCEPT ![h] = answer[h]]
        /\ UNCHANGED <<codes, tokens, approving>>
    BY <1>3, <1>7, Zenon DEF Logout, DeleteToken, Set
  <2>2. s \in Int /\ (s \notin {0, HalfToken} => Ours(h, s))
    BY <1>2, <1>3, <2>0, <2>1, Zenon
  <2> QED
    BY <1>2, <1>3, <2>1, <2>2, HostStepKeeps, Zenon DEF Answer
<1> QED
  BY <1>4, <1>5, <1>6, <1>7, Zenon

(* A token is issued for the code the machine polls for; the answer is the *)
(* token, or lost.                                                         *)
LEMMA IssueKeeps ==
    ASSUME LinkInv, NEW h \in Hosts, NEW w \in [kind : {"none", "pending", "lost", "gone", "token"}, token : Nat],
           login[h] = "asked", codes[mine[h]].status = "approved",
           tokens' = Append(tokens, [code |-> mine[h], account |-> codes[mine[h]].account]),
           w.kind = "token" => w.token = Len(tokens) + 1, w.kind # "none",
           login' = [login EXCEPT ![h] = "heard"], answer' = [answer EXCEPT ![h] = w],
           UNCHANGED <<codes, saved, mine, approving>>
    PROVE  LinkInv'
<1>1. LinkTyped /\ AccountsApproved /\ TokensCarry /\ CodesKnown /\ TokensOwned
  BY ZenonT(40) DEF LinkInv
<1> DEFINE t0 == [code |-> mine[h], account |-> codes[mine[h]].account]
           n == Len(tokens) + 1
           Token == [code : Nat, account : Accounts \union {NoAccount}]
<1>2. mine[h] \in DOMAIN codes /\ codes[mine[h]].host = h /\ codes[mine[h]] \in Code /\ mine[h] \in Nat
  BY <1>1 DEF LinkTyped, CodesKnown
<1>3. t0 \in Token /\ t0.code = mine[h] /\ t0.account = codes[mine[h]].account
  BY <1>2, Zenon DEF Code
<1>4. tokens \in Seq(Token) /\ tokens' = Append(tokens, t0)
  BY <1>1, ZenonT(40) DEF LinkTyped
<1> HIDE DEF t0, Token
<1>5. tokens' \in Seq(Token)
  BY <1>3, <1>4
<1>6. /\ n \in DOMAIN tokens' /\ tokens'[n] = t0
      /\ \A t \in DOMAIN tokens : t \in DOMAIN tokens' /\ tokens'[t] = tokens[t]
      /\ \A t \in DOMAIN tokens' : t \in DOMAIN tokens \/ t = n
  BY <1>3, <1>4
<1> HIDE DEF n
<1>7. /\ login'[h] = "heard" /\ answer'[h] = w
      /\ \A g \in Hosts : g # h => login'[g] = login[g] /\ answer'[g] = answer[g]
  BY <1>1, Zenon DEF LinkTyped
<1>8. LinkTyped'
  BY <1>1, <1>5, Zenon DEF LinkTyped, Token
<1>9. AccountsApproved' /\ CodesKnown'
  BY <1>1, <1>2, <1>7, ZenonT(40) DEF AccountsApproved, CodesKnown
<1>10. TokensCarry'
  <2> SUFFICES ASSUME NEW t \in DOMAIN tokens'
               PROVE  /\ tokens'[t].code \in DOMAIN codes'
                      /\ tokens'[t].account = codes'[tokens'[t].code].account
                      /\ codes'[tokens'[t].code].status = "approved"
    BY Zenon DEF TokensCarry
  <2>1. CASE t \in DOMAIN tokens
    BY <1>1, <1>6, <2>1, Zenon DEF TokensCarry
  <2>2. CASE t = n
    BY <1>1, <1>2, <1>3, <1>6, <2>2, Zenon
  <2> QED
    BY <1>6, <2>1, <2>2, Zenon
<1>11. \A g, t : Ours(g, t) => t \in DOMAIN tokens' /\ codes'[tokens'[t].code].host = g
  BY <1>6, Zenon DEF Ours
<1>12. w.kind = "token" => w.token \in DOMAIN tokens' /\ codes'[tokens'[w.token].code].host = h
  BY <1>2, <1>3, <1>6, Zenon DEF n
<1>13. \A g \in Hosts : /\ saved[g] \notin {0, HalfToken} => Ours(g, saved[g])
                        /\ answer[g].kind = "token" => Ours(g, answer[g].token)
                        /\ login[g] = "heard" => answer[g].kind # "none"
  BY <1>1, Zenon DEF TokensOwned
<1>14. TokensOwned'
  <2> SUFFICES ASSUME NEW g \in Hosts
               PROVE  /\ saved'[g] \notin {0, HalfToken} => Ours(g, saved[g])'
                      /\ answer'[g].kind = "token" => Ours(g, answer[g].token)'
                      /\ login'[g] = "heard" => answer'[g].kind # "none"
    BY Zenon DEF TokensOwned
  <2>1. \A t : Ours(g, t) => t \in DOMAIN tokens' /\ codes'[tokens'[t].code].host = g
    BY <1>11, Zenon
  <2>2. CASE g # h
    <3>1. login'[g] = login[g] /\ answer'[g] = answer[g] /\ saved'[g] = saved[g]
      BY <1>7, <2>2, Zenon
    <3>2. saved'[g] \notin {0, HalfToken} => Ours(g, saved[g])'
      BY <1>13, <2>1, Zenon DEF Ours
    <3>3. answer'[g].kind = "token" => Ours(g, answer[g].token)'
      <4>1. answer[g].kind = "token" =>
               answer[g].token \in DOMAIN tokens' /\ codes'[tokens'[answer[g].token].code].host = g
        BY <1>13, <2>1, Zenon
      <4>2. answer'[g].kind = "token" =>
               answer'[g].token \in DOMAIN tokens' /\ codes'[tokens'[answer'[g].token].code].host = g
        BY <3>1, <4>1
      <4> QED
        BY <4>2, Zenon DEF Ours
    <3>4. login'[g] = "heard" => answer'[g].kind # "none"
      BY <1>13, <3>1, Zenon
    <3> QED
      BY <3>2, <3>3, <3>4, Zenon
  <2>3. CASE g = h
    <3>1. saved'[g] \notin {0, HalfToken} => Ours(g, saved[g])'
      BY <1>13, <2>1, Zenon DEF Ours
    <3>2. answer'[g].kind = "token" => Ours(g, answer[g].token)'
      BY <1>7, <1>12, <2>3, Zenon DEF Ours
    <3>3. answer'[g].kind # "none"
      BY <1>7, <2>3, Zenon
    <3> QED
      BY <3>1, <3>2, <3>3, Zenon
  <2> QED
    BY <2>2, <2>3, Zenon
<1> QED
  BY <1>8, <1>9, <1>10, <1>14, Zenon DEF LinkInv

LEMMA DeviceTokenKeeps ==
    ASSUME LinkInv, NEW h \in Hosts, DeviceToken(h) PROVE LinkInv'
<1> DEFINE Answer == [kind : {"none", "pending", "lost", "gone", "token"}, token : Nat]
<1>1. /\ login[h] = "asked" /\ login' = [login EXCEPT ![h] = "heard"] /\ UNCHANGED <<codes, saved, mine, approving>>
  BY Zenon DEF DeviceToken, Set
<1>2. CASE \E k \in {"pending", "lost", "gone"} : answer' = [answer EXCEPT ![h] = Plain(k)] /\ UNCHANGED tokens
  <2>1. PICK k \in {"pending", "lost", "gone"} : answer' = [answer EXCEPT ![h] = Plain(k)] /\ UNCHANGED tokens
    BY <1>2, Zenon
  <2>2. /\ saved \in [Hosts -> Int] /\ mine \in [Hosts -> Nat] /\ (saved[h] \notin {0, HalfToken} => Ours(h, saved[h]))
    BY Zenon DEF LinkInv, LinkTyped, TokensOwned
  <2>3. /\ saved' = [saved EXCEPT ![h] = saved[h]] /\ mine' = [mine EXCEPT ![h] = mine[h]]
        /\ saved[h] \in Int /\ mine[h] \in Nat
    BY <1>1, <2>2, Zenon
  <2> DEFINE w == Plain(k)
  <2>4. w \in Answer /\ w.kind # "token" /\ w.kind # "none" /\ answer' = [answer EXCEPT ![h] = w]
    BY <2>1, PlainIsAnswer, Zenon
  <2> HIDE DEF w
  <2>5. UNCHANGED <<codes, tokens, approving>>
    BY <1>1, <2>1, Zenon
  <2> QED
    BY <1>1, <2>2, <2>3, <2>4, <2>5, HostStepKeeps, Zenon
<1>3. CASE /\ codes[mine[h]].status = "approved"
           /\ tokens' = Append(tokens, [code |-> mine[h], account |-> codes[mine[h]].account])
           /\ \E w \in {[kind |-> "token", token |-> Len(tokens) + 1], Plain("lost")} :
                 answer' = [answer EXCEPT ![h] = w]
  <2>1. PICK w \in {[kind |-> "token", token |-> Len(tokens) + 1], Plain("lost")} :
           answer' = [answer EXCEPT ![h] = w]
    BY <1>3, Zenon
  <2>2. Len(tokens) + 1 \in Nat
    BY DEF LinkInv, LinkTyped
  <2>3. w \in Answer /\ w.kind # "none" /\ (w.kind = "token" => w.token = Len(tokens) + 1)
    BY <2>1, <2>2, PlainIsAnswer
  <2> QED
    BY <1>1, <1>3, <2>1, <2>3, IssueKeeps, ZenonT(40)
<1> QED
  BY <1>2, <1>3, Zenon DEF DeviceToken, Issue, Set, Last

(* Approvals and expiry.                                                   *)
LEMMA CodeActionKeeps ==
    ASSUME LinkInv, \/ \E a \in Accounts : ApproveDeviceCode(a) \/ \E c \in Known : CheckCode(a, c)
                    \/ \E c \in Known : CodeExpires(c)
    PROVE  LinkInv' /\ CodesGrow
<1>1. /\ codes \in Seq(Code) /\ approving \in [Accounts -> Nat] /\ DOMAIN codes \subseteq Nat
      /\ \A c \in DOMAIN codes : codes[c] \in Code
      /\ \A c \in DOMAIN codes : codes[c].account # NoAccount => codes[c].status = "approved"
  BY DEF LinkInv, LinkTyped, AccountsApproved
<1>2. ASSUME NEW a \in Accounts, ApproveDeviceCode(a) PROVE LinkInv' /\ CodesGrow
  <2> DEFINE c == approving[a]
             r == IF codes[c].status # "pending" THEN codes[c]
                  ELSE IF codes[c].expired THEN [codes[c] EXCEPT !.status = "expired"]
                  ELSE [codes[c] EXCEPT !.status = "approved", !.account = a]
             b == [approving EXCEPT ![a] = 0]
  <2>1. c \in DOMAIN codes
    BY <1>2, Zenon DEF LinkInv, CodesKnown, ApproveDeviceCode
  <2>2. /\ r \in Code /\ r.host = codes[c].host
        /\ codes[c].status = "approved" => r.status = "approved" /\ r.account = codes[c].account
        /\ r.account # NoAccount => r.status = "approved"
    BY <1>1, <2>1, ZenonT(40) DEF Code
  <2>3. codes' = [codes EXCEPT ![c] = r]
    <3>1. CASE codes[c].status # "pending"
      BY <1>1, <1>2, <2>1, <3>1 DEF ApproveDeviceCode
    <3>2. CASE codes[c].status = "pending" /\ codes[c].expired
      BY <1>1, <1>2, <2>1, <3>2, ZenonT(40) DEF ApproveDeviceCode
    <3>3. CASE codes[c].status = "pending" /\ ~codes[c].expired
      <4>1. codes' = [codes EXCEPT ![c].status = "approved", ![c].account = a]
        BY <1>2, <3>3, Zenon DEF ApproveDeviceCode
      <4>2. codes' = [codes EXCEPT ![c] = [codes[c] EXCEPT !.status = "approved", !.account = a]]
        BY <1>1, <2>1, <4>1, Zenon
      <4> QED
        BY <3>3, <4>2, Zenon
    <3> QED
      BY <3>1, <3>2, <3>3, Zenon
  <2>4. /\ approving' = b /\ b \in [Accounts -> Nat] /\ \A d \in Accounts : b[d] \in {approving[d], NoCode}
        /\ UNCHANGED <<tokens, saved, login, mine, answer>>
    BY <1>1, <1>2, Zenon DEF ApproveDeviceCode, Set, NoCode
  <2> HIDE DEF c, r, b
  <2> QED
    BY <2>1, <2>2, <2>3, <2>4, CodeStepKeeps, ZenonT(40)
<1>3. ASSUME NEW a \in Accounts, NEW c \in Known, CheckCode(a, c) PROVE LinkInv' /\ CodesGrow
  <2>1. approving' = [approving EXCEPT ![a] = c] /\ UNCHANGED <<codes, tokens, saved, login, mine, answer>> /\ c \in DOMAIN codes
    BY <1>3, Zenon DEF CheckCode, Set, Known
  <2>2. CodesGrow
    BY <2>1, Zenon DEF CodesGrow
  <2>3. LinkTyped' /\ AccountsApproved'
    BY <1>1, <2>1, Zenon DEF LinkInv, LinkTyped, AccountsApproved
  <2>4. CodesKnown'
    BY <1>1, <2>1, Zenon DEF LinkInv, CodesKnown
  <2> QED
    BY <2>1, <2>2, <2>3, <2>4, GrowKeepsTokens, ZenonT(40) DEF LinkInv
<1>4. ASSUME NEW c \in Known, CodeExpires(c) PROVE LinkInv' /\ CodesGrow
  <2> DEFINE r == [codes[c] EXCEPT !.expired = TRUE]
  <2>1. c \in DOMAIN codes
    BY Zenon DEF Known
  <2>2. /\ r \in Code /\ r.host = codes[c].host /\ r.status = codes[c].status /\ r.account = codes[c].account
    BY <1>1, <2>1, Zenon DEF Code
  <2>3. codes' = [codes EXCEPT ![c] = r]
    BY <1>1, <1>4, <2>1, Zenon DEF CodeExpires
  <2>4. /\ approving' = approving /\ \A d \in Accounts : approving[d] \in {approving[d], NoCode}
        /\ UNCHANGED <<tokens, saved, login, mine, answer>>
    BY <1>4, Zenon DEF CodeExpires
  <2> HIDE DEF r
  <2> QED
    BY <1>1, <2>1, <2>2, <2>3, <2>4, CodeStepKeeps, ZenonT(40)
<1> QED
  BY <1>2, <1>3, <1>4, ZenonT(40)

LEMMA LinkNextInv == LinkInv /\ [LinkNext]_linkVars => LinkInv'
<1> SUFFICES ASSUME LinkInv, [LinkNext]_linkVars PROVE LinkInv'
  BY Zenon
<1>1. CASE UNCHANGED linkVars
  BY <1>1, Zenon DEF linkVars, LinkInv, LinkTyped, AccountsApproved, TokensCarry, CodesKnown, TokensOwned, Ours
<1> QED
  BY <1>1, StartLoginKeeps, ClientKeeps, DeviceTokenKeeps, CodeActionKeeps, Zenon DEF LinkNext

(* The link of a machine: the token it saved is of a code it showed, and   *)
(* for the account that approved this code, whoever polls, approves or     *)
(* loses messages at the same time; and that account is never replaced.    *)
THEOREM LinksAreApproved == LinkSpec => LinkIsApproved
<1>1. LinkInv => LinkedToApprover
  BY Zenon DEF LinkInv, TokensCarry, TokensOwned, LinkedToApprover, Ours
<1>2. LinkInv /\ [LinkNext]_linkVars =>
         [\A c \in Known : codes[c].account # NoAccount => codes'[c].account = codes[c].account]_linkVars
  <2> SUFFICES ASSUME LinkInv, LinkNext
               PROVE  \A c \in Known : codes[c].account # NoAccount => codes'[c].account = codes[c].account
    BY Zenon
  <2>1. AccountsApproved /\ codes \in Seq(Code)
    BY Zenon DEF LinkInv, LinkTyped
  <2>2. CASE CodesGrow
    BY <2>1, <2>2, Zenon DEF CodesGrow, AccountsApproved, Known
  <2>3. CASE codes' = codes
    BY <2>3, Zenon
  <2>4. CASE \E h \in Hosts : StartLogin(h)
    <3>1. PICK x : codes' = Append(codes, x)
      BY <2>4, Zenon DEF StartLogin
    <3>2. \A c \in DOMAIN codes : codes'[c] = codes[c]
      BY <2>1, <3>1
    <3> QED
      BY <3>2, Zenon DEF Known
  <2> QED
    BY <2>2, <2>3, <2>4, CodeActionKeeps, ZenonT(40) DEF LinkNext, GiveUp, Poll, Hear, Logout, DeviceToken
<1> QED
  BY LinkInitInv, LinkNextInv, <1>1, <1>2, PTL DEF LinkSpec, LinkIsApproved, OneApproval

=============================================================================
