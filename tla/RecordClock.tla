---------------------------- MODULE RecordClock ----------------------------
(***************************************************************************)
(* The file clock of a channel (vlfchannel.cpp:206-255).  Status packages  *)
(* give the date, business packages a time of day; the channel joins the   *)
(* two, makes a directory for every day and names a new file for every     *)
(* Step seconds.  Nothing but last_datetime says which file is the current *)
(* one, and nothing but the date of the next status package says that      *)
(* midnight has passed.                                                    *)
(*                                                                         *)
(* A point in time is a number of seconds: package times lose their        *)
(* fraction, because toUInt (line 212) reads decimal digits and the four   *)
(* bytes are a binary number.                                              *)
(***************************************************************************)
EXTENDS Integers

CONSTANTS
  Step,   \* seconds per file (10)
  Minute, \* seconds per minute
  Day,    \* seconds per day
  Days,   \* the dates a status package may carry
  Never   \* an invalid date or point in time

ASSUME ClockAssumption ==
  /\ {Step, Minute, Day} \subseteq Nat \ {0}
  /\ Minute % Step = 0 /\ Day % Minute = 0
  /\ Days \subseteq Nat /\ Never \notin Int

VARIABLES
  date,   \* date part of current_datetime
  time,   \* time part of current_datetime
  last,   \* last_datetime, the point in time that names the file
  dir,    \* day of the writer's directory
  at      \* history: current_datetime a package was last judged by

clockVars == <<date, time, last, dir, at>>

ClockInit ==
  /\ date = Never /\ time = 0
  /\ last = Never /\ dir = Never
  /\ at = Never

(* msecsTo and the dates know invalid points in time.                     *)
Point(d, t) == IF d = Never THEN Never ELSE d * Day + t
DayOf(p) == IF p = Never THEN Never ELSE p \div Day

(* Division as C++ does it, towards zero.                                  *)
Quotient(a, b) == IF a < 0 THEN -((-a) \div b) ELSE a \div b

(* Steps from one point to the other; msecsTo is 0 if one is invalid.      *)
Passed(from, to) ==
  IF from = Never \/ to = Never THEN 0 ELSE Quotient(to - from, Step)

(* roundSeconds: to the nearest step; a full minute becomes the beginning  *)
(* of the same minute.                                                     *)
RoundSeconds(p) ==
  LET second == p % Minute
      rounded == Step * ((2 * second + Step) \div (2 * Step))
  IN  p - second + IF rounded = Minute THEN 0 ELSE rounded

(* slot_device_info_update: a status package brings a date.                *)
SetDate(d) ==
  /\ date' = d
  /\ UNCHANGED <<time, last, dir, at>>

(* last_datetime as it is compared with a package's time: the first        *)
(* package that has a date sets it.                                        *)
Start(now) ==
  IF last = Never /\ now # Never THEN RoundSeconds(now) ELSE last

(* Mutant: the time of day alone decides.                                  *)
NewLastOfDay(from, now) ==
  IF from = Never \/ now = Never THEN from
  ELSE from + Step * Quotient((now % Day) - (from % Day), Step)

(* Mutant: one step at a time.                                             *)
NewLastOneStep(from, now) ==
  IF Passed(from, now) = 0 THEN from ELSE from + Step

(* Mutant: the file's time is the package's, rounded.                      *)
NewLastRounded(from, now) ==
  IF Passed(from, now) = 0 THEN from ELSE RoundSeconds(now)

(* last_datetime after a package: as many full steps on as have passed.    *)
NewLast(from, now) ==
  IF Passed(from, now) = 0 THEN from ELSE from + Step * Passed(from, now)

(* The date follows when the file's has changed.                           *)
NewDate(from, new) == IF DayOf(new) # DayOf(from) THEN DayOf(new) ELSE date

(* A business package with time of day t.                                  *)
Package(t) ==
  LET now == Point(date, t)
  IN  /\ time' = t
      /\ dir' = date
      /\ last' = NewLast(Start(now), now)
      /\ date' = NewDate(Start(now), last')
      /\ at' = now

Times == 0 .. Day - 1

ClockNext ==
  \/ \E d \in Days \cup {Never} : SetDate(d)
  \/ \E t \in Times : Package(t)

ClockSpec == ClockInit /\ [][ClockNext]_clockVars

-----------------------------------------------------------------------------
ClockTypeOK ==
  /\ date \in Nat \cup {Never} /\ dir \in Nat \cup {Never}
  /\ time \in Times
  /\ last \in Nat \cup {Never} /\ at \in Nat \cup {Never}

(* A package is recorded under a name less than a step from its own time,  *)
(* however far time has moved since the package before, over lost packages *)
(* and changes of the date, forwards and back (vlfchannel.cpp:239-242).    *)
NameIsNear ==
  [][\A t \in Times : Package(t) /\ date # Never
       => last' - Point(date, t) \in 1 - Step .. Step - 1]_clockVars

(* The file lies in the directory of the day in its own name, which is     *)
(* chosen before the file, except the first file of a day: that one may    *)
(* lie in the directory of the day before (vlfchannel.cpp:218, 239-244).   *)
DirectoryOfTheDay ==
  [][\A t \in Times : Package(t) /\ date # Never
       => DayOf(last') = dir' \/ last' = Day * (dir' + 1)]_clockVars

(* As long as time goes on, files are named in the order of time: no       *)
(* package goes to a file that was left before (vlfchannel.cpp:239-242).   *)
FilesAdvance ==
  [][\A t \in Times :
       Package(t) /\ at # Never /\ date # Never /\ at <= Point(date, t)
         => last <= last']_clockVars

(* What the comment in line 245 promises: when package times pass midnight *)
(* the local date goes up by one.                                          *)
DateAdvancesAtMidnight ==
  [][\A t \in Times :
       Package(t) /\ at # Never /\ date = DayOf(at) /\ at % Day >= Day - Step
         /\ t < Step
         => date' = date + 1]_clockVars
=============================================================================
