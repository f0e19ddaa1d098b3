--------------------------- MODULE EebusDateTime ---------------------------
(***************************************************************************)
(* Dates, times and durations of src/src/common/eebus_date_time.  The text *)
(* of a duration is abstracted to its parts: a sign and a sequence of      *)
(* parts, each the letter T or a number, an optional fraction in           *)
(* milliseconds and a designator.  NoDigits stands for a part without      *)
(* digits before its point, as in PT.500S.                                 *)
(***************************************************************************)
EXTENDS Integers, Sequences, SequencesExt, TLC

CONSTANTS NoDigits, \* a part of a duration's text without a whole number
          NoText    \* the null pointer that a failed conversion returns

Fields == {"years", "months", "days", "hours", "minutes", "seconds", "milliseconds"}

ZeroDuration == [f \in Fields |-> 0]

TimeMark == [unit |-> "T", num |-> 0, frac |-> 0, point |-> FALSE]

InvertSign(d) == [f \in Fields |-> -d[f]]

DurationIsZero(d) == d = ZeroDuration

DurationIsNegative(d) == ~DurationIsZero(d) /\ \A f \in Fields : d[f] <= 0

DurationIsPositive(d) == ~DurationIsZero(d) /\ \A f \in Fields : d[f] >= 0

DurationIsValid(d) ==
    DurationIsZero(d) \/ DurationIsNegative(d) \/ DurationIsPositive(d)

(* The field a designator sets; M means months before the T and minutes    *)
(* after it.                                                               *)
FieldOf(unit, isTime) ==
    CASE unit = "H" /\ isTime  -> "hours"
      [] unit = "M" /\ isTime  -> "minutes"
      [] unit = "S" /\ isTime  -> "seconds"
      [] unit = "Y" /\ ~isTime -> "years"
      [] unit = "M" /\ ~isTime -> "months"
      [] unit = "D" /\ ~isTime -> "days"
      [] OTHER                 -> "none"

(* One turn of the loop of EebusDurationParse.  A part with a point is     *)
(* read as seconds whether or not the T came before.                       *)
ParsePart(st, p) ==
    IF ~st.ok THEN st
    ELSE IF p.unit = "T"
         THEN IF st.isTime THEN [st EXCEPT !.ok = FALSE] ELSE [st EXCEPT !.isTime = TRUE]
    ELSE IF p.num = NoDigits THEN [st EXCEPT !.ok = FALSE]
    ELSE IF p.point
         THEN IF p.unit # "S" THEN [st EXCEPT !.ok = FALSE]
              ELSE [st EXCEPT !.d.seconds = p.num, !.d.milliseconds = p.frac]
    ELSE LET f == FieldOf(p.unit, st.isTime)
         IN  IF f = "none" THEN [st EXCEPT !.ok = FALSE] ELSE [st EXCEPT !.d[f] = p.num]

(* EebusDurationParse: NoText when the text is not a duration.             *)
DurationParse(s) ==
    LET last == FoldLeft(ParsePart, [ok |-> TRUE, isTime |-> FALSE, d |-> ZeroDuration], s.parts)
    IN  IF ~last.ok THEN NoText
        ELSE IF s.sign = "-" THEN InvertSign(last.d) ELSE last.d

AbsOf(n) == IF n < 0 THEN -n ELSE n

(* print_non_zero: a component that is zero leaves no text.                *)
PrintNonZero(n, unit) ==
    IF n = 0 THEN <<>>
    ELSE <<[unit |-> unit, num |-> AbsOf(n), frac |-> 0, point |-> FALSE]>>

(* The seconds: with milliseconds the whole part and the fraction are      *)
(* printed by two calls, each of which skips a zero.                       *)
PrintSeconds(d) ==
    IF d.milliseconds = 0 THEN PrintNonZero(d.seconds, "S")
    ELSE <<[unit |-> "S", frac |-> AbsOf(d.milliseconds), point |-> TRUE,
            num |-> IF d.seconds = 0 THEN NoDigits ELSE AbsOf(d.seconds)]>>

HasTime(d) == \E f \in {"hours", "minutes", "seconds", "milliseconds"} : d[f] # 0

(* EebusDurationToString.                                                  *)
DurationToString(d) ==
    IF ~DurationIsValid(d) THEN NoText
    ELSE IF DurationIsZero(d)
    THEN [sign |-> "", parts |-> <<TimeMark, [unit |-> "S", num |-> 0, frac |-> 0, point |-> FALSE]>>]
    ELSE [sign  |-> IF DurationIsNegative(d) THEN "-" ELSE "",
          parts |-> PrintNonZero(d.years, "Y") \o PrintNonZero(d.months, "M")
                    \o PrintNonZero(d.days, "D")
                    \o IF ~HasTime(d) THEN <<>>
                       ELSE <<TimeMark>> \o PrintNonZero(d.hours, "H")
                            \o PrintNonZero(d.minutes, "M") \o PrintSeconds(d)]

(* C division truncates towards zero.                                      *)
Quot(a, b) == IF a < 0 THEN -((-a) \div b) ELSE a \div b

DurationToSeconds(d) ==
    IF ~DurationIsValid(d) THEN 0
    ELSE d.years * 31536000 + d.months * 2592000 + d.days * 86400
         + d.hours * 3600 + d.minutes * 60 + d.seconds + Quot(d.milliseconds, 1000)

Significance ==
    <<"years", "months", "days", "hours", "minutes", "seconds", "milliseconds">>

(* EebusDurationCompare: the components are compared in order of           *)
(* significance, never normalised.                                         *)
DurationCompare(a, b) ==
    IF ~DurationIsValid(a) \/ ~DurationIsValid(b) THEN 0
    ELSE LET k == SelectInSeq(Significance, LAMBDA f : a[f] # b[f])
         IN  IF k = 0 THEN 0
             ELSE IF a[Significance[k]] < b[Significance[k]] THEN -1 ELSE 1

-----------------------------------------------------------------------------
(* Dates and times of day                                                  *)

DaysPerMonth == <<31, 28, 31, 30, 31, 30, 31, 31, 30, 31, 30, 31>>

GetDaysInMonthNum(dt) ==
    LET IsLeapYear == (dt.year % 4 = 0 /\ dt.year % 100 # 0) \/ dt.year % 400 = 0
    IN  IF dt.month \notin 1..12 THEN 0
        ELSE IF dt.month = 2 /\ IsLeapYear THEN 29
        ELSE DaysPerMonth[dt.month]

DateIsValid(dt) ==
    /\ dt.year \in 0..2100 /\ dt.month \in 1..12
    /\ dt.day \in 1..GetDaysInMonthNum(dt)

TimeIsValid(dt) == dt.hour \in 0..23 /\ dt.min \in 0..59 /\ dt.sec \in 0..59

DateTimeIsValid(dt) == DateIsValid(dt) /\ TimeIsValid(dt)

Cmp(a, b) == a - b

DateCompare(a, b) ==
    CASE a.year # b.year   -> Cmp(a.year, b.year)
      [] a.month # b.month -> Cmp(a.month, b.month)
      [] OTHER             -> Cmp(a.day, b.day)

TimeCompare(a, b) ==
    CASE a.hour # b.hour -> Cmp(a.hour, b.hour)
      [] a.min # b.min   -> Cmp(a.min, b.min)
      [] OTHER           -> Cmp(a.sec, b.sec)

DateTimeCompare(a, b) ==
    IF DateCompare(a, b) # 0 THEN DateCompare(a, b) ELSE TimeCompare(a, b)

(* Text of a date and time: its numbers; parsing checks their ranges.      *)
DateToString(dt) == IF DateIsValid(dt) THEN <<dt.year, dt.month, dt.day>> ELSE NoText

TimeToString(dt) == IF TimeIsValid(dt) THEN <<dt.hour, dt.min, dt.sec>> ELSE NoText

DateTimeToString(dt) ==
    IF DateTimeIsValid(dt) THEN [date |-> DateToString(dt), time |-> TimeToString(dt)] ELSE NoText

DateParse(s) ==
    LET dt == [year |-> s[1], month |-> s[2], day |-> s[3]]
    IN  IF Len(s) = 3 /\ DateIsValid(dt) THEN dt ELSE NoText

TimeParse(s) ==
    LET t == [hour |-> s[1], min |-> s[2], sec |-> s[3]]
    IN  IF Len(s) = 3 /\ TimeIsValid(t) THEN t ELSE NoText

DateTimeParse(s) ==
    LET d == DateParse(s.date)
        t == TimeParse(s.time)
    IN  IF d = NoText \/ t = NoText THEN NoText ELSE d @@ t

(* Mutant: a field that is exactly at its limit is not carried.            *)
NormalizeStrict(n, max) ==
    IF n > max THEN [val |-> n % max, carry |-> n \div max]
    ELSE IF n >= 0 THEN [val |-> n, carry |-> 0]
    ELSE IF (-n) % max = 0 THEN [val |-> 0, carry |-> -((-n) \div max)]
    ELSE [val |-> max - ((-n) % max), carry |-> -(1 + (-n) \div max)]

(* Normalize(field, next, max), as the pair of the new field and the       *)
(* amount carried to the next one.                                         *)
Normalize(n, max) ==
    IF n >= max THEN [val |-> n % max, carry |-> n \div max]
    ELSE IF n >= 0 THEN [val |-> n, carry |-> 0]
    ELSE IF (-n) % max = 0 THEN [val |-> 0, carry |-> -((-n) \div max)]
    ELSE [val |-> max - ((-n) % max), carry |-> -(1 + (-n) \div max)]

NormalizeMonths(dt) ==
    LET r == Normalize(dt.month - 1, 12)
    IN  [dt EXCEPT !.month = r.val + 1, !.year = @ + r.carry]

RECURSIVE DaysForward(_)
DaysForward(dt) ==
    IF dt.day < GetDaysInMonthNum(dt) THEN dt
    ELSE DaysForward(NormalizeMonths([dt EXCEPT !.day = @ - GetDaysInMonthNum(dt),
                                                !.month = @ + 1]))

RECURSIVE DaysBack(_)
DaysBack(dt) ==
    IF dt.day >= 0 THEN dt
    ELSE LET m == NormalizeMonths([dt EXCEPT !.month = @ - 1])
         IN  DaysBack([m EXCEPT !.day = @ + GetDaysInMonthNum(m)])

(* NormalizeDays: the day counts from 0 while whole months are moved.      *)
NormalizeDays(dt) ==
    LET d0 == [dt EXCEPT !.day = @ - 1]
        d1 == IF d0.day > 0 THEN DaysForward(d0) ELSE DaysBack(d0)
    IN  [d1 EXCEPT !.day = @ + 1]

(* EebusDateTimeAddDuration: the years and the milliseconds of the         *)
(* duration are not added, and the months are added last, after the days   *)
(* were brought into their month.                                          *)
DateTimeAddDuration(dt, d) ==
    IF ~DateTimeIsValid(dt) \/ ~DurationIsValid(d) THEN dt
    ELSE LET s == Normalize(dt.sec + d.seconds, 60)
             m == Normalize(dt.min + s.carry + d.minutes, 60)
             h == Normalize(dt.hour + m.carry + d.hours, 24)
             days == NormalizeDays([dt EXCEPT !.sec = s.val, !.min = m.val, !.hour = h.val,
                                              !.day = @ + h.carry + d.days])
         IN  NormalizeMonths([days EXCEPT !.month = @ + d.months])

(* EebusDateTimeNow: the time of day where the device is, zone hours ahead *)
(* of UTC.  Its text ends in Z all the same (DateTimeToString), and what   *)
(* reads the text looks at no zone (DateTimeParse).                        *)
DateTimeNow(utc, zone) == DateTimeAddDuration(utc, [ZeroDuration EXCEPT !.hours = zone])

(* AbsoluteOrRelativeTime: a text that is a duration is one; any other is  *)
(* tried as a date and time.                                               *)
ParseAbsoluteOrRelativeTime(s) ==
    IF "parts" \in DOMAIN s THEN DurationParse(s) ELSE DateTimeParse(s)

(* AbsoluteOrRelativeTimeGetTime: a relative time counts from now.         *)
GetTime(t, now) ==
    IF "years" \in DOMAIN t THEN DateTimeAddDuration(now, t) ELSE t

(* DeviceDiagnosisCommonIsHeartbeatWithinDuration: stamp is the timestamp  *)
(* of the last heartbeat, NoText when there is none, and now what          *)
(* EebusDateTimeNow says at the receiver.                                  *)
IsHeartbeatWithinDuration(stamp, now, d) ==
    /\ stamp # NoText
    /\ DateTimeIsValid(GetTime(stamp, now))
    /\ DateTimeCompare(DateTimeAddDuration(now, InvertSign(d)), GetTime(stamp, now)) <= 0

=============================================================================
