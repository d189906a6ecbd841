------------------------------ MODULE Datetime ------------------------------
(***************************************************************************)
(* Dates and times (lib/datetime.cpp).  A Date is the number of days since *)
(* 06-01, an Instant and a Duration are numbers of minutes; a text of two  *)
(* two-digit numbers is the sequence of the four digits.                   *)
(***************************************************************************)
EXTENDS Integers

kMinutesInHour == 60
kHoursInDay == 24
kDay == kMinutesInHour * kHoursInDay
kMonthBase == 6
kMonthMax == 8

(* The days before each of the four months from June on.                   *)
daysInYear == [k \in 0 .. 3 |-> CASE k = 0 -> 0 [] k = 1 -> 30 [] k = 2 -> 61 [] k = 3 -> 92]

(* Division in C++ rounds towards zero, and % goes with it.                *)
Quotient(a, b) == IF a >= 0 THEN a \div b ELSE -((-a) \div b)
Remainder(a, b) == a - b * Quotient(a, b)

GetNumber(tens, ones) == 10 * tens + ones
SetNumber(i) == <<Quotient(i, 10), Remainder(i, 10)>>
SetNumbers(a, b) == <<SetNumber(a)[1], SetNumber(a)[2], SetNumber(b)[1], SetNumber(b)[2]>>

-----------------------------------------------------------------------------
(* Dates                                                                   *)

DaysFromMd(month, date) ==
  IF month < kMonthBase \/ month > kMonthMax THEN -1 ELSE daysInYear[month - kMonthBase] + date - 1

MdFromDays(days) ==
  LET k == CASE days >= daysInYear[3] -> 3
             [] days >= daysInYear[2] /\ days < daysInYear[3] -> 2
             [] days >= daysInYear[1] /\ days < daysInYear[2] -> 1
             [] OTHER -> 0
  IN  [month |-> kMonthBase + k, date |-> days - daysInYear[k] + 1]

DateOfText(text) == DaysFromMd(GetNumber(text[1], text[2]), GetNumber(text[3], text[4]))
TextOfDate(days) == SetNumbers(MdFromDays(days).month, MdFromDays(days).date)

InRange(days, begin, end) == begin <= days /\ days <= end

-----------------------------------------------------------------------------
(* Instants                                                                *)

MinutesFromHm(hour, minutes) == hour * kMinutesInHour + minutes

(* An instant before the day begins belongs to an earlier day.             *)
DhmFromMinutes(minutes) ==
  LET d      == IF minutes < 0
                THEN Quotient(-minutes, kDay) + IF Remainder(-minutes, kDay) = 0 THEN 0 ELSE 1
                ELSE 0
      inDays == minutes + d * kDay
      hours  == Quotient(inDays, kMinutesInHour)
  IN  [days |-> IF minutes < 0 THEN -d ELSE Quotient(hours, kHoursInDay),
       hours |-> Remainder(hours, kHoursInDay),
       minutes |-> Remainder(inDays, kMinutesInHour)]

DaysOverflow(instant) == DhmFromMinutes(instant).days
WithoutOverflow(instant) == Remainder(instant, kDay)

InstantOfText(text) == MinutesFromHm(GetNumber(text[1], text[2]), GetNumber(text[3], text[4]))
TextOfInstant(instant) == SetNumbers(DhmFromMinutes(instant).hours, DhmFromMinutes(instant).minutes)

FormatDateTime(days, instant) == <<TextOfDate(days + DaysOverflow(instant)), TextOfInstant(instant)>>

=============================================================================
