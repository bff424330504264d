------------------------------- MODULE Dates -------------------------------
(***************************************************************************)
(* The date rules of rules/format.c: one call on a value and, for the four *)
(* comparisons, the value of another field.  Dates are parsed by PHP,      *)
(* twice each: to see whether the text fits a format without a warning,    *)
(* and for its timestamp.  A format without a time takes the time of day   *)
(* at which it is parsed, and the clock moves on meanwhile.  PHP may also  *)
(* throw (a text with a zero byte); a call made with an exception pending  *)
(* does nothing, and validate() has no result when it returns with one.    *)
(* The guard for nullable values has been passed (see ValueRules).         *)
(***************************************************************************)
EXTENDS Integers

CONSTANTS
    DateValue,      \* the values that occur
    Leftover,       \* what an uninitialised timestamp may hold
    DAY,            \* the seconds of a day
    MaxTicks        \* the seconds one call may take

Format == 1 .. 3        \* Y-m-d, Y-m-d H:i:s, Y-m-d\TH:i:s; 0 for any other
DateOnly == 1

ASSUME DateAssumption ==
    /\ DAY \in Nat \ {0} /\ MaxTicks \in Nat
    /\ Leftover \subseteq Int
    /\ \A v \in DateValue :
          /\ v.isText \in BOOLEAN     \* absent values and other types are not
          /\ v.format \in 0 .. 3      \* the format the text is written in
          /\ v.warns \in BOOLEAN      \* fits it with a warning (31 February)
          /\ v.throws \in BOOLEAN     \* makes the parser throw
          /\ v.day \in Int /\ v.time \in 0 .. DAY - 1

VARIABLES
    dateCall,       \* the rule, with the format of date_format
    values,         \* the value of the field and of the other field
    clock,          \* the seconds since some midnight
    ticks,          \* how often it moved during the call
    dateStep,       \* what the call does next
    slot,           \* which value it is at
    format,         \* which format it tries
    stamp,          \* the timestamps read
    thrown,         \* an exception is pending
    dateAccepted    \* the answer

dateVars == <<dateCall, values, clock, ticks, dateStep, slot, format, stamp, thrown,
              dateAccepted>>

Comparisons == {"after", "before", "after_or_equal", "before_or_equal"}

DateCalls == [rule : Comparisons \cup {"date"}, format : {0}]
             \cup [rule : {"date_format"}, format : Format]

-----------------------------------------------------------------------------
\* The formats that are tried, in order: the three, or the one that was given.
FirstFormat == IF dateCall.rule = "date_format" THEN dateCall.format ELSE 1
LastFormat == IF dateCall.rule = "date_format" THEN dateCall.format ELSE 3

DateInit ==
    /\ dateCall \in DateCalls
    /\ values \in [{1, 2} -> DateValue]
    /\ clock \in 0 .. DAY - 1 /\ ticks = 0
    /\ dateStep = "begin" /\ slot = 1 /\ format = FirstFormat
    /\ stamp \in [{1, 2} -> Leftover]
    /\ thrown \in BOOLEAN
    /\ dateAccepted = FALSE

ReturnDate(answer) ==
    /\ dateStep' = "done" /\ dateAccepted' = answer
    /\ UNCHANGED <<dateCall, values, clock, ticks, slot, format, stamp>>

Tick ==
    /\ dateStep # "done" /\ ticks < MaxTicks
    /\ clock' = clock + 1 /\ ticks' = ticks + 1
    /\ UNCHANGED <<dateCall, values, dateStep, slot, format, stamp, thrown, dateAccepted>>

\* The value is there and is a text.
BeginValue ==
    /\ dateStep = "begin" /\ values[slot].isText
    /\ dateStep' = "trying" /\ format' = FirstFormat
    /\ UNCHANGED <<dateCall, values, clock, ticks, slot, stamp, thrown, dateAccepted>>

NoText ==
    /\ dateStep = "begin" /\ ~values[slot].isText
    /\ ReturnDate(FALSE) /\ UNCHANGED thrown

\* Mutant of Fits: the warnings of the parser are not looked at.
FitsPartly(v) == v.format = format

\* createFromFormat makes an object and getLastErrors counts nothing.
Fits(v) == v.format = format /\ ~v.warns

\* What validate_date_php answers once its calls are made: an object without
\* warnings is valid, and so is the undefined value an exception leaves.  With
\* an exception pending the call fails or does nothing, by version of PHP.
Answers ==
    LET v == values[slot] IN
    IF thrown THEN BOOLEAN ELSE {v.throws \/ Fits(v)}

TryFormat(valid) ==
    /\ dateStep = "trying" /\ valid \in Answers
    /\ thrown' = (thrown \/ values[slot].throws)

\* date and date_format ask no more; a comparison parses again for the time.
FormatFits ==
    /\ TryFormat(TRUE)
    /\ IF dateCall.rule \in Comparisons
       THEN /\ dateStep' = "reading"
            /\ UNCHANGED <<dateCall, values, clock, ticks, slot, format, stamp, dateAccepted>>
       ELSE ReturnDate(TRUE)

NextFormat ==
    /\ TryFormat(FALSE) /\ format < LastFormat
    /\ format' = format + 1
    /\ UNCHANGED <<dateCall, values, clock, ticks, dateStep, slot, stamp, dateAccepted>>

NoFormat == TryFormat(FALSE) /\ format = LastFormat /\ ReturnDate(FALSE)

\* A missing time is the time of day now.
Timestamp(v) == v.day * DAY + (IF v.format = DateOnly THEN clock % DAY ELSE v.time)

\* The second parse.  With an exception pending the timestamp is left as it is.
ReadTime ==
    /\ dateStep = "reading"
    /\ stamp' = IF thrown THEN stamp ELSE [stamp EXCEPT ![slot] = Timestamp(values[slot])]
    /\ IF slot = 1 THEN dateStep' = "begin" /\ slot' = 2
                   ELSE dateStep' = "comparing" /\ slot' = slot
    /\ UNCHANGED <<dateCall, values, clock, ticks, format, thrown, dateAccepted>>

Holds(rule, a, b) ==
    \/ rule = "after" /\ a > b
    \/ rule = "before" /\ a < b
    \/ rule = "after_or_equal" /\ a >= b
    \/ rule = "before_or_equal" /\ a <= b

CompareDates ==
    /\ dateStep = "comparing"
    /\ ReturnDate(Holds(dateCall.rule, stamp[1], stamp[2])) /\ UNCHANGED thrown

DateNext == \/ Tick \/ BeginValue \/ NoText \/ FormatFits \/ NextFormat \/ NoFormat
            \/ ReadTime \/ CompareDates

DateSpec == DateInit /\ [][DateNext]_dateVars

-----------------------------------------------------------------------------
\* A date the rules know: written in one of the formats and in the calendar.
IsDate(v) == v.isText /\ v.format \in Format /\ ~v.warns /\ ~v.throws

\* The order of two dates is plain if they are of different days, if both have
\* a time, or if none has and the clock stands still.
Comparable(v, w) ==
    \/ v.day # w.day
    \/ v.format # DateOnly /\ w.format # DateOnly
    \/ v.format = DateOnly /\ w.format = DateOnly /\ ticks = 0

Moment(v) == v.day * DAY + (IF v.format = DateOnly THEN 0 ELSE v.time)

\* A call whose result is delivered, that is, that ends without an exception
\* pending, has given the right answer: only for two dates, and for the order
\* they are in wherever that is plain, whatever the clock and an uninitialised
\* timestamp.
DateVerdict ==
    dateStep = "done" /\ ~thrown =>
        LET v == values[1]
            w == values[2]
        IN  /\ dateCall.rule = "date" => (dateAccepted <=> IsDate(v))
            /\ dateCall.rule = "date_format" =>
                  (dateAccepted <=> IsDate(v) /\ v.format = dateCall.format)
            /\ dateCall.rule \in Comparisons =>
                  /\ dateAccepted => IsDate(v) /\ IsDate(w)
                  /\ IsDate(v) /\ IsDate(w) /\ Comparable(v, w) =>
                        (dateAccepted <=> Holds(dateCall.rule, Moment(v), Moment(w)))

=============================================================================
