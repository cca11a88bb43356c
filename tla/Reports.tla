------------------------------ MODULE Reports ------------------------------
(***************************************************************************)
(* The four queries over the messages table, and what their answers have   *)
(* to do with each other while messages arrive and the clock goes on.      *)
(*                                                                         *)
(* A message is stamped with the clock of the process that stores it, the  *)
(* month report compares the stamps with the clock of the database.  The   *)
(* report counts messages of the last Month days up to now, but takes the  *)
(* times of the critical ones from the midnight before that on, without    *)
(* an upper end; the component it names is the most frequent of all time.  *)
(* Averages, median, percentage and rank follow from what is modelled.     *)
(***************************************************************************)
EXTENDS Integers, Sequences, FiniteSets, FiniteSetsExt

CONSTANTS
  Devices,      \* device ids
  Types,        \* values of message_type
  Components,   \* values of component, never null
  Day,          \* ticks of a day
  Month,        \* days of the month report (30)
  Threshold,    \* a row needs more messages than this (100)
  Skew,         \* ticks between the clocks of a process and the database
  MaxMessages,  \* bound: rows of the messages table
  MaxTime       \* bound: ticks that pass

ASSUME ReportsAssumption ==
  /\ Day \in Nat \ {0} /\ Month \in Nat \ {0}
  /\ {Threshold, Skew, MaxMessages, MaxTime} \subseteq Nat

VARIABLES
  messages,  \* the messages table, in the order of the commits
  now        \* the clock of the database, 0 is a midnight

vars == <<messages, now>>

Stamps   == -Skew .. MaxTime + Skew
Messages == [at: Stamps, device: Devices, type: Types, critical: BOOLEAN,
             component: Components]

TypeOK == messages \in Seq(Messages) /\ now \in 0 .. MaxTime

Init == messages = <<>> /\ now = 0

Insert(m) ==
  /\ Len(messages) < MaxMessages
  /\ m.at \in now - Skew .. now + Skew
  /\ messages' = Append(messages, m)
  /\ UNCHANGED now

Tick == now < MaxTime /\ now' = now + 1 /\ UNCHANGED messages

Next == Tick \/ \E m \in Messages : Insert(m)

Spec == Init /\ [][Next]_vars

-----------------------------------------------------------------------------
(* The queries.  A set of messages is the set of their places in the table. *)

Where(P(_)) == {k \in DOMAIN messages : P(messages[k])}
Of(S, device, type) == {k \in S : messages[k].device = device /\ messages[k].type = type}

GetAllByPeriod(start, end) == Where(LAMBDA m : m.at \in start .. end)
GetAllByDeviceId(device)   == Where(LAMBDA m : m.device = device)
GetCountByMessageType(type) ==
  LET found == Where(LAMBDA m : m.type = type)
  IN {[device |-> d, count |-> Cardinality({k \in found : messages[k].device = d})] :
        d \in {messages[k].device : k \in found}}

\* NOW() - '30 days' is thirty times 24 hours ago, CURRENT_DATE - 30 a midnight.
Ago   == now - Month * Day
DayOf(t) == t \div Day
Today == DayOf(now) * Day
LastDays    == {k \in DOMAIN messages : messages[k].at \in Ago .. now}
AnyCritical == {k \in DOMAIN messages : messages[k].critical}
LaterDate   == {k \in AnyCritical : messages[k].at > Today - (Month - 1) * Day}
CriticalLog == {k \in DOMAIN messages : messages[k].critical /\ messages[k].at > Today - Month * Day}

\* The inner query: one row for each device, day and type.  Without the type
\* in the GROUP BY, the row would hold the day's messages of all types.
Daily(S) == {[device |-> messages[k].device, type |-> messages[k].type,
              day |-> DayOf(messages[k].at)] : k \in S}
InDayAnyType(g) ==
  {k \in LastDays : messages[k].device = g.device /\ DayOf(messages[k].at) = g.day}
InDay(g) == {k \in Of(LastDays, g.device, g.type) : DayOf(messages[k].at) = g.day}
Days ==
  {[device |-> g.device, type |-> g.type, day |-> g.day,
    total      |-> Cardinality(InDay(g)),
    critical   |-> Cardinality({k \in InDay(g) : messages[k].critical}),
    components |-> Cardinality({messages[k].component : k \in InDay(g)})] : g \in Daily(LastDays)}

\* LIMIT 1 of the components in the order of their number: any of the first.
Frequency(device, type, c) ==
  Cardinality({k \in Of(DOMAIN messages, device, type) : messages[k].component = c})
MostActive(device, type) ==
  {c \in Components : \A x \in Components : Frequency(device, type, x) <= Frequency(device, type, c)}

\* sum() over daily rows.
SumTotal(days)    == MapThenSumSet(LAMBDA d : d.total, days)
SumCritical(days) == MapThenSumSet(LAMBDA d : d.critical, days)

\* The join of the daily rows with the critical times.
None == -Skew - 1
Row(device, type) ==
  LET days  == {d \in Days : d.device = device /\ d.type = type}
      times == {messages[k].at : k \in Of(CriticalLog, device, type)}
  IN [device |-> device, type |-> type,
      active_days          |-> Cardinality({d.day : d \in days}),
      total_messages       |-> SumTotal(days),
      max_daily_messages   |-> Max({d.total : d \in days}),
      total_critical       |-> SumCritical(days),
      max_daily_critical   |-> Max({d.critical : d \in days}),
      max_daily_components |-> Max({d.components : d \in days}),
      most_active          |-> MostActive(device, type),
      first_critical_time  |-> IF times = {} THEN None ELSE Min(times),
      last_critical_time   |-> IF times = {} THEN None ELSE Max(times),
      has_interval         |-> Cardinality(Of(CriticalLog, device, type)) > 1]

Rows == {r \in {Row(d.device, d.type) : d \in Days} : r.total_messages > Threshold}

-----------------------------------------------------------------------------
(* Properties.                                                             *)

Counted(r)         == Of(GetAllByPeriod(Ago, now), r.device, r.type)
CountedCritical(r) == {k \in Counted(r) : messages[k].critical}

\* A row of the month report counts the messages that the report by period
\* lists for the same thirty days, device and type, critical ones included;
\* a device and type without a row has too few.
MonthAgreesWithPeriod ==
  /\ \A r \in Rows :
       /\ r.total_messages = Cardinality(Counted(r))
       /\ r.total_critical = Cardinality(CountedCritical(r))
  /\ \A d \in Devices, t \in Types :
       Cardinality(Of(GetAllByPeriod(Ago, now), d, t)) > Threshold
         => \E r \in Rows : r.device = d /\ r.type = t

\* The number of a device's messages of a type is that of the messages of the
\* type in the report of the device.
CountsAgree ==
  \A t \in Types, d \in Devices :
    LET listed == {k \in GetAllByDeviceId(d) : messages[k].type = t}
    IN IF listed = {} THEN \A c \in GetCountByMessageType(t) : c.device # d
       ELSE [device |-> d, count |-> Cardinality(listed)] \in GetCountByMessageType(t)

\* The four queries give one account of the table, also for messages at the
\* ends of the thirty days and for those stamped by a clock that is off.
QueriesAgree == MonthAgreesWithPeriod /\ CountsAgree

\* At midnight the critical times leave out a message of exactly then.
AtTheEdge(r) == now = Today /\ \E k \in CountedCritical(r) : messages[k].at = Ago

\* Although they come from two windows: the critical messages that a row
\* counts lie between its first and last critical time, and two of them have
\* an interval.
CriticalTimesCover ==
  \A r \in Rows : r.total_critical > 0 /\ ~ AtTheEdge(r) =>
    /\ \A k \in CountedCritical(r) :
         messages[k].at \in r.first_critical_time .. r.last_critical_time
    /\ r.total_critical > 1 => r.has_interval

\* Critical times of messages that are not counted are at most a day older
\* than the thirty days, or the process that stamped them has a fast clock.
CriticalTimesNear ==
  \A r \in Rows : r.first_critical_time # None =>
    /\ r.first_critical_time > Ago - Day
    /\ r.last_critical_time <= now + Skew

=============================================================================
