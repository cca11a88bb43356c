--------------------------- MODULE ReportsProofs ---------------------------
(***************************************************************************)
(* What the reports say, for every table of messages, every length of a    *)
(* day and of a month, and every skew of the clocks.                       *)
(*                                                                         *)
(* The totals of the month report are sums over its daily rows.  The days  *)
(* partition the messages of a device and type, so a sum is the number of  *)
(* these messages (SumCounts); the rest is a comparison of windows.        *)
(***************************************************************************)
EXTENDS Reports, FiniteSetTheorems, WellFoundedInduction, TLAPS

-----------------------------------------------------------------------------
(* Sums over finite sets.                                                  *)

Pick(s) == CHOOSE x \in s : TRUE

Families(S)     == {Bad \in SUBSET SUBSET S : Bad # {}}
Minimal(s, Bad) == s \in Bad /\ \A t \in Bad : t \subseteq s => t = s

\* Every non-empty set of subsets of a finite set has a smallest member.
LEMMA SmallestSubset ==
  ASSUME NEW S, IsFiniteSet(S), NEW Bad \in Families(S)
  PROVE  \E s : Minimal(s, Bad)
<1>1. IsWellFoundedOn(StrictSubsetOrdering(S), SUBSET S)
  BY FS_StrictSubsetOrderingWellFounded, FS_FiniteSubsetsOfFinite
<1>2. PICK s \in Bad : \A t \in Bad : ~ (<<t, s>> \in StrictSubsetOrdering(S))
  BY <1>1, WFMin DEF Families
<1>3. ASSUME NEW t \in Bad, t \subseteq s PROVE t = s
  <2>1. SUFFICES ASSUME t # s PROVE <<t, s>> \in StrictSubsetOrdering(S)
    BY <1>2
  <2>2. <<t, s>> \in (SUBSET S) \X (SUBSET S)
    BY <1>2, <1>3 DEF Families
  <2>3. QED
    BY <1>3, <2>1, <2>2 DEF StrictSubsetOrdering
<1>4. QED
  BY <1>2, <1>3 DEF Minimal

\* All members of the classes in s.
Members(class, s) == UNION {class[x] : x \in s}

LEMMA MembersOne ==
  ASSUME NEW S, IsFiniteSet(S), NEW U, IsFiniteSet(U), NEW class \in [S -> SUBSET U],
         \A x, y \in S : x # y => class[x] \cap class[y] = {},
         NEW s \in SUBSET S, NEW x \in s
  PROVE  /\ Cardinality(class[x]) \in Nat /\ Cardinality(Members(class, s \ {x})) \in Nat
         /\ Cardinality(Members(class, s)) =
              Cardinality(class[x]) + Cardinality(Members(class, s \ {x}))
<1> DEFINE rest == Members(class, s \ {x})
<1>1. class[x] \subseteq U /\ rest \subseteq U
  BY DEF Members
<1>2. IsFiniteSet(class[x]) /\ IsFiniteSet(rest)
  BY <1>1, FS_Subset
<1>3. class[x] \cap rest = {} /\ Members(class, s) = class[x] \cup rest
  BY DEF Members
<1>4. Cardinality(class[x] \cap rest) = 0
  BY <1>3, FS_EmptySet
<1>5. Cardinality(class[x]) \in Nat /\ Cardinality(rest) \in Nat
  BY <1>2, FS_CardinalityType
<1> HIDE DEF rest
<1>6. Cardinality(class[x] \cup rest) = Cardinality(class[x]) + Cardinality(rest)
  <2>1. \A s1, t1 : IsFiniteSet(s1) /\ IsFiniteSet(t1) =>
          Cardinality(s1 \cup t1) = Cardinality(s1) + Cardinality(t1) - Cardinality(s1 \cap t1)
    BY FS_Union
  <2>2. Cardinality(class[x] \cup rest)
          = Cardinality(class[x]) + Cardinality(rest) - Cardinality(class[x] \cap rest)
    BY <1>2, <2>1
  <2>3. QED
    BY <1>4, <1>5, <2>2
<1>7. QED
  BY <1>3, <1>5, <1>6 DEF rest

\* A sum that takes the sizes of disjoint classes one by one.
Sums(f, class, S) ==
  f = [s \in SUBSET S |->
         IF s = {} THEN 0 ELSE Cardinality(class[Pick(s)]) + f[s \ {Pick(s)}]]

LEMMA SumCounts ==
  ASSUME NEW S, IsFiniteSet(S), NEW U, IsFiniteSet(U), NEW class \in [S -> SUBSET U],
         \A x, y \in S : x # y => class[x] \cap class[y] = {}
  PROVE  /\ \E f : Sums(f, class, S)
         /\ \A f : Sums(f, class, S) => f[S] = Cardinality(Members(class, S))
<1> DEFINE size == [s \in SUBSET S |-> Cardinality(Members(class, s))]
<1>1. Members(class, {}) = {} /\ size[{}] = 0
  BY FS_EmptySet DEF Members
<1>2. ASSUME NEW s \in SUBSET S, s # {}
      PROVE  /\ s \ {Pick(s)} \in SUBSET S /\ Pick(s) \in s
             /\ size[s] = Cardinality(class[Pick(s)]) + size[s \ {Pick(s)}]
  <2>1. Pick(s) \in s
    BY <1>2 DEF Pick
  <2>2. QED
    BY <2>1, MembersOne
<1>3. Sums(size, class, S)
  <2>1. \A s \in SUBSET S :
          size[s] = IF s = {} THEN 0 ELSE Cardinality(class[Pick(s)]) + size[s \ {Pick(s)}]
    BY <1>1, <1>2
  <2> HIDE DEF size
  <2>2. size = [s \in SUBSET S |-> size[s]]
    BY DEF size
  <2>3. QED
    BY <2>1, <2>2 DEF Sums
<1>4. ASSUME NEW f, Sums(f, class, S) PROVE f[S] = size[S]
  <2>1. \A s \in SUBSET S :
          f[s] = IF s = {} THEN 0 ELSE Cardinality(class[Pick(s)]) + f[s \ {Pick(s)}]
    BY <1>4 DEF Sums
  <2> HIDE DEF size
  <2> DEFINE Bad == {s \in SUBSET S : f[s] # size[s]}
  <2>2. SUFFICES ASSUME Bad # {} PROVE FALSE
    OBVIOUS
  <2>3. PICK s \in Bad : \A t \in Bad : t \subseteq s => t = s
    <3>1. Bad \in Families(S)
      BY <2>2 DEF Families
    <3> HIDE DEF Bad
    <3>2. QED
      BY <3>1, SmallestSubset DEF Minimal
  <2>4. s \in SUBSET S /\ f[s] # size[s]
    BY <2>3
  <2>5. s # {}
    BY <1>1, <2>1, <2>4
  <2>6. s \ {Pick(s)} \notin Bad
    BY <1>2, <2>3, <2>4, <2>5
  <2>7. f[s \ {Pick(s)}] = size[s \ {Pick(s)}]
    BY <2>4, <2>6
  <2>8. QED
    BY <1>2, <2>1, <2>4, <2>5, <2>7
<1>5. QED
  BY <1>3, <1>4

\* The sum of the totals of daily rows, and of their critical ones, is such a sum.
LEMMA TotalIsCount ==
  ASSUME NEW S, IsFiniteSet(S), NEW U, IsFiniteSet(U), NEW class \in [S -> SUBSET U],
         \A x, y \in S : x # y => class[x] \cap class[y] = {},
         \A d \in S : d.total = Cardinality(class[d])
  PROVE  SumTotal(S) = Cardinality(Members(class, S))
<1> DEFINE Step(f) == [s \in SUBSET S |->
             IF s = {} THEN 0 ELSE (CHOOSE x \in s : TRUE).total + f[s \ {CHOOSE x \in s : TRUE}]]
           sum == CHOOSE f : f = Step(f)
<1>1. SumTotal(S) = sum[S]
  BY DEF SumTotal, MapThenSumSet, MapThenFoldSet
<1>2. ASSUME NEW f PROVE f = Step(f) <=> Sums(f, class, S)
  <2>1. ASSUME NEW s \in SUBSET S, s # {}
        PROVE  (CHOOSE x \in s : TRUE).total = Cardinality(class[Pick(s)])
    <3>1. Pick(s) \in s
      BY <2>1 DEF Pick
    <3>2. QED
      BY <3>1 DEF Pick
  <2>2. QED
    BY <2>1 DEF Sums, Pick
<1> HIDE DEF Step
<1>3. \E f : f = Step(f)
  <2>1. PICK f : Sums(f, class, S)
    BY SumCounts
  <2>2. QED
    BY <1>2, <2>1
<1>4. sum = Step(sum)
  BY <1>3
<1> HIDE DEF sum
<1>5. QED
  BY <1>1, <1>2, <1>4, SumCounts

LEMMA CriticalIsCount ==
  ASSUME NEW S, IsFiniteSet(S), NEW U, IsFiniteSet(U), NEW class \in [S -> SUBSET U],
         \A x, y \in S : x # y => class[x] \cap class[y] = {},
         \A d \in S : d.critical = Cardinality(class[d])
  PROVE  SumCritical(S) = Cardinality(Members(class, S))
<1> DEFINE Step(f) == [s \in SUBSET S |->
             IF s = {} THEN 0 ELSE (CHOOSE x \in s : TRUE).critical + f[s \ {CHOOSE x \in s : TRUE}]]
           sum == CHOOSE f : f = Step(f)
<1>1. SumCritical(S) = sum[S]
  BY DEF SumCritical, MapThenSumSet, MapThenFoldSet
<1>2. ASSUME NEW f PROVE f = Step(f) <=> Sums(f, class, S)
  <2>1. ASSUME NEW s \in SUBSET S, s # {}
        PROVE  (CHOOSE x \in s : TRUE).critical = Cardinality(class[Pick(s)])
    <3>1. Pick(s) \in s
      BY <2>1 DEF Pick
    <3>2. QED
      BY <3>1 DEF Pick
  <2>2. QED
    BY <2>1 DEF Sums, Pick
<1> HIDE DEF Step
<1>3. \E f : f = Step(f)
  <2>1. PICK f : Sums(f, class, S)
    BY SumCounts
  <2>2. QED
    BY <1>2, <2>1
<1>4. sum = Step(sum)
  BY <1>3
<1> HIDE DEF sum
<1>5. QED
  BY <1>1, <1>2, <1>4, SumCounts

-----------------------------------------------------------------------------
(* The month report.                                                       *)

LEMMA Table ==
  ASSUME TypeOK
  PROVE  /\ IsFiniteSet(DOMAIN messages) /\ now \in Nat
         /\ \A k \in DOMAIN messages :
              /\ messages[k] \in Messages /\ messages[k].at \in Int
              /\ messages[k].device \in Devices /\ messages[k].type \in Types
<1>1. messages \in Seq(Messages) /\ now \in 0 .. MaxTime /\ MaxTime \in Nat /\ Skew \in Nat
  BY ReportsAssumption DEF TypeOK
<1>2. DOMAIN messages = 1 .. Len(messages) /\ Len(messages) \in Nat
  BY <1>1
<1>3. \A k \in DOMAIN messages : messages[k] \in Messages
  BY <1>1
<1>4. IsFiniteSet(DOMAIN messages)
  BY <1>2, FS_Interval
<1>5. \A m \in Messages : m.at \in Int /\ m.device \in Devices /\ m.type \in Types
  BY <1>1 DEF Messages, Stamps
<1>6. QED
  BY <1>1, <1>3, <1>4, <1>5

\* The row of one device, type and day.
DayRow(g) ==
  [device |-> g.device, type |-> g.type, day |-> g.day,
   total      |-> Cardinality(InDay(g)),
   critical   |-> Cardinality({k \in InDay(g) : messages[k].critical}),
   components |-> Cardinality({messages[k].component : k \in InDay(g)})]

DaysOf(device, type) == {d \in Days : d.device = device /\ d.type = type}

\* A daily row is that of its own device, type and day.
LEMMA DaysRows ==
  /\ Days = {DayRow(g) : g \in Daily(LastDays)}
  /\ \A x \in Days : x = DayRow([device |-> x.device, type |-> x.type, day |-> x.day])
<1>1. Days = {DayRow(g) : g \in Daily(LastDays)}
  BY DEF Days, DayRow
<1>2. ASSUME NEW x \in Days
      PROVE  x = DayRow([device |-> x.device, type |-> x.type, day |-> x.day])
  <2>1. PICK g \in Daily(LastDays) : x = DayRow(g)
    BY <1>1
  <2>2. g = [device |-> g.device, type |-> g.type, day |-> g.day]
    BY DEF Daily
  <2>3. x.device = g.device /\ x.type = g.type /\ x.day = g.day
    BY <2>1 DEF DayRow
  <2>4. QED
    BY <2>1, <2>2, <2>3
<1>3. QED
  BY <1>1, <1>2

LEMMA DaysFinite == ASSUME TypeOK PROVE IsFiniteSet(Days)
<1>1. IsFiniteSet(LastDays)
  BY Table, FS_Subset DEF LastDays
<1>2. IsFiniteSet(Daily(LastDays))
  <2> DEFINE key(k) == [device |-> messages[k].device, type |-> messages[k].type,
                        day |-> DayOf(messages[k].at)]
  <2> DEFINE f == [k \in LastDays |-> key(k)]
  <2>1. f \in Surjection(LastDays, Daily(LastDays))
    BY DEF Daily, Surjection
  <2>2. QED
    BY <1>1, <2>1, FS_Surjection
<1>3. [g \in Daily(LastDays) |-> DayRow(g)] \in Surjection(Daily(LastDays), Days)
  BY DaysRows DEF Surjection
<1>4. QED
  BY <1>2, <1>3, FS_Surjection

\* The days of a device and type partition its messages of the thirty days.
LEMMA DaysPartition ==
  ASSUME TypeOK, NEW device, NEW type
  PROVE  LET S == DaysOf(device, type) IN
         /\ IsFiniteSet(S)
         /\ [d \in S |-> InDay(d)] \in [S -> SUBSET DOMAIN messages]
         /\ \A x, y \in S : x # y => InDay(x) \cap InDay(y) = {}
         /\ UNION {InDay(d) : d \in S} = Of(LastDays, device, type)
         /\ \A d \in S : /\ d.total = Cardinality(InDay(d))
                         /\ d.critical = Cardinality({k \in InDay(d) : messages[k].critical})
<1> DEFINE S == DaysOf(device, type)
<1>1. IsFiniteSet(S)
  BY DaysFinite, FS_Subset DEF DaysOf
<1>2. \A d : InDay(d) \subseteq DOMAIN messages
  BY DEF InDay, Of, LastDays
<1>3. ASSUME NEW x \in S, NEW y \in S, NEW k \in InDay(x) \cap InDay(y) PROVE x = y
  <2>1. x.day = y.day
    BY <1>3 DEF InDay
  <2>2. x.device = y.device /\ x.type = y.type /\ x \in Days /\ y \in Days
    BY <1>3 DEF DaysOf
  <2>3. QED
    BY <2>1, <2>2, DaysRows
<1>4. ASSUME NEW k \in Of(LastDays, device, type) PROVE \E d \in S : k \in InDay(d)
  <2> DEFINE g == [device |-> messages[k].device, type |-> messages[k].type,
                   day |-> DayOf(messages[k].at)]
             d == DayRow(g)
  <2>1. g \in Daily(LastDays) /\ messages[k].device = device /\ messages[k].type = type
    BY DEF Of, Daily
  <2>2. d \in Days
    BY <2>1, DaysRows
  <2>3. d.device = device /\ d.type = type /\ d.day = DayOf(messages[k].at)
    BY <2>1 DEF DayRow
  <2> HIDE DEF d
  <2>4. d \in S
    BY <2>2, <2>3 DEF DaysOf
  <2>5. k \in InDay(d)
    BY <2>3 DEF InDay
  <2>6. QED
    BY <2>4, <2>5
<1>5. ASSUME NEW d \in S PROVE InDay(d) \subseteq Of(LastDays, device, type)
  BY DEF DaysOf, InDay
<1>6. ASSUME NEW d \in S
      PROVE  /\ d.total = Cardinality(InDay(d))
             /\ d.critical = Cardinality({k \in InDay(d) : messages[k].critical})
  <2> DEFINE g == [device |-> d.device, type |-> d.type, day |-> d.day]
  <2>1. d = DayRow(g)
    BY DaysRows DEF DaysOf
  <2>2. InDay(d) = InDay(g)
    BY DEF InDay
  <2>3. QED
    BY <2>1, <2>2 DEF DayRow
<1>7. UNION {InDay(d) : d \in S} = Of(LastDays, device, type)
  BY <1>4, <1>5
<1> HIDE DEF S
<1>8. QED
  BY <1>1, <1>2, <1>3, <1>6, <1>7 DEF S

\* What the joined row has in its two totals.
LEMMA Totals ==
  ASSUME TypeOK, NEW device, NEW type
  PROVE  /\ SumTotal(DaysOf(device, type)) = Cardinality(Of(LastDays, device, type))
         /\ SumCritical(DaysOf(device, type))
              = Cardinality({k \in Of(LastDays, device, type) : messages[k].critical})
<1> DEFINE S     == DaysOf(device, type)
           all   == [d \in S |-> InDay(d)]
           grave == [d \in S |-> {k \in InDay(d) : messages[k].critical}]
<1>1. /\ IsFiniteSet(S) /\ IsFiniteSet(DOMAIN messages)
      /\ all \in [S -> SUBSET DOMAIN messages]
      /\ \A x, y \in S : x # y => InDay(x) \cap InDay(y) = {}
      /\ UNION {InDay(d) : d \in S} = Of(LastDays, device, type)
      /\ \A d \in S : /\ d.total = Cardinality(InDay(d))
                      /\ d.critical = Cardinality({k \in InDay(d) : messages[k].critical})
  BY DaysPartition, Table
<1> HIDE DEF S
<1>2. /\ \A x, y \in S : x # y => all[x] \cap all[y] = {}
      /\ \A d \in S : d.total = Cardinality(all[d])
      /\ Members(all, S) = Of(LastDays, device, type)
  BY <1>1 DEF Members
<1>3. /\ \A x, y \in S : x # y => grave[x] \cap grave[y] = {}
      /\ \A d \in S : d.critical = Cardinality(grave[d])
  BY <1>1
<1>4. grave \in [S -> SUBSET DOMAIN messages]
  BY <1>1
<1>5. Members(grave, S) = {k \in Of(LastDays, device, type) : messages[k].critical}
  BY <1>1 DEF Members
<1> HIDE DEF all, grave
<1>6. SumTotal(S) = Cardinality(Members(all, S))
  BY <1>1, <1>2, TotalIsCount
<1>7. SumCritical(S) = Cardinality(Members(grave, S))
  BY <1>1, <1>3, <1>4, CriticalIsCount
<1>8. QED
  BY <1>2, <1>5, <1>6, <1>7 DEF S
\* What a row of the month report holds.
LEMMA RowHolds ==
  ASSUME TypeOK, NEW device, NEW type
  PROVE  LET r     == Row(device, type)
             times == {messages[k].at : k \in Of(CriticalLog, device, type)}
         IN /\ r.device = device /\ r.type = type
            /\ r.total_messages = Cardinality(Of(LastDays, device, type))
            /\ r.total_critical = Cardinality({k \in Of(LastDays, device, type) : messages[k].critical})
            /\ r.first_critical_time = IF times = {} THEN None ELSE Min(times)
            /\ r.last_critical_time = IF times = {} THEN None ELSE Max(times)
            /\ r.has_interval = (Cardinality(Of(CriticalLog, device, type)) > 1)
<1>1. /\ Row(device, type).total_messages = SumTotal(DaysOf(device, type))
      /\ Row(device, type).total_critical = SumCritical(DaysOf(device, type))
  BY DEF Row, DaysOf
<1>2. QED
  BY <1>1, Totals DEF Row

\* Every row of the report is that of its device and type.
LEMMA RowsAre == \A r \in Rows : \E device, type : r = Row(device, type)
BY DEF Rows

-----------------------------------------------------------------------------
(* The queries agree.                                                      *)

LEMMA PeriodIsLastDays == GetAllByPeriod(Ago, now) = LastDays
BY DEF GetAllByPeriod, Where, LastDays

LEMMA MonthAgrees == ASSUME TypeOK PROVE MonthAgreesWithPeriod
<1>1. ASSUME NEW r \in Rows
      PROVE  /\ r.total_messages = Cardinality(Counted(r))
             /\ r.total_critical = Cardinality(CountedCritical(r))
  <2>1. PICK device, type : r = Row(device, type)
    BY RowsAre
  <2>2. /\ r.device = device /\ r.type = type
        /\ r.total_messages = Cardinality(Of(LastDays, device, type))
        /\ r.total_critical = Cardinality({k \in Of(LastDays, device, type) : messages[k].critical})
    BY <2>1, RowHolds
  <2>3. QED
    BY <2>2, PeriodIsLastDays DEF Counted, CountedCritical
<1>2. ASSUME NEW d \in Devices, NEW t \in Types,
             Cardinality(Of(GetAllByPeriod(Ago, now), d, t)) > Threshold
      PROVE  \E r \in Rows : r.device = d /\ r.type = t
  <2>1. Cardinality(Of(LastDays, d, t)) > Threshold
    BY <1>2, PeriodIsLastDays
  <2>2. PICK k : k \in Of(LastDays, d, t)
    BY <2>1, FS_EmptySet, ReportsAssumption
  <2>3. PICK x \in DaysOf(d, t) : k \in InDay(x)
    BY <2>2, DaysPartition
  <2>4. x \in Days /\ x.device = d /\ x.type = t
    BY <2>3 DEF DaysOf
  <2>5. /\ Row(d, t).device = d /\ Row(d, t).type = t
        /\ Row(d, t).total_messages > Threshold
    <3>1. /\ Row(d, t).device = d /\ Row(d, t).type = t
          /\ Row(d, t).total_messages = Cardinality(Of(LastDays, d, t))
      BY RowHolds
    <3>2. QED
      BY <2>1, <3>1
  <2>6. Row(d, t) \in Rows
    BY <2>4, <2>5 DEF Rows
  <2>7. QED
    BY <2>5, <2>6
<1>3. QED
  BY <1>1, <1>2 DEF MonthAgreesWithPeriod

LEMMA CountsDoAgree == ASSUME TypeOK PROVE CountsAgree
<1> SUFFICES ASSUME NEW t \in Types, NEW d \in Devices
             PROVE  LET listed == {k \in GetAllByDeviceId(d) : messages[k].type = t}
                    IN IF listed = {} THEN \A c \in GetCountByMessageType(t) : c.device # d
                       ELSE [device |-> d, count |-> Cardinality(listed)]
                              \in GetCountByMessageType(t)
  BY DEF CountsAgree
<1> DEFINE listed  == {k \in GetAllByDeviceId(d) : messages[k].type = t}
           found   == {k \in DOMAIN messages : messages[k].type = t}
           Line(e) == [device |-> e, count |-> Cardinality({k \in found : messages[k].device = e})]
<1>1. GetCountByMessageType(t) = {Line(e) : e \in {messages[k].device : k \in found}}
  BY DEF GetCountByMessageType, Where
<1>2. listed = {k \in found : messages[k].device = d}
  BY DEF GetAllByDeviceId, Where
<1>3. CASE listed = {}
  <2>1. ASSUME NEW c \in GetCountByMessageType(t) PROVE c.device # d
    <3>1. PICK k \in found : c = Line(messages[k].device)
      BY <1>1
    <3>2. c.device = messages[k].device
      BY <3>1
    <3>3. QED
      BY <1>2, <1>3, <3>2
  <2>2. QED
    BY <1>3, <2>1
<1>4. CASE listed # {}
  <2>1. d \in {messages[k].device : k \in found}
    BY <1>2, <1>4
  <2>2. Line(d) \in GetCountByMessageType(t)
    BY <1>1, <2>1
  <2>3. Line(d) = [device |-> d, count |-> Cardinality(listed)]
    BY <1>2
  <2>4. QED
    BY <1>4, <2>2, <2>3
<1>5. QED
  BY <1>3, <1>4

-----------------------------------------------------------------------------
(* The specification.                                                      *)

\* Type correctness of the table and of the clock of the database.
THEOREM TypeCorrect == Spec => []TypeOK
<1>1. Init => TypeOK
  BY ReportsAssumption DEF Init, TypeOK
<1>2. TypeOK /\ [Next]_vars => TypeOK'
  <2> SUFFICES ASSUME TypeOK, [Next]_vars PROVE TypeOK'
    OBVIOUS
  <2>1. CASE Tick
    BY <2>1, ReportsAssumption DEF Tick, TypeOK
  <2>2. ASSUME NEW m \in Messages, Insert(m) PROVE TypeOK'
    BY <2>2 DEF Insert, TypeOK
  <2>3. CASE UNCHANGED vars
    BY <2>3 DEF vars, TypeOK
  <2>4. QED
    BY <2>1, <2>2, <2>3 DEF Next
<1>3. QED
  BY <1>1, <1>2, PTL DEF Spec

\* A row of the month report counts what the report by period lists for the
\* same thirty days, and the report by type what the report by device lists,
\* in every table (GetMonthReport, GetAllByPeriod, GetAllByDeviceId and
\* GetCountByMessageType of repo/pg/messages.go).
THEOREM QueriesDoAgree == Spec => []QueriesAgree
<1>1. TypeOK => QueriesAgree
  BY MonthAgrees, CountsDoAgree DEF QueriesAgree
<1>2. QED
  BY <1>1, TypeCorrect, PTL

-----------------------------------------------------------------------------
(* The critical times.                                                     *)

\* Of finitely many sets there is one that contains no other.
LEMMA SmallestValue ==
  ASSUME NEW T, IsFiniteSet(T), T # {}, NEW f \in [T -> SUBSET T]
  PROVE  \E x \in T : \A y \in T : f[y] \subseteq f[x] => f[y] = f[x]
<1> DEFINE Bad == {f[x] : x \in T}
<1>1. Bad \in Families(T)
  BY DEF Families
<1>2. PICK s : Minimal(s, Bad)
  <2> HIDE DEF Bad
  <2>1. QED
    BY <1>1, SmallestSubset
<1>3. PICK x \in T : s = f[x]
  BY <1>2 DEF Minimal
<1>4. \A y \in T : f[y] \in Bad
  OBVIOUS
<1>5. QED
  BY <1>2, <1>3, <1>4 DEF Minimal

\* A finite set of numbers has a least and a greatest one.
LEMMA Extremes ==
  ASSUME NEW T, IsFiniteSet(T), T # {}
  PROVE  T \subseteq Int =>
           /\ Min(T) \in T /\ \A y \in T : Min(T) <= y
           /\ Max(T) \in T /\ \A y \in T : Max(T) >= y
<1> DEFINE below == [x \in T |-> {y \in T : y <= x}]
           above == [x \in T |-> {y \in T : y >= x}]
<1>1. PICK low \in T : \A y \in T : below[y] \subseteq below[low] => below[y] = below[low]
  <2>1. below \in [T -> SUBSET T]
    OBVIOUS
  <2> HIDE DEF below
  <2>2. QED
    BY <2>1, SmallestValue
<1>2. PICK high \in T : \A y \in T : above[y] \subseteq above[high] => above[y] = above[high]
  <2>1. above \in [T -> SUBSET T]
    OBVIOUS
  <2> HIDE DEF above
  <2>2. QED
    BY <2>1, SmallestValue
<1>3. HAVE T \subseteq Int
<1>4. ASSUME NEW y \in T PROVE low <= y
  <2>1. SUFFICES ASSUME y < low PROVE FALSE
    BY <1>3
  <2>2. \A z \in T : z <= y => z <= low
    BY <1>3, <2>1
  <2>3. low \in below[low] /\ low \notin below[y]
    BY <1>3, <2>1
  <2>4. below[y] \subseteq below[low]
    BY <2>2
  <2>5. QED
    BY <1>1, <2>3, <2>4
<1>5. ASSUME NEW y \in T PROVE high >= y
  <2>1. SUFFICES ASSUME y > high PROVE FALSE
    BY <1>3
  <2>2. \A z \in T : z >= y => z >= high
    BY <1>3, <2>1
  <2>3. high \in above[high] /\ high \notin above[y]
    BY <1>3, <2>1
  <2>4. above[y] \subseteq above[high]
    BY <2>2
  <2>5. QED
    BY <1>2, <2>3, <2>4
<1>6. QED
  BY <1>4, <1>5 DEF Min, Max

\* The midnight before now.
LEMMA TodayBounds ==
  ASSUME TypeOK
  PROVE  /\ Today \in Int /\ Today <= now /\ now < Today + Day
         /\ Ago \in Int /\ Month * Day \in Int /\ Ago = now - Month * Day
<1>1. now \in Nat /\ Day \in Nat \ {0} /\ Month \in Nat
  BY Table, ReportsAssumption
<1>2. /\ now \div Day \in Int /\ now % Day \in 0 .. Day - 1
      /\ now = Day * (now \div Day) + (now % Day)
  <2>1. \A n \in Int, d \in Nat \ {0} :
          n \div d \in Int /\ n % d \in 0 .. d - 1 /\ n = d * (n \div d) + (n % d)
    OBVIOUS
  <2>2. QED
    BY <1>1, <2>1
<1>3. (now \div Day) * Day = Day * (now \div Day) /\ Month * Day \in Int
      /\ Day * (now \div Day) \in Int
  BY <1>1, <1>2
<1>4. Today = Day * (now \div Day)
  BY <1>3 DEF Today, DayOf
<1>5. QED
  BY <1>1, <1>2, <1>3, <1>4 DEF Ago
\* The times of the critical messages that the report lists.
Times(device, type) == {messages[k].at : k \in Of(CriticalLog, device, type)}

\* They lie between the two that the row has.
LEMMA TimesBetween ==
  ASSUME TypeOK, NEW device, NEW type
  PROVE  LET r == Row(device, type) IN
         /\ \A t \in Times(device, type) :
              t \in Int /\ t \in r.first_critical_time .. r.last_critical_time
         /\ Times(device, type) = {} => r.first_critical_time = None
         /\ Times(device, type) # {} =>
              /\ r.first_critical_time \in Times(device, type)
              /\ r.last_critical_time \in Times(device, type)
<1> DEFINE T == Times(device, type)
<1>1. T \subseteq Int
  BY Table DEF Times, Of, CriticalLog
<1>2. IsFiniteSet(T)
  <2> DEFINE S == Of(CriticalLog, device, type)
             f == [k \in S |-> messages[k].at]
  <2>1. IsFiniteSet(S)
    BY Table, FS_Subset DEF Of, CriticalLog
  <2>2. f \in Surjection(S, T)
    BY DEF Times, Surjection
  <2>3. QED
    BY <2>1, <2>2, FS_Surjection
<1>3. /\ Row(device, type).first_critical_time = IF T = {} THEN None ELSE Min(T)
      /\ Row(device, type).last_critical_time = IF T = {} THEN None ELSE Max(T)
  BY RowHolds DEF Times
<1> HIDE DEF T
<1>4. T # {} => /\ Min(T) \in T /\ \A y \in T : Min(T) <= y
                /\ Max(T) \in T /\ \A y \in T : Max(T) >= y
  BY <1>1, <1>2, Extremes
<1>5. ASSUME NEW t \in T
      PROVE  /\ t \in Int
             /\ t \in Row(device, type).first_critical_time .. Row(device, type).last_critical_time
  <2>1. t \in Int /\ Min(T) \in Int /\ Max(T) \in Int /\ Min(T) <= t /\ t <= Max(T)
    BY <1>1, <1>4
  <2>2. QED
    BY <1>3, <2>1
<1>6. QED
  BY <1>3, <1>4, <1>5 DEF T

\* Unless the report is made at midnight and a message is of exactly then, the
\* critical messages that a row counts are among those it has the times of.
LEMMA CountedAreListed ==
  ASSUME TypeOK, NEW r, ~ AtTheEdge(r)
  PROVE  CountedCritical(r) \subseteq Of(CriticalLog, r.device, r.type)
<1> SUFFICES ASSUME NEW k \in CountedCritical(r)
             PROVE  k \in Of(CriticalLog, r.device, r.type)
  OBVIOUS
<1>1. /\ k \in LastDays /\ messages[k].critical
      /\ messages[k].device = r.device /\ messages[k].type = r.type
  BY PeriodIsLastDays DEF CountedCritical, Counted, Of
<1>2. k \in DOMAIN messages /\ messages[k].at \in Ago .. now
  BY <1>1 DEF LastDays
<1>3. ~ (now = Today /\ messages[k].at = Ago)
  BY DEF AtTheEdge
<1>4. messages[k].at > Today - Month * Day
  <2>1. /\ now \in Nat /\ messages[k].at \in Int /\ Today \in Int /\ Today <= now
        /\ Month * Day \in Int /\ Ago = now - Month * Day
    BY <1>2, Table, TodayBounds
  <2> DEFINE month == Month * Day
  <2> HIDE DEF month
  <2>2. month \in Int /\ Ago = now - month
    BY <2>1 DEF month
  <2>3. messages[k].at > Today - month
    BY <1>2, <1>3, <2>1, <2>2
  <2>4. QED
    BY <2>3 DEF month
<1>5. QED
  BY <1>1, <1>2, <1>4 DEF Of, CriticalLog

LEMMA TimesDoCover == ASSUME TypeOK PROVE CriticalTimesCover
<1> SUFFICES ASSUME NEW r \in Rows, r.total_critical > 0, ~ AtTheEdge(r)
             PROVE  /\ \A k \in CountedCritical(r) :
                         messages[k].at \in r.first_critical_time .. r.last_critical_time
                    /\ r.total_critical > 1 => r.has_interval
  BY DEF CriticalTimesCover
<1>1. PICK device, type : r = Row(device, type)
  BY RowsAre
<1>2. r.device = device /\ r.type = type
  BY <1>1 DEF Row
<1>3. CountedCritical(r) \subseteq Of(CriticalLog, device, type)
  BY <1>2, CountedAreListed
<1>4. ASSUME NEW k \in CountedCritical(r)
      PROVE  messages[k].at \in r.first_critical_time .. r.last_critical_time
  <2>1. messages[k].at \in Times(device, type)
    BY <1>3 DEF Times
  <2>2. QED
    BY <1>1, <2>1, TimesBetween
<1>5. ASSUME r.total_critical > 1 PROVE r.has_interval
  <2>1. IsFiniteSet(Of(CriticalLog, device, type))
    BY Table, FS_Subset DEF Of, CriticalLog
  <2>2. /\ Cardinality(CountedCritical(r)) <= Cardinality(Of(CriticalLog, device, type))
        /\ Cardinality(CountedCritical(r)) \in Nat
        /\ Cardinality(Of(CriticalLog, device, type)) \in Nat
    BY <1>3, <2>1, FS_Subset, FS_CardinalityType
  <2>3. r.total_critical = Cardinality(CountedCritical(r))
    BY MonthAgrees DEF MonthAgreesWithPeriod
  <2>4. Cardinality(Of(CriticalLog, device, type)) > 1
    BY <1>5, <2>2, <2>3
  <2>5. Row(device, type).has_interval = (Cardinality(Of(CriticalLog, device, type)) > 1)
    BY Zenon DEF Row
  <2>6. QED
    BY <1>1, <2>4, <2>5, Zenon
<1>6. QED
  BY <1>4, <1>5

\* The critical messages that a row of the month report counts lie between its
\* first and last critical time, and two of them have an interval, unless the
\* report is made at a midnight thirty days after one of them: GetMonthReport
\* takes the count and the times from two windows.
THEOREM TimesCover == Spec => []CriticalTimesCover
<1>1. TypeOK => CriticalTimesCover
  BY TimesDoCover
<1>2. QED
  BY <1>1, TypeCorrect, PTL

\* No stamp is further ahead than the clocks are apart.
Stamped == \A k \in DOMAIN messages : messages[k].at <= now + Skew

LEMMA StampedStays == ASSUME TypeOK, Stamped, [Next]_vars PROVE Stamped'
<1>1. Skew \in Nat /\ now \in Nat
  BY Table, ReportsAssumption
<1>2. CASE Tick
  <2>1. messages' = messages /\ now' = now + 1
    BY <1>2 DEF Tick
  <2>2. QED
    BY <1>1, <2>1, Table DEF Stamped
<1>3. ASSUME NEW m \in Messages, Insert(m) PROVE Stamped'
  <2>1. messages' = Append(messages, m) /\ now' = now /\ m.at \in now - Skew .. now + Skew
    BY <1>3 DEF Insert
  <2>2. messages \in Seq(Messages)
    BY DEF TypeOK
  <2>3. \A k \in DOMAIN messages' :
          \/ k \in DOMAIN messages /\ messages'[k] = messages[k]
          \/ messages'[k] = m
    BY <2>1, <2>2
  <2>4. m.at <= now + Skew
    BY <1>1, <2>1
  <2>5. QED
    BY <2>1, <2>3, <2>4 DEF Stamped
<1>4. CASE UNCHANGED vars
  BY <1>4 DEF vars, Stamped
<1>5. QED
  BY <1>2, <1>3, <1>4 DEF Next

LEMMA TimesAreNear == ASSUME TypeOK, Stamped PROVE CriticalTimesNear
<1> SUFFICES ASSUME NEW r \in Rows, r.first_critical_time # None
             PROVE  /\ r.first_critical_time > Ago - Day
                    /\ r.last_critical_time <= now + Skew
  BY DEF CriticalTimesNear
<1>1. PICK device, type : r = Row(device, type)
  BY RowsAre
<1>2. r.first_critical_time \in Times(device, type) /\ r.last_critical_time \in Times(device, type)
  BY <1>1, TimesBetween
<1>3. ASSUME NEW t \in Times(device, type) PROVE t > Ago - Day /\ t <= now + Skew
  <2>1. PICK k \in Of(CriticalLog, device, type) : t = messages[k].at
    BY DEF Times
  <2>2. k \in DOMAIN messages /\ t > Today - Month * Day /\ t \in Int
    BY <2>1, Table DEF Of, CriticalLog
  <2>3. t <= now + Skew
    BY <2>1, <2>2 DEF Stamped
  <2> DEFINE month == Month * Day
  <2>4. /\ month \in Int /\ Ago = now - month /\ Today \in Int /\ now < Today + Day
        /\ now \in Nat /\ Day \in Nat /\ t > Today - month
    BY <2>2, TodayBounds, Table, ReportsAssumption
  <2> HIDE DEF month
  <2>5. t > Ago - Day
    BY <2>2, <2>4
  <2>6. QED
    BY <2>3, <2>5
<1>4. QED
  BY <1>2, <1>3

\* The critical times of a row are of less than a day before the thirty days,
\* and of no later than the fastest clock of a process shows.
THEOREM TimesNear == Spec => []CriticalTimesNear
<1>1. Init => Stamped
  BY DEF Init, Stamped
<1>2. TypeOK /\ Stamped /\ [Next]_vars => Stamped'
  BY StampedStays
<1>3. TypeOK /\ Stamped => CriticalTimesNear
  BY TimesAreNear
<1>4. QED
  BY <1>1, <1>2, <1>3, TypeCorrect, PTL DEF Spec
=============================================================================
