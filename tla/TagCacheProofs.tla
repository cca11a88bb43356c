--------------------------- MODULE TagCacheProofs ---------------------------
(***************************************************************************)
(* Safety of TagRules and TagCache for every set of processes, workers,    *)
(* rules and messages, every pool size and every bound.  First what the    *)
(* rule language guarantees for every rule set: how the map of UpdateTags  *)
(* grows row by row, and what a message sees of a map that is only partly  *)
(* filled.  Then the cache, and that it implements SessionView.            *)
(*                                                                         *)
(* The inductive invariant of the cache is built in layers, each proved    *)
(* with the help of the ones below: types and the count of refreshes a     *)
(* request has left (Typed), who holds tagsMutex (Locked), the versions a  *)
(* request may rely on (Versioned), the contents of the map (Loading), the *)
(* verdicts of messages (Judged), and which edit the rules of the map, and *)
(* then a verdict, come from (Sourced, Ruled).                             *)
(***************************************************************************)
EXTENDS TagCache, FiniteSetTheorems, WellFoundedInduction, TLAPS

-----------------------------------------------------------------------------
(* Induction.  Loaded is a recursive function: facts about all its values  *)
(* are proved by showing that a set of naturals is Nat.                    *)

\* A non-empty set of naturals has a least element.
LEMMA LeastNat ==
  ASSUME NEW T \in SUBSET Nat, T # {}
  PROVE  \E n \in T : \A k \in T : n <= k
<1>1. PICK x \in T : \A y \in T : ~ (<<y, x>> \in OpToRel(<, Nat))
  BY NatLessThanWellFounded, WFMin
<1>2. \A y \in T : ~ (y < x)
  <2>1. TAKE y \in T
  <2>2. SUFFICES ASSUME y < x PROVE <<y, x>> \in OpToRel(<, Nat)
    BY <1>1
  <2>3. <<y, x>> \in Nat \X Nat
    BY <2>1, <1>1
  <2>4. QED
    BY <2>2, <2>3 DEF OpToRel
<1>3. x \in Nat /\ \A k \in T : k \in Nat
  BY <1>1
<1>4. \A k \in T : x <= k
  BY <1>2, <1>3
<1>5. QED
  BY <1>1, <1>4

\* Induction on the naturals, stated for a set.
LEMMA SetInduction ==
  ASSUME NEW S \in SUBSET Nat, 0 \in S, \A n \in Nat : n \in S => n + 1 \in S
  PROVE  S = Nat
<1>1. SUFFICES ASSUME S # Nat PROVE FALSE
  OBVIOUS
<1> DEFINE T == Nat \ S
<1>2. PICK n \in T : \A k \in T : n <= k
  BY <1>1, LeastNat
<1>3. n # 0
  BY <1>2
<1>4. n - 1 \in Nat /\ n - 1 \in S
  BY <1>2, <1>3
<1>5. n \in S
  BY <1>4, <1>2
<1>6. QED
  BY <1>2, <1>5

-----------------------------------------------------------------------------
(* The map of UpdateTags, row by row.                                      *)

\* The recursion has a solution on every initial segment.
LEMMA LoadedExists ==
  ASSUME NEW rows, NEW d, NEW m \in Nat
  PROVE  \E f : f = [n \in 0 .. m |-> IF n = 0 THEN <<>> ELSE Load(rows[n], d, f[n - 1])]
<1> DEFINE Solves(f, k) ==
      f = [n \in 0 .. k |-> IF n = 0 THEN <<>> ELSE Load(rows[n], d, f[n - 1])]
<1> DEFINE S == {k \in Nat : \E f : Solves(f, k)}
<1>1. 0 \in S
  <2> DEFINE f == [n \in 0 .. 0 |-> <<>>]
  <2>1. Solves(f, 0)
    OBVIOUS
  <2>2. QED
    BY <2>1
<1>2. ASSUME NEW k \in Nat, k \in S PROVE k + 1 \in S
  <2>1. PICK f : Solves(f, k)
    BY <1>2
  <2> DEFINE g == [n \in 0 .. k + 1 |-> IF n = k + 1 THEN Load(rows[k + 1], d, f[k]) ELSE f[n]]
  <2>2. \A n \in 0 .. k + 1 : g[n] = IF n = 0 THEN <<>> ELSE Load(rows[n], d, g[n - 1])
    <3>1. TAKE n \in 0 .. k + 1
    <3>2. CASE n = k + 1
      <4>1. g[n - 1] = f[k]
        BY <3>2
      <4>2. QED
        BY <3>2, <4>1
    <3>3. CASE n # k + 1 /\ n # 0
      <4>1. n - 1 \in 0 .. k /\ n \in 0 .. k /\ n - 1 # k + 1
        BY <3>3
      <4>2. g[n - 1] = f[n - 1] /\ g[n] = f[n]
        BY <4>1, <3>3
      <4> HIDE DEF g
      <4>3. QED
        BY <4>1, <4>2, <2>1, <3>3
    <3>4. CASE n = 0
      <4>1. g[0] = f[0] /\ 0 \in 0 .. k
        OBVIOUS
      <4> HIDE DEF g
      <4>2. QED
        BY <4>1, <2>1, <3>4
    <3>5. QED
      BY <3>2, <3>3, <3>4
  <2>3. Solves(g, k + 1)
    BY <2>2
  <2> HIDE DEF g, Solves
  <2>4. \E h : Solves(h, k + 1)
    BY <2>3
  <2>5. QED
    BY <2>4, k + 1 \in Nat
<1> HIDE DEF S
<1>3. S = Nat
  BY <1>1, <1>2, SetInduction DEF S
<1>4. QED
  BY <1>3 DEF S

\* Loaded starts empty and grows by the rows that are usable and of device d.
LEMMA LoadedUnfolds ==
  ASSUME NEW rows \in Seq(Row), NEW d
  PROVE  /\ Loaded(rows, d)[0] = <<>>
         /\ \A n \in 1 .. Len(rows) :
              Loaded(rows, d)[n] = Load(rows[n], d, Loaded(rows, d)[n - 1])
<1>1. Len(rows) \in Nat
  OBVIOUS
<1>2. Loaded(rows, d) =
        [n \in 0 .. Len(rows) |->
           IF n = 0 THEN <<>> ELSE Load(rows[n], d, Loaded(rows, d)[n - 1])]
  BY <1>1, LoadedExists DEF Loaded
<1>3. QED
  BY <1>1, <1>2

\* Every slice holds rows only.
LEMMA LoadedType ==
  ASSUME NEW rows \in Seq(Row), NEW d
  PROVE  \A n \in 0 .. Len(rows) : Loaded(rows, d)[n] \in Seq(Row)
<1> DEFINE L == Loaded(rows, d)
           S == {n \in Nat : n <= Len(rows) => L[n] \in Seq(Row)}
<1>1. 0 \in S
  <2>1. L[0] = <<>>
    BY LoadedUnfolds
  <2>2. L[0] \in Seq(Row)
    BY <2>1, <<>> \in Seq(Row)
  <2> HIDE DEF L
  <2>3. QED
    BY <2>2
<1>2. ASSUME NEW n \in Nat, n \in S PROVE n + 1 \in S
  <2>1. SUFFICES ASSUME n + 1 <= Len(rows) PROVE L[n + 1] \in Seq(Row)
    OBVIOUS
  <2>2. L[n] \in Seq(Row) /\ rows[n + 1] \in Row
    BY <1>2, <2>1
  <2>3. L[n + 1] = Load(rows[n + 1], d, L[n])
    BY <2>1, LoadedUnfolds
  <2> HIDE DEF L
  <2>4. QED
    BY <2>2, <2>3 DEF Load
<1> HIDE DEF S
<1>3. S = Nat
  BY <1>1, <1>2, SetInduction DEF S
<1>4. QED
  BY <1>3 DEF S

\* p is an initial part of q.
Begins(p, q) == Len(p) <= Len(q) /\ \A k \in 1 .. Len(p) : p[k] = q[k]

\* The slice only grows: what a reader sees of a map that is being filled is
\* an initial part of the slice of the full map.
LEMMA LoadedGrows ==
  ASSUME NEW rows \in Seq(Row), NEW d, NEW m \in 0 .. Len(rows)
  PROVE  Begins(Loaded(rows, d)[m], Loaded(rows, d)[Len(rows)])
<1> DEFINE L == Loaded(rows, d)
           S == {n \in Nat : m <= n /\ n <= Len(rows) => Begins(L[m], L[n])}
<1>1. \A n \in 0 .. Len(rows) : L[n] \in Seq(Row)
  BY LoadedType
<1>2. 0 \in S
  BY <1>1 DEF Begins
<1>3. ASSUME NEW n \in Nat, n \in S PROVE n + 1 \in S
  <2>1. SUFFICES ASSUME m <= n + 1, n + 1 <= Len(rows) PROVE Begins(L[m], L[n + 1])
    OBVIOUS
  <2>2. CASE m = n + 1
    BY <2>2, <1>1, <2>1 DEF Begins
  <2>3. CASE m <= n
    <3>1. Begins(L[m], L[n])
      BY <2>3, <1>3, <2>1
    <3>2. L[n + 1] = Load(rows[n + 1], d, L[n])
      BY <2>1, LoadedUnfolds
    <3>3. L[n] \in Seq(Row) /\ L[m] \in Seq(Row) /\ rows[n + 1] \in Row
      BY <2>1, <1>1
    <3> HIDE DEF L
    <3>4. Begins(L[n], L[n + 1])
      BY <3>2, <3>3 DEF Load, Begins
    <3>5. QED
      BY <3>1, <3>3, <3>4, <3>2 DEF Begins, Load
  <2>4. QED
    BY <2>2, <2>3, <2>1
<1> HIDE DEF S
<1>4. S = Nat
  BY <1>2, <1>3, SetInduction DEF S
<1>5. QED
  BY <1>4, Len(rows) \in Nat DEF S

-----------------------------------------------------------------------------
(* What handleMessage decides.                                             *)

\* The loop of handleMessage stops at the least matching position.
LEMMA FirstHitLeast ==
  ASSUME NEW hits \in SUBSET Nat, hits # {}
  PROVE  FirstHit(hits) \in hits /\ \A j \in hits : FirstHit(hits) <= j
  BY LeastNat DEF FirstHit

LEMMA VerdictType ==
  ASSUME NEW list \in Seq(Row), NEW text
  PROVE  HandleMessage(list, text) \in Verdicts
<1>1. "" \in Texts
  BY RulesAssumption
<1>2. Unmatched \in Verdicts
  BY <1>1 DEF Unmatched, Stored, Verdicts
<1>3. ASSUME NEW t \in Tag, NEW found PROVE Judge(t, found) \in Verdicts
  BY <1>1 DEF Judge, Panic, Stored, Verdicts, Tag
<1>4. CASE Hits(list, text) # {}
  <2>1. Hits(list, text) \in SUBSET Nat /\ Hits(list, text) \subseteq DOMAIN list
    BY DEF Hits
  <2>2. FirstHit(Hits(list, text)) \in DOMAIN list
    BY <2>1, <1>4, FirstHitLeast
  <2>3. list[FirstHit(Hits(list, text))].tag \in Tag
    <3>1. list[FirstHit(Hits(list, text))] \in Row
      BY <2>2
    <3>2. QED
      BY <3>1 DEF Row
  <2>4. QED
    BY <2>3, <1>4, <1>3 DEF HandleMessage
<1>5. QED
  BY <1>2, <1>4 DEF HandleMessage

\* A message checked against an initial part of the rules is classified as by
\* all of them, or not at all.
THEOREM PrefixVerdict ==
  ASSUME NEW p \in Seq(Row), NEW q \in Seq(Row), Begins(p, q), NEW text
  PROVE  HandleMessage(p, text) \in {Unmatched, HandleMessage(q, text)}
<1>1. SUFFICES ASSUME Hits(p, text) # {} PROVE HandleMessage(p, text) = HandleMessage(q, text)
  BY DEF HandleMessage
<1>2. /\ Hits(p, text) \in SUBSET Nat /\ Hits(q, text) \in SUBSET Nat
      /\ Hits(p, text) \subseteq 1 .. Len(p)
  BY DEF Hits
<1>3. \A k \in 1 .. Len(p) : p[k] = q[k] /\ k \in 1 .. Len(q)
  BY DEF Begins
<1>4. \A k \in 1 .. Len(p) : k \in Hits(p, text) <=> k \in Hits(q, text)
  BY <1>3 DEF Hits
<1> DEFINE m == FirstHit(Hits(p, text))
           n == FirstHit(Hits(q, text))
<1>5. m \in Hits(p, text) /\ \A j \in Hits(p, text) : m <= j
  BY <1>1, <1>2, FirstHitLeast
<1>6. Hits(q, text) # {}
  BY <1>5, <1>4, <1>2
<1>7. n \in Hits(q, text) /\ \A j \in Hits(q, text) : n <= j
  BY <1>6, <1>2, FirstHitLeast
<1>8. m = n
  <2> HIDE DEF m, n
  <2>1. m \in 1 .. Len(p) /\ n \in Nat /\ n <= m /\ n \in 1 .. Len(q)
    BY <1>2, <1>4, <1>5, <1>7 DEF Hits
  <2>2. n \in 1 .. Len(p)
    BY <2>1
  <2>3. m <= n
    BY <2>2, <1>4, <1>5, <1>7
  <2>4. QED
    BY <2>1, <2>3
<1>9. p[m] = q[n]
  BY <1>8, <1>5, <1>3, <1>2
<1>10. QED
  BY <1>1, <1>6, <1>9 DEF HandleMessage

-----------------------------------------------------------------------------
(* The inductive invariant of the cache.                                   *)

\* A request refreshes at most twice; it has nothing left when it replies.
Counts(w) ==
  /\ todo[w] + missed[w] <= 2
  /\ pc[w] \in Refreshing => todo[w] > 0
  /\ pc[w] = "reply" => todo[w] = 0
  /\ pc[w] \in {"idle", "inserting"} => todo[w] = 0 /\ missed[w] = 0 /\ mine[w] = 0

Typed == TypeOK /\ IsFiniteSet(table) /\ \A w \in Workers : Counts(w)

-----------------------------------------------------------------------------
(* Facts about the operators.                                              *)

LEMMA Empties ==
  /\ NoScan \in Scans /\ NoJob \in Jobs /\ NoTags \in [DeviceIds -> Seq(Row)]
  /\ NoRows \in [rows: Seq(Row), version: Nat]
<1>1. 0 \in DeviceIds /\ "" \in Texts
  BY RulesAssumption
<1>2. Unmatched \in Verdicts
  BY <1>1 DEF Unmatched, Stored, Verdicts
<1>3. NoJob \in Jobs
  BY <1>1, <1>2 DEF NoJob, Jobs
<1>4. NoScan \in Scans
  BY DEF NoScan, Scans
<1>5. QED
  BY <1>3, <1>4 DEF NoTags, NoRows

\* A read returns rows of the table.
LEMMA ReadOrderType ==
  ASSUME table \subseteq Row, IsFiniteSet(table), NEW rows \in ReadOrders
  PROVE  rows \in Seq(Row)
<1>1. Cardinality(table) \in Nat
  BY FS_CardinalityType
<1>2. rows \in [1 .. Cardinality(table) -> table]
  BY DEF ReadOrders, SetToSeqs
<1>3. QED
  BY <1>1, <1>2

LEMMA GroupedType ==
  ASSUME NEW rows \in Seq(Row)
  PROVE  Grouped(rows) \in [DeviceIds -> Seq(Row)]
<1>1. Len(rows) \in 0 .. Len(rows)
  OBVIOUS
<1>2. QED
  BY <1>1, LoadedType DEF Grouped

\* The three edits leave a finite set of rows.
LEMMA EditedTable ==
  ASSUME table \subseteq Row, IsFiniteSet(table), version \in Nat, NEW t \in Tag, NEW id
  PROVE  LET created == table \cup {[id |-> version + 1, tag |-> t]}
             updated == {IF r.id = id THEN [r EXCEPT !.tag = t] ELSE r : r \in table}
             deleted == {r \in table : r.id # id}
         IN /\ created \subseteq Row /\ IsFiniteSet(created)
            /\ updated \subseteq Row /\ IsFiniteSet(updated)
            /\ deleted \subseteq Row /\ IsFiniteSet(deleted)
<1> DEFINE created == table \cup {[id |-> version + 1, tag |-> t]}
           updated == {IF r.id = id THEN [r EXCEPT !.tag = t] ELSE r : r \in table}
           deleted == {r \in table : r.id # id}
<1>1. created \subseteq Row /\ IsFiniteSet(created)
  BY FS_AddElement DEF Row
<1>2. updated \subseteq Row
  BY DEF Row
<1>3. IsFiniteSet(updated)
  <2> DEFINE f == [r \in table |-> IF r.id = id THEN [r EXCEPT !.tag = t] ELSE r]
  <2>1. f \in Surjection(table, updated)
    BY DEF Surjection
  <2>2. QED
    BY <2>1, FS_Surjection
<1>4. deleted \subseteq Row /\ IsFiniteSet(deleted)
  BY FS_Subset
<1>5. QED
  BY <1>1, <1>2, <1>3, <1>4

-----------------------------------------------------------------------------
(* Types.                                                                  *)

LEMMA InitTyped ==
  ASSUME Init
  PROVE  Typed
<1>1. TypeOK
  BY Empties DEF Init, TypeOK, Down, Stages
<1>2. IsFiniteSet(table)
  BY FS_EmptySet DEF Init
<1>3. \A w \in Workers : Counts(w)
  BY DEF Init, Counts, Refreshing
<1>4. QED
  BY <1>1, <1>2, <1>3 DEF Typed

LEMMA StopsTyped ==
  ASSUME Typed, NEW i \in Instances, NEW why \in Down, Stops(i, why)
  PROVE  Typed'
<1>1. TypeOK
  BY DEF Typed
<1>2. /\ table' \subseteq Row /\ version' \in Nat /\ messages' \in Seq(Jobs)
      /\ shown' \in [Instances -> [rows: Seq(Row), version: Nat]]
      /\ proc' \in [Instances -> Down \cup {"up"}]
  BY <1>1 DEF TypeOK, Stops
<1>3. /\ cache' \in [Instances -> [DeviceIds -> Seq(Row)]]
      /\ holder' \in [Instances -> Workers \cup {NoWorker}]
      /\ wiped' \in [Instances -> BOOLEAN]
  BY <1>1, Empties DEF TypeOK, Stops
<1>4. pc' \in [Workers -> Stages] /\ status' \in [Workers -> {"ok", "error"}]
  BY <1>1 DEF TypeOK, Stops, Stages
<1>5. todo' \in [Workers -> 0 .. 2] /\ missed' \in [Workers -> 0 .. 2]
  BY <1>1 DEF TypeOK, Stops
<1>6. mine' \in [Workers -> Nat]
  BY <1>1 DEF TypeOK, Stops
<1>7. scan' \in [Workers -> Scans] /\ job' \in [Workers -> Jobs]
  BY <1>1, Empties DEF TypeOK, Stops
<1>8. TypeOK'
  BY <1>2, <1>3, <1>4, <1>5, <1>6, <1>7 DEF TypeOK
<1>9. ASSUME NEW w \in Workers PROVE Counts(w)'
  <2>1. Counts(w)
    BY DEF Typed
  <2>2. CASE Home[w] = i
    BY <2>2 DEF Stops, Counts, Refreshing
  <2>3. CASE Home[w] # i
    BY <2>1, <2>3 DEF Stops, Counts
  <2>4. QED
    BY <2>2, <2>3
<1>10. QED
  BY <1>8, <1>9 DEF Typed, Stops

LEMMA BootTyped ==
  ASSUME Typed, NEW i \in Instances, Boot(i)
  PROVE  Typed'
<1>1. CASE \E rows \in ReadOrders :
             /\ cache' = [cache EXCEPT ![i] = Grouped(rows)]
             /\ shown' = [shown EXCEPT ![i] = [rows |-> rows, version |-> version]]
             /\ wiped' = [wiped EXCEPT ![i] = FALSE]
  <2>1. PICK rows \in ReadOrders :
             /\ cache' = [cache EXCEPT ![i] = Grouped(rows)]
             /\ shown' = [shown EXCEPT ![i] = [rows |-> rows, version |-> version]]
             /\ wiped' = [wiped EXCEPT ![i] = FALSE]
    BY <1>1
  <2>2. rows \in Seq(Row)
    BY <2>1, ReadOrderType DEF Typed, TypeOK
  <2>3. Grouped(rows) \in [DeviceIds -> Seq(Row)]
    BY <2>2, GroupedType
  <2>4. TypeOK'
    BY <2>1, <2>2, <2>3 DEF Boot, Typed, TypeOK
  <2>5. QED
    BY <2>4 DEF Boot, Counts, Typed
<1>2. CASE UNCHANGED <<cache, shown, wiped>>
  BY <1>2 DEF Boot, Counts, Typed, TypeOK
<1>3. QED
  BY <1>1, <1>2 DEF Boot

\* The transaction of an edit, and the refreshes it asks for.
LEMMA EditTagsTyped ==
  ASSUME Typed, NEW w \in Workers, Idle(w),
         NEW newTable \in SUBSET Row, IsFiniteSet(newTable),
         NEW kept \in {0, 1}, EditTags(w, newTable, kept)
  PROVE  Typed'
<1>1. todo[w] = 0 /\ missed[w] = 0 /\ mine[w] = 0
  BY DEF Idle, Counts, Typed
<1>0. /\ version \in Nat /\ todo \in [Workers -> 0 .. 2] /\ mine \in [Workers -> Nat]
      /\ pc \in [Workers -> Stages] /\ status \in [Workers -> {"ok", "error"}]
  BY DEF Typed, TypeOK
<1>2. todo' \in [Workers -> 0 .. 2] /\ todo' = [todo EXCEPT ![w] = todo'[w]]
  <2>1. PICK n \in {0, 1, 2} : todo' = [todo EXCEPT ![w] = n]
    BY DEF EditTags, Refreshes
  <2>2. QED
    BY <1>0, <2>1
<1>3. /\ table' \subseteq Row /\ IsFiniteSet(table')
      /\ version' \in Nat /\ mine' \in [Workers -> Nat]
  <2>1. table' = newTable \/ table' = table
    BY DEF EditTags
  <2>2. version' = version + 1 \/ version' = version
    BY DEF EditTags
  <2>3. mine' = [mine EXCEPT ![w] = version + 1] \/ mine' = mine
    BY DEF EditTags
  <2>4. version' \in Nat /\ mine' \in [Workers -> Nat]
    BY <1>0, <2>2, <2>3
  <2>5. QED
    BY <2>1, <2>4 DEF Typed, TypeOK
<1>4. pc' \in [Workers -> Stages] /\ status' \in [Workers -> {"ok", "error"}]
  <2>1. pc' = [pc EXCEPT ![w] = IF todo'[w] = 0 THEN "reply" ELSE "begin"]
    BY DEF EditTags
  <2>2. \E st \in {"ok", "error"} : status' = [status EXCEPT ![w] = st]
    BY DEF EditTags
  <2>3. QED
    BY <1>0, <2>1, <2>2 DEF Stages, Refreshing
<1>5. TypeOK'
  BY <1>2, <1>3, <1>4 DEF EditTags, Typed, TypeOK
<1>6. ASSUME NEW v \in Workers PROVE Counts(v)'
  <2>1. Counts(v)
    BY DEF Typed
  <2>2. CASE v = w
    <3>1. missed'[w] = 0 /\ todo'[w] \in 0 .. 2
      BY <1>1, <1>2 DEF EditTags
    <3>2. pc'[w] = IF todo'[w] = 0 THEN "reply" ELSE "begin"
      BY DEF EditTags, Typed, TypeOK
    <3>3. QED
      BY <2>2, <3>1, <3>2 DEF Counts, Refreshing
  <2>3. CASE v # w
    <3>1. /\ pc'[v] = pc[v] /\ todo'[v] = todo[v]
          /\ mine'[v] = mine[v] /\ missed'[v] = missed[v]
      BY <1>2, <2>3 DEF EditTags, Typed, TypeOK
    <3>2. QED
      BY <2>1, <3>1 DEF Counts
  <2>4. QED
    BY <2>2, <2>3
<1>7. QED
  BY <1>3, <1>5, <1>6 DEF Typed

LEMMA EditTyped ==
  ASSUME Typed, NEW w \in Workers, Edit(w)
  PROVE  Typed'
<1>1. /\ table \subseteq Row /\ IsFiniteSet(table) /\ version \in Nat
      /\ Creates \subseteq Tag /\ Edits \subseteq Tag
  BY CacheAssumption DEF Typed, TypeOK
<1>2. ASSUME NEW t \in Creates, CreateTag(w, t) PROVE Typed'
  <2> DEFINE new == table \cup {[id |-> version + 1, tag |-> t]}
  <2>1. new \in SUBSET Row /\ IsFiniteSet(new)
    <3>1. t \in Tag
      BY <1>1
    <3>2. new \subseteq Row /\ IsFiniteSet(new)
      BY ONLY <1>1, <3>1, EditedTable
    <3>3. QED
      BY ONLY <3>2
  <2>2. Idle(w) /\ EditTags(w, new, 0)
    BY <1>2 DEF CreateTag
  <2> HIDE DEF new
  <2>3. QED
    BY <2>1, <2>2, EditTagsTyped
<1>3. ASSUME NEW id, DeleteTag(w, id) PROVE Typed'
  <2> DEFINE new == {r \in table : r.id # id}
  <2>1. new \in SUBSET Row /\ IsFiniteSet(new)
    BY <1>1, FS_Subset
  <2>2. Idle(w) /\ EditTags(w, new, 0)
    BY <1>3 DEF DeleteTag
  <2> HIDE DEF new
  <2>3. QED
    BY <2>1, <2>2, EditTagsTyped
<1>4. ASSUME NEW id, NEW t \in Edits, UpdateTag(w, id, t) PROVE Typed'
  <2> DEFINE new == {IF r.id = id THEN [r EXCEPT !.tag = t] ELSE r : r \in table}
  <2>1. new \in SUBSET Row /\ IsFiniteSet(new)
    <3>1. t \in Tag
      BY <1>1
    <3>2. new \subseteq Row /\ IsFiniteSet(new)
      BY ONLY <1>1, <3>1, EditedTable
    <3>3. QED
      BY ONLY <3>2
  <2>2. Idle(w) /\ EditTags(w, new, 1)
    BY <1>4 DEF UpdateTag
  <2> HIDE DEF new
  <2>3. QED
    BY <2>1, <2>2, EditTagsTyped
<1>5. ASSUME NEW id, NEW t, RejectTag(w, t, id) PROVE Typed'
  <2>1. TypeOK'
    <3>1. \/ pc' = [pc EXCEPT ![w] = "reply"] /\ todo' = todo
          \/ pc' = [pc EXCEPT ![w] = "begin"] /\ todo' = [todo EXCEPT ![w] = 1]
      BY <1>5 DEF RejectTag
    <3>4. pc' \in [Workers -> Stages]
      BY <3>1 DEF Stages, Refreshing, Typed, TypeOK
    <3>5. todo' \in [Workers -> 0 .. 2]
      <4>1. todo \in [Workers -> 0 .. 2] /\ 1 \in 0 .. 2
        BY DEF Typed, TypeOK
      <4>2. QED
        BY <3>1, <4>1
    <3>2. status' \in [Workers -> {"ok", "error"}]
      BY <1>5 DEF RejectTag, Typed, TypeOK
    <3>3. QED
      BY <1>5, <3>2, <3>4, <3>5 DEF RejectTag, Typed, TypeOK
  <2>2. ASSUME NEW v \in Workers PROVE Counts(v)'
    <3>1. Counts(v) /\ TypeOK
      BY DEF Typed
    <3>2. QED
      BY <3>1, <1>5 DEF RejectTag, Idle, Counts, Refreshing, TypeOK
  <2>3. QED
    BY <2>1, <2>2, <1>5 DEF RejectTag, Typed
<1>6. QED
  BY <1>2, <1>3, <1>4, <1>5 DEF Edit

\* One UpdateTags call returns.
LEMMA EndRefreshTyped ==
  ASSUME Typed, NEW w \in Workers, pc[w] \in Refreshing,
         NEW lost \in {0, 1}, EndRefresh(w, lost)
  PROVE  /\ pc' \in [Workers -> Stages]
         /\ todo' \in [Workers -> 0 .. 2] /\ missed' \in [Workers -> 0 .. 2]
         /\ mine' = mine => \A v \in Workers : Counts(v)'
<1>1. /\ todo[w] \in 1 .. 2 /\ missed[w] \in 0 .. 2 /\ todo[w] + missed[w] <= 2
  BY DEF Typed, TypeOK, Counts
<1>2. /\ pc \in [Workers -> Stages] /\ todo \in [Workers -> 0 .. 2]
      /\ missed \in [Workers -> 0 .. 2]
  BY DEF Typed, TypeOK
<1>3. todo[w] - 1 \in 0 .. 2 /\ missed[w] + lost \in 0 .. 2
  BY <1>1
<1>4. /\ pc' \in [Workers -> Stages]
      /\ todo' \in [Workers -> 0 .. 2] /\ missed' \in [Workers -> 0 .. 2]
  <2>1. pc' \in [Workers -> Stages]
    BY <1>2 DEF EndRefresh, Stages, Refreshing
  <2>2. todo' \in [Workers -> 0 .. 2]
    BY <1>2, <1>3 DEF EndRefresh
  <2>3. missed' \in [Workers -> 0 .. 2]
    BY <1>2, <1>3 DEF EndRefresh
  <2>4. QED
    BY <2>1, <2>2, <2>3
<1>5. ASSUME mine' = mine, NEW v \in Workers PROVE Counts(v)'
  <2>1. CASE v = w
    <3>1. /\ todo'[w] = todo[w] - 1 /\ missed'[w] = missed[w] + lost
          /\ pc'[w] = IF todo[w] > 1 THEN "begin" ELSE "reply"
      BY <1>2 DEF EndRefresh
    <3>2. QED
      BY <2>1, <3>1, <1>1 DEF Counts, Refreshing
  <2>2. CASE v # w
    <3>1. pc'[v] = pc[v] /\ todo'[v] = todo[v] /\ missed'[v] = missed[v]
      BY <1>2, <2>2 DEF EndRefresh
    <3>2. QED
      BY <1>5, <3>1 DEF Counts, Typed
  <2>3. QED
    BY <2>1, <2>2
<1>6. QED
  BY <1>4, <1>5

LEMMA RefreshTyped ==
  ASSUME Typed, NEW w \in Workers, LockTags(w) \/ Refresh(w)
  PROVE  Typed'
<1>0. Home[w] \in Instances
  BY CacheAssumption
<1>1. CASE BeginRefresh(w)
  BY <1>1 DEF BeginRefresh, Counts, Refreshing, Stages, Typed, TypeOK
<1>2. CASE BeginFails(w)
  <2>1. pc[w] \in Refreshing /\ EndRefresh(w, 1) /\ mine' = mine
    BY <1>2 DEF BeginFails, Refreshing
  <2>2. QED
    BY <1>2, <2>1, EndRefreshTyped DEF BeginFails, Typed, TypeOK
<1>3. CASE LockTags(w)
  <2>1. cache' \in [Instances -> [DeviceIds -> Seq(Row)]]
    BY <1>3, Empties DEF LockTags, NewMap, Typed, TypeOK
  <2>2. QED
    BY <1>3, <2>1 DEF LockTags, Counts, Refreshing, Stages, Typed, TypeOK
<1>4. CASE ReadTags(w)
  <2>1. PICK rows \in ReadOrders :
          scan' = [scan EXCEPT ![w] = [rows |-> rows, version |-> version, pos |-> 0]]
    BY <1>4 DEF ReadTags
  <2>2. rows \in Seq(Row)
    BY ReadOrderType DEF Typed, TypeOK
  <2>3. scan' \in [Workers -> Scans]
    BY <2>1, <2>2 DEF Scans, Typed, TypeOK
  <2>4. QED
    BY <1>4, <2>3 DEF ReadTags, Counts, Refreshing, Stages, Typed, TypeOK
<1>5. CASE ReadFails(w)
  <2>1. pc[w] \in Refreshing /\ EndRefresh(w, 1) /\ mine' = mine
    BY <1>5 DEF ReadFails, Refreshing
  <2>2. QED
    BY <1>5, <2>1, EndRefreshTyped DEF ReadFails, Released, Typed, TypeOK
<1>6. CASE AppendTag(w)
  <2>1. scan[w] \in Scans
    BY DEF Typed, TypeOK
  <2>2. scan[w].rows \in Seq(Row) /\ scan[w].pos + 1 \in 1 .. Len(scan[w].rows)
    BY <1>6, <2>1 DEF AppendTag, Scans
  <2>3. NextRow(w) \in Row
    BY <2>2 DEF NextRow
  <2>4. NextRow(w).tag.device \in DeviceIds
    BY <2>3 DEF Row, Tag
  <2>5. cache' \in [Instances -> [DeviceIds -> Seq(Row)]]
    <3> DEFINE d == NextRow(w).tag.device
               slices == [cache[Home[w]] EXCEPT ![d] = Append(@, NextRow(w))]
    <3>1. cache \in [Instances -> [DeviceIds -> Seq(Row)]]
      BY DEF Typed, TypeOK
    <3>2. slices \in [DeviceIds -> Seq(Row)]
      BY <1>0, <2>3, <2>4, <3>1
    <3>3. cache' = [cache EXCEPT ![Home[w]] = slices] \/ cache' = cache
      BY <1>6 DEF AppendTag
    <3> HIDE DEF slices
    <3>4. QED
      BY <1>0, <3>1, <3>2, <3>3
  <2>6. scan' \in [Workers -> Scans]
    <3>1. [scan[w] EXCEPT !.pos = @ + 1] \in Scans
      BY <2>1 DEF Scans
    <3>2. scan' = [scan EXCEPT ![w] = [scan[w] EXCEPT !.pos = @ + 1]]
      BY <1>6 DEF AppendTag
    <3>3. QED
      BY <3>1, <3>2 DEF Typed, TypeOK
  <2>7. QED
    BY <1>6, <2>5, <2>6 DEF AppendTag, Counts, Typed, TypeOK
<1>7. CASE Unlock(w)
  <2>1. pc[w] \in Refreshing /\ EndRefresh(w, 0) /\ mine' = mine
    BY <1>7 DEF Unlock, Refreshing
  <2>2. scan[w].rows \in Seq(Row) /\ scan[w].version \in Nat
    BY DEF Scans, Typed, TypeOK
  <2>3. /\ shown' \in [Instances -> [rows: Seq(Row), version: Nat]]
        /\ scan' \in [Workers -> Scans]
    BY <1>7, <2>2, Empties DEF Unlock, Typed, TypeOK
  <2>4. QED
    BY <1>7, <2>1, <2>3, EndRefreshTyped DEF Unlock, Released, Typed, TypeOK
<1>8. QED
  BY <1>1, <1>2, <1>3, <1>4, <1>5, <1>6, <1>7 DEF Refresh

LEMMA MessageTyped ==
  ASSUME Typed, NEW w \in Workers, Message(w)
  PROVE  Typed'
<1>0. Home[w] \in Instances
  BY CacheAssumption
<1>1. CASE MapRace(w)
  BY <1>0, <1>1, StopsTyped DEF MapRace, Down
<1>2. ASSUME NEW m \in Arrivals, ReceiveMessage(w, m.device, m.text) PROVE Typed'
  <2> DEFINE i == Home[w]
             verdict == HandleMessage(cache[i][m.device], m.text)
             full == HandleMessage(Grouped(Snapshot(i))[m.device], m.text)
             new == [device |-> m.device, text |-> m.text, verdict |-> verdict,
                     complete |-> full, overlap |-> InRefresh(i)]
  <2>1. m.device \in DeviceIds /\ m.text \in Texts
    BY CacheAssumption
  <2>2. verdict \in Verdicts
    BY <1>0, <2>1, VerdictType DEF Typed, TypeOK
  <2>3. CASE verdict.end # "stored"
    <3>1. verdict.end \in Down
      BY <2>2, <2>3 DEF Verdicts, Down
    <3>2. Stops(i, verdict.end)
      BY <1>2, <2>3 DEF ReceiveMessage
    <3> HIDE DEF verdict
    <3>3. QED
      BY <1>0, <3>1, <3>2, StopsTyped
  <2>4. CASE verdict.end = "stored"
    <3>1. /\ Idle(w)
          /\ pc' = [pc EXCEPT ![w] = "inserting"]
          /\ job' = [job EXCEPT ![w] = new]
          /\ UNCHANGED <<table, version, messages, proc, cache, holder,
                         shown, wiped, todo, scan, status, mine, missed>>
      BY <1>2, <2>4 DEF ReceiveMessage
    <3>2. Snapshot(i) \in Seq(Row)
      <4>1. holder[i] \in Workers \cup {NoWorker}
        BY <1>0 DEF Typed, TypeOK
      <4>2. QED
        BY <1>0, <4>1 DEF Snapshot, Typed, TypeOK, Scans
    <3>3. full \in Verdicts
      BY <2>1, <3>2, GroupedType, VerdictType
    <3>4. InRefresh(i) \in BOOLEAN
      BY <1>0 DEF InRefresh, Typed, TypeOK
    <3>5. new \in Jobs
      BY <2>1, <2>2, <3>3, <3>4 DEF Jobs
    <3> HIDE DEF new
    <3>6. TypeOK'
      BY <3>1, <3>5 DEF Stages, Typed, TypeOK
    <3>7. ASSUME NEW v \in Workers PROVE Counts(v)'
      BY <3>1 DEF Idle, Counts, Refreshing, Typed, TypeOK
    <3>8. QED
      BY <3>1, <3>6, <3>7 DEF Typed
  <2>5. QED
    BY <2>3, <2>4
<1>3. QED
  BY <1>1, <1>2 DEF Message

LEMMA FinishTyped ==
  ASSUME Typed, NEW w \in Workers, Finish(w)
  PROVE  Typed'
<1>1. CASE StoreMessage(w)
  <2>1. \E s \in {"ok", "error"} : status' = [status EXCEPT ![w] = s]
    BY <1>1 DEF StoreMessage
  <2>2. status' \in [Workers -> {"ok", "error"}]
    BY <2>1 DEF Typed, TypeOK
  <2>3. messages' \in Seq(Jobs)
    BY <1>1 DEF StoreMessage, Typed, TypeOK
  <2>4. QED
    BY <1>1, <2>2, <2>3 DEF StoreMessage, Counts, Refreshing, Stages, Typed, TypeOK
<1>2. CASE StoreFails(w)
  BY <1>2 DEF StoreFails, Counts, Refreshing, Stages, Typed, TypeOK
<1>3. CASE Reply(w)
  BY <1>3, Empties DEF Reply, Fresh, Counts, Refreshing, Stages, Typed, TypeOK
<1>4. QED
  BY <1>1, <1>2, <1>3 DEF Finish

LEMMA NextTyped ==
  ASSUME Typed, [Next]_vars
  PROVE  Typed'
<1>1. CASE UNCHANGED vars
  BY <1>1 DEF vars, Typed, TypeOK, Counts
<1>2. ASSUME NEW i \in Instances, Boot(i) PROVE Typed'
  BY <1>2, BootTyped
<1>3. ASSUME NEW i \in Instances, Kill(i) PROVE Typed'
  BY <1>3, StopsTyped DEF Kill, Down
<1>4. ASSUME NEW w \in Workers, Edit(w) PROVE Typed'
  BY <1>4, EditTyped
<1>5. ASSUME NEW w \in Workers, LockTags(w) \/ Refresh(w) PROVE Typed'
  BY <1>5, RefreshTyped
<1>6. ASSUME NEW w \in Workers, Message(w) PROVE Typed'
  BY <1>6, MessageTyped
<1>7. ASSUME NEW w \in Workers, Finish(w) PROVE Typed'
  BY <1>7, FinishTyped
<1>8. QED
  BY <1>1, <1>2, <1>3, <1>4, <1>5, <1>6, <1>7 DEF Next

LEMMA TypedAlways == Spec => []Typed
<1>1. Init => Typed
  BY InitTyped
<1>2. Typed /\ [Next]_vars => Typed'
  BY NextTyped
<1>3. QED
  BY <1>1, <1>2, PTL DEF Spec

\* Every variable keeps its type, and no request asks for more refreshes than
\* its handler makes.
THEOREM TypeCorrect == Spec => []TypeOK
<1>1. Typed => TypeOK
  BY DEF Typed
<1>2. QED
  BY <1>1, TypedAlways, PTL

-----------------------------------------------------------------------------
(* The mutex.                                                              *)

Critical == {"reading", "filling"}

\* Requests run in processes that are up; a mutex is held by the one worker of
\* its process that is inside UpdateTags; rows are kept by that worker only.
Locked ==
  /\ \A w \in Workers : pc[w] # "idle" => proc[Home[w]] = "up"
  /\ RefreshExclusive
  /\ \A i \in Instances : holder[i] # NoWorker => Home[holder[i]] = i
  /\ \A w \in Workers : pc[w] # "filling" => scan[w] = NoScan

\* A step of one worker that stays outside the critical section.
LEMMA OutsideLocked ==
  ASSUME Typed, Locked, NEW w \in Workers, NEW stage,
         proc[Home[w]] = "up" \/ stage = "idle",
         pc[w] \notin Critical, stage \notin Critical,
         pc' = [pc EXCEPT ![w] = stage],
         scan' = scan \/ scan' = [scan EXCEPT ![w] = NoScan],
         UNCHANGED <<proc, holder>>
  PROVE  Locked'
<1>1. pc \in [Workers -> Stages] /\ scan \in [Workers -> Scans]
  BY DEF Typed, TypeOK
<1>2. ASSUME NEW v \in Workers
      PROVE  /\ pc'[v] # "idle" => proc'[Home[v]] = "up"
             /\ (holder'[Home[v]] = v) <=> (pc'[v] \in {"reading", "filling"})
             /\ pc'[v] # "filling" => scan'[v] = NoScan
  <2>1. CASE v = w
    BY <1>1, <2>1 DEF Locked, RefreshExclusive, Critical
  <2>2. CASE v # w
    <3>1. pc'[v] = pc[v] /\ scan'[v] = scan[v]
      BY <1>1, <2>2
    <3>2. QED
      BY <3>1 DEF Locked, RefreshExclusive
  <2>3. QED
    BY <2>1, <2>2
<1>3. QED
  BY <1>2 DEF Locked, RefreshExclusive

LEMMA StopsLocked ==
  ASSUME Typed, Locked, NEW i \in Instances, NEW why \in Down, Stops(i, why)
  PROVE  Locked'
<1>0. /\ Home \in [Workers -> Instances] /\ NoWorker \notin Workers
      /\ holder \in [Instances -> Workers \cup {NoWorker}]
      /\ proc \in [Instances -> Down \cup {"up"}]
  BY CacheAssumption DEF Typed, TypeOK
<1>1. ASSUME NEW v \in Workers
      PROVE  /\ pc'[v] # "idle" => proc'[Home[v]] = "up"
             /\ (holder'[Home[v]] = v) <=> (pc'[v] \in {"reading", "filling"})
             /\ pc'[v] # "filling" => scan'[v] = NoScan
  <2>1. CASE Home[v] = i
    <3>1. pc'[v] = "idle" /\ scan'[v] = NoScan /\ holder'[i] = NoWorker
      BY <1>0, <2>1 DEF Stops
    <3>2. QED
      BY <1>0, <2>1, <3>1
  <2>2. CASE Home[v] # i
    <3>1. /\ pc'[v] = pc[v] /\ scan'[v] = scan[v] /\ Home[v] \in Instances
          /\ holder'[Home[v]] = holder[Home[v]] /\ proc'[Home[v]] = proc[Home[v]]
      BY <1>0, <2>2 DEF Stops
    <3>2. QED
      BY <3>1 DEF Locked, RefreshExclusive
  <2>3. QED
    BY <2>1, <2>2
<1>2. \A j \in Instances : holder'[j] # NoWorker => Home[holder'[j]] = j
  BY <1>0 DEF Stops, Locked
<1>3. QED
  BY <1>1, <1>2 DEF Locked, RefreshExclusive

LEMMA RefreshLocked ==
  ASSUME Typed, Locked, NEW w \in Workers, LockTags(w) \/ Refresh(w)
  PROVE  Locked'
<1> DEFINE i == Home[w]
<1>0. /\ Home \in [Workers -> Instances] /\ NoWorker \notin Workers /\ i \in Instances
      /\ holder \in [Instances -> Workers \cup {NoWorker}]
      /\ pc \in [Workers -> Stages] /\ scan \in [Workers -> Scans]
      /\ proc \in [Instances -> Down \cup {"up"}]
  BY CacheAssumption DEF Typed, TypeOK
<1>1. CASE BeginRefresh(w)
  <2>1. proc[i] = "up"
    BY <1>1 DEF BeginRefresh, Locked
  <2>2. QED
    BY <1>1, <2>1, OutsideLocked DEF BeginRefresh, Critical
<1>2. CASE BeginFails(w)
  <2>1. proc[i] = "up"
    BY <1>2 DEF BeginFails, Locked
  <2> DEFINE stage == IF todo[w] > 1 THEN "begin" ELSE "reply"
  <2>2. pc' = [pc EXCEPT ![w] = stage] /\ stage \notin Critical
    BY <1>2 DEF BeginFails, EndRefresh, Critical
  <2>3. pc[w] \notin Critical /\ UNCHANGED <<proc, holder, scan>>
    BY <1>2 DEF BeginFails, Critical
  <2> HIDE DEF stage
  <2>4. QED
    BY <2>1, <2>2, <2>3, OutsideLocked
\* The worker that enters or leaves, its mutex, and everybody else.
<1>3. ASSUME NEW stage,
             pc' = [pc EXCEPT ![w] = stage], stage # "idle",
             pc[w] # "idle", proc' = proc,
             \/ /\ holder' = [holder EXCEPT ![i] = w] /\ stage \in Critical
                /\ holder[i] \in {w, NoWorker}
             \/ /\ holder' = [holder EXCEPT ![i] = NoWorker] /\ stage \notin Critical
                /\ holder[i] = w,
             \A v \in Workers : v # w => scan'[v] = scan[v],
             stage # "filling" => scan'[w] = NoScan
      PROVE  Locked'
  <2>1. ASSUME NEW v \in Workers
        PROVE  /\ pc'[v] # "idle" => proc'[Home[v]] = "up"
               /\ (holder'[Home[v]] = v) <=> (pc'[v] \in {"reading", "filling"})
               /\ pc'[v] # "filling" => scan'[v] = NoScan
    <3>1. CASE v = w
      BY <1>0, <1>3, <3>1 DEF Locked, Critical
    <3>2. CASE v # w
      <4>1. pc'[v] = pc[v] /\ scan'[v] = scan[v]
        BY <1>0, <1>3, <3>2
      <4>2. (holder'[Home[v]] = v) <=> (holder[Home[v]] = v)
        BY <1>0, <1>3, <3>2
      <4>3. QED
        BY <1>3, <4>1, <4>2 DEF Locked, RefreshExclusive
    <3>3. QED
      BY <3>1, <3>2
  <2>2. \A j \in Instances : holder'[j] # NoWorker => Home[holder'[j]] = j
    BY <1>0, <1>3 DEF Locked
  <2>3. QED
    BY <2>1, <2>2 DEF Locked, RefreshExclusive
<1>4. CASE LockTags(w)
  <2>1. /\ pc' = [pc EXCEPT ![w] = "reading"] /\ pc[w] = "locking" /\ proc' = proc
        /\ holder' = [holder EXCEPT ![i] = w] /\ holder[i] = NoWorker /\ scan' = scan
    BY <1>4 DEF LockTags, Lockable
  <2>2. scan'[w] = NoScan
    BY <2>1 DEF Locked
  <2>3. QED
    BY <1>3, <2>1, <2>2 DEF Critical
<1>5. ASSUME pc[w] \in Critical PROVE holder[i] = w
  BY <1>5 DEF Locked, RefreshExclusive, Critical
<1>6. CASE ReadTags(w)
  <2>1. /\ pc' = [pc EXCEPT ![w] = "filling"] /\ pc[w] = "reading" /\ proc' = proc
        /\ holder' = holder /\ \A v \in Workers : v # w => scan'[v] = scan[v]
    BY <1>0, <1>6 DEF ReadTags
  <2>2. holder[i] = w
    BY <2>1, <1>5 DEF Critical
  <2>3. holder' = [holder EXCEPT ![i] = w]
    BY <1>0, <2>1, <2>2
  <2>4. QED
    BY <1>3, <2>1, <2>2, <2>3 DEF Critical
<1>7. CASE ReadFails(w)
  <2> DEFINE stage == IF todo[w] > 1 THEN "begin" ELSE "reply"
  <2>1. /\ pc' = [pc EXCEPT ![w] = stage] /\ pc[w] = "reading" /\ proc' = proc
        /\ holder' = [holder EXCEPT ![i] = NoWorker] /\ scan' = scan
    BY <1>7 DEF ReadFails, EndRefresh, Released
  <2>2. holder[i] = w /\ scan[w] = NoScan
    BY <2>1, <1>5 DEF Critical, Locked
  <2>3. stage \notin Critical /\ stage # "idle" /\ stage # "filling"
    BY DEF Critical
  <2> HIDE DEF stage
  <2>4. QED
    BY <1>3, <2>1, <2>2, <2>3
<1>8. CASE AppendTag(w)
  <2>1. /\ pc' = pc /\ pc[w] = "filling" /\ proc' = proc
        /\ holder' = holder /\ \A v \in Workers : v # w => scan'[v] = scan[v]
    BY <1>0, <1>8 DEF AppendTag
  <2>2. QED
    BY <2>1 DEF Locked, RefreshExclusive
<1>9. CASE Unlock(w)
  <2> DEFINE stage == IF todo[w] > 1 THEN "begin" ELSE "reply"
  <2>1. /\ pc' = [pc EXCEPT ![w] = stage] /\ pc[w] = "filling" /\ proc' = proc
        /\ holder' = [holder EXCEPT ![i] = NoWorker]
        /\ scan' = [scan EXCEPT ![w] = NoScan]
    BY <1>9 DEF Unlock, EndRefresh, Released
  <2>2. holder[i] = w
    BY <2>1, <1>5 DEF Critical
  <2>3. stage \notin Critical /\ stage # "idle" /\ stage # "filling"
    BY DEF Critical
  <2>4. scan'[w] = NoScan /\ \A v \in Workers : v # w => scan'[v] = scan[v]
    BY <1>0, <2>1
  <2> HIDE DEF stage
  <2>5. /\ pc' = [pc EXCEPT ![w] = stage] /\ pc[w] # "idle" /\ proc' = proc
        /\ \/ /\ holder' = [holder EXCEPT ![i] = w] /\ stage \in Critical
              /\ holder[i] \in {w, NoWorker}
           \/ /\ holder' = [holder EXCEPT ![i] = NoWorker] /\ stage \notin Critical
              /\ holder[i] = w
    BY <2>1, <2>2, <2>3
  <2>6. QED
    BY <1>3, <2>3, <2>4, <2>5
<1>10. QED
  BY <1>1, <1>2, <1>4, <1>6, <1>7, <1>8, <1>9 DEF Refresh

LEMMA NextLocked ==
  ASSUME Typed, Locked, [Next]_vars
  PROVE  Locked'
<1>1. CASE UNCHANGED vars
  BY <1>1 DEF vars, Locked, RefreshExclusive
<1>2. ASSUME NEW i \in Instances, Boot(i) PROVE Locked'
  <2>1. /\ proc[i] # "up" /\ proc' = [proc EXCEPT ![i] = "up"]
        /\ UNCHANGED <<holder, pc, scan>>
    BY <1>2 DEF Boot
  <2>2. \A j \in Instances : proc[j] = "up" => proc'[j] = "up"
    BY <2>1 DEF Typed, TypeOK
  <2>3. QED
    BY <2>1, <2>2, CacheAssumption DEF Locked, RefreshExclusive
<1>3. ASSUME NEW i \in Instances, Kill(i) PROVE Locked'
  BY <1>3, StopsLocked DEF Kill, Down
<1>4. ASSUME NEW w \in Workers, Edit(w) PROVE Locked'
  <2>1. /\ Idle(w) /\ UNCHANGED <<proc, holder, scan>>
        /\ \E stage \in {"begin", "reply"} : pc' = [pc EXCEPT ![w] = stage]
    BY <1>4 DEF Edit, CreateTag, UpdateTag, DeleteTag, RejectTag, EditTags
  <2>2. PICK stage \in {"begin", "reply"} : pc' = [pc EXCEPT ![w] = stage]
    BY <2>1
  <2>3. stage \notin Critical /\ pc[w] \notin Critical /\ proc[Home[w]] = "up"
    BY <2>1 DEF Critical, Idle
  <2>4. QED
    BY <2>1, <2>2, <2>3, OutsideLocked
<1>5. ASSUME NEW w \in Workers, LockTags(w) \/ Refresh(w) PROVE Locked'
  BY <1>5, RefreshLocked
<1>6. ASSUME NEW w \in Workers, Message(w) PROVE Locked'
  <2>0. Home[w] \in Instances
    BY CacheAssumption
  <2>1. CASE MapRace(w)
    BY <2>0, <2>1, StopsLocked DEF MapRace, Down
  <2>2. ASSUME NEW m \in Arrivals, ReceiveMessage(w, m.device, m.text) PROVE Locked'
    <3> DEFINE verdict == HandleMessage(cache[Home[w]][m.device], m.text)
    <3>1. verdict \in Verdicts
      <4>1. m.device \in DeviceIds
        BY CacheAssumption
      <4>2. QED
        BY <2>0, <4>1, VerdictType DEF Typed, TypeOK
    <3>2. CASE verdict.end = "stored"
      BY <2>2, <3>2, OutsideLocked DEF ReceiveMessage, Idle, Critical
    <3>3. CASE verdict.end # "stored"
      <4>1. verdict.end \in Down /\ Stops(Home[w], verdict.end)
        BY <2>2, <3>1, <3>3 DEF ReceiveMessage, Verdicts, Down
      <4> HIDE DEF verdict
      <4>2. QED
        BY <2>0, <4>1, StopsLocked
    <3>4. QED
      BY <3>2, <3>3
  <2>3. QED
    BY <1>6, <2>1, <2>2 DEF Message
<1>7. ASSUME NEW w \in Workers, Finish(w) PROVE Locked'
  <2>1. CASE StoreMessage(w) \/ StoreFails(w)
    <3>1. proc[Home[w]] = "up"
      BY <2>1 DEF StoreMessage, StoreFails, Locked
    <3>2. QED
      BY <2>1, <3>1, OutsideLocked DEF StoreMessage, StoreFails, Critical
  <2>2. CASE Reply(w)
    BY <2>2, OutsideLocked DEF Reply, Fresh, Critical
  <2>3. QED
    BY <1>7, <2>1, <2>2 DEF Finish
<1>8. QED
  BY <1>1, <1>2, <1>3, <1>4, <1>5, <1>6, <1>7 DEF Next

LEMMA LockedAlways == Spec => []Locked
<1>1. Init => Locked
  <2>1. Home \in [Workers -> Instances] /\ NoWorker \notin Workers
    BY CacheAssumption
  <2>2. SUFFICES ASSUME Init PROVE Locked
    OBVIOUS
  <2>3. ASSUME NEW w \in Workers
        PROVE  pc[w] = "idle" /\ scan[w] = NoScan /\ holder[Home[w]] # w
    BY <2>1, <2>2 DEF Init
  <2>4. \A i \in Instances : holder[i] = NoWorker
    BY <2>2 DEF Init
  <2>5. QED
    BY <2>3, <2>4 DEF Locked, RefreshExclusive
<1>2. Typed /\ Locked /\ [Next]_vars => Locked'
  BY NextLocked
<1>3. QED
  BY <1>1, <1>2, TypedAlways, PTL DEF Spec

\* tagsMutex excludes: whatever reads fail and whatever processes die, the
\* body of UpdateTags runs for the holder of the mutex and for nobody else.
THEOREM RefreshesExclude == Spec => []RefreshExclusive
<1>1. Locked => RefreshExclusive
  BY DEF Locked
<1>2. QED
  BY <1>1, LockedAlways, PTL

-----------------------------------------------------------------------------
(* TagCache implements SessionView: the state last installed only moves    *)
(* forward, and an edit answered "ok" is in it unless both refreshes gave  *)
(* up.  The invariant compares version numbers: the state of the table     *)
(* that was installed, the one being loaded, the one the table has, and    *)
(* the one a client is owed.  A failed read changes none of them; that it  *)
(* leaves the map empty is the "gap" of SessionView.                       *)

\* A request that may still miss its refreshes has been shown its write; the
\* rows being loaded are no older than what is shown, and than the write.
Owed(w) ==
  /\ mine[w] <= version
  /\ todo[w] + missed[w] = 2 \/ mine[w] <= shown[Home[w]].version
  /\ pc[w] = "filling" =>
       /\ shown[Home[w]].version <= scan[w].version
       /\ mine[w] <= scan[w].version /\ scan[w].version <= version

Versioned ==
  /\ \A i \in Instances : shown[i].version <= version
  /\ \A w \in Workers : Owed(w)

LEMMA VersionTypes ==
  ASSUME Typed
  PROVE  /\ version \in Nat /\ mine \in [Workers -> Nat]
         /\ todo \in [Workers -> 0 .. 2] /\ missed \in [Workers -> 0 .. 2]
         /\ pc \in [Workers -> Stages] /\ scan \in [Workers -> Scans]
         /\ \A w \in Workers : scan[w].version \in Nat /\ Home[w] \in Instances
         /\ \A i \in Instances : shown[i].version \in Nat
         /\ shown \in [Instances -> [rows: Seq(Row), version: Nat]]
  BY CacheAssumption DEF Typed, TypeOK, Scans

\* Nothing changes for a worker whose own variables and whose process's view
\* stay, nor for one that is not loading when the view moves forward.
LEMMA OwedStays ==
  ASSUME Typed, Typed', NEW v \in Workers, Owed(v),
         version' = version \/ version' = version + 1,
         mine'[v] = mine[v], todo'[v] = todo[v], missed'[v] = missed[v],
         pc'[v] = pc[v], scan'[v] = scan[v],
         \/ shown'[Home[v]] = shown[Home[v]]
         \/ /\ pc[v] # "filling"
            /\ shown[Home[v]].version <= shown'[Home[v]].version
  PROVE  Owed(v)'
<1>1. /\ mine[v] \in Nat /\ version \in Nat /\ version' \in Nat
      /\ shown[Home[v]].version \in Nat /\ shown'[Home[v]].version \in Nat
      /\ scan[v].version \in Nat
  BY VersionTypes DEF Typed, TypeOK
<1>2. QED
  BY <1>1 DEF Owed

\* An idle worker is owed nothing.
LEMMA OwedNothing ==
  ASSUME Typed', NEW v \in Workers, mine'[v] = 0, pc'[v] # "filling"
  PROVE  Owed(v)'
<1>1. Home[v] \in Instances
  BY CacheAssumption
<1>2. version' \in Nat /\ shown'[Home[v]].version \in Nat
  BY <1>1 DEF Typed, TypeOK
<1>3. QED
  BY <1>2 DEF Owed

LEMMA StopsVersioned ==
  ASSUME Typed, Typed', Versioned, NEW i \in Instances, NEW why \in Down, Stops(i, why)
  PROVE  Versioned'
<1>1. ASSUME NEW v \in Workers PROVE Owed(v)'
  <2>1. CASE Home[v] = i
    BY <2>1, OwedNothing DEF Stops
  <2>2. CASE Home[v] # i
    BY <2>2, OwedStays DEF Stops, Versioned
  <2>3. QED
    BY <2>1, <2>2
<1>2. QED
  BY <1>1 DEF Stops, Versioned

\* One UpdateTags call of w gives up.
LEMMA GiveUpVersioned ==
  ASSUME Typed, Typed', Versioned, NEW w \in Workers, EndRefresh(w, 1),
         pc[w] \in Refreshing, UNCHANGED <<version, shown, scan, mine>>
  PROVE  Versioned'
<1>1. ASSUME NEW v \in Workers PROVE Owed(v)'
  <2>1. CASE v = w
    <3>1. /\ todo'[w] = todo[w] - 1 /\ missed'[w] = missed[w] + 1
          /\ pc'[w] \in {"begin", "reply"}
          /\ todo[w] \in 0 .. 2 /\ missed[w] \in 0 .. 2
      BY VersionTypes DEF EndRefresh
    <3>2. todo'[w] + missed'[w] = todo[w] + missed[w]
      BY <3>1
    <3>3. QED
      BY <2>1, <3>1, <3>2 DEF Owed, Versioned
  <2>2. CASE v # w
    <3>1. pc'[v] = pc[v] /\ todo'[v] = todo[v] /\ missed'[v] = missed[v]
      BY <2>2, VersionTypes DEF EndRefresh
    <3>2. QED
      BY <3>1, OwedStays DEF Versioned
  <2>3. QED
    BY <2>1, <2>2
<1>2. QED
  BY <1>1 DEF Versioned

LEMMA UnlockVersioned ==
  ASSUME Typed, Typed', Locked, Versioned, NEW w \in Workers, Unlock(w)
  PROVE  Versioned'
<1> DEFINE i == Home[w]
<1>1. /\ pc[w] = "filling" /\ UNCHANGED <<version, mine>> /\ i \in Instances
      /\ shown' = [shown EXCEPT ![i] = [rows |-> scan[w].rows, version |-> scan[w].version]]
      /\ scan' = [scan EXCEPT ![w] = NoScan] /\ EndRefresh(w, 0)
  BY CacheAssumption DEF Unlock
<1>2. shown'[i].version = scan[w].version /\ \A j \in Instances : j # i => shown'[j] = shown[j]
  BY <1>1, VersionTypes
<1>3. /\ shown[i].version <= scan[w].version /\ scan[w].version <= version
      /\ mine[w] <= scan[w].version
  BY <1>1 DEF Versioned, Owed
<1>4. ASSUME NEW v \in Workers PROVE Owed(v)'
  <2>1. CASE v = w
    <3>1. pc'[w] \in {"begin", "reply"}
      BY <1>1, VersionTypes DEF EndRefresh
    <3>2. QED
      BY <2>1, <3>1, <1>1, <1>2, <1>3 DEF Owed, Versioned
  <2>2. CASE v # w
    <3>1. /\ pc'[v] = pc[v] /\ todo'[v] = todo[v] /\ missed'[v] = missed[v]
          /\ scan'[v] = scan[v] /\ mine'[v] = mine[v]
      BY <1>1, <2>2, VersionTypes DEF EndRefresh
    <3>2. Home[v] = i => pc[v] # "filling"
      BY <1>1, <2>2 DEF Locked, RefreshExclusive
    <3>3. Home[v] \in Instances
      BY CacheAssumption
    <3>4. QED
      BY <1>1, <1>2, <1>3, <3>1, <3>2, <3>3, OwedStays DEF Versioned
  <2>3. QED
    BY <2>1, <2>2
<1>5. \A j \in Instances : shown'[j].version <= version'
  BY <1>1, <1>2, <1>3 DEF Versioned
<1>6. QED
  BY <1>4, <1>5 DEF Versioned

\* Steps that leave every version and every count alone.
LEMMA StillVersioned ==
  ASSUME Typed, Typed', Versioned, NEW w \in Workers, NEW stage,
         stage # "filling", pc' = [pc EXCEPT ![w] = stage], pc[w] # "filling",
         UNCHANGED <<version, shown, scan, mine, todo, missed>>
  PROVE  Versioned'
<1>1. ASSUME NEW v \in Workers PROVE Owed(v)'
  <2>1. CASE v = w
    BY <2>1, VersionTypes DEF Owed, Versioned
  <2>2. CASE v # w
    <3>1. pc'[v] = pc[v]
      BY <2>2, VersionTypes
    <3>2. QED
      BY <3>1, OwedStays DEF Versioned
  <2>3. QED
    BY <2>1, <2>2
<1>2. QED
  BY <1>1 DEF Versioned

\* What an edit does to versions: it may commit, and then it may owe its client
\* the new version and two refreshes; one that the client is told has failed
\* owes nothing, and makes one refresh at most.
LEMMA EditVersions ==
  ASSUME Typed, NEW w \in Workers, Edit(w)
  PROVE  /\ Idle(w) /\ UNCHANGED <<shown, scan, missed, proc, holder, wiped>>
         /\ \/ /\ version' \in {version, version + 1} /\ mine' = mine
               /\ todo' \in {todo, [todo EXCEPT ![w] = 1]}
            \/ /\ version' = version + 1 /\ mine' = [mine EXCEPT ![w] = version + 1]
               /\ todo' = [todo EXCEPT ![w] = 2]
         /\ \E stage \in {"begin", "reply"} : pc' = [pc EXCEPT ![w] = stage]
         /\ \A v \in Workers : v # w => todo'[v] = todo[v]
<1>1. todo \in [Workers -> 0 .. 2] /\ (Idle(w) => todo[w] = 0)
  BY VersionTypes DEF Typed, Counts, Idle
<1>2. ASSUME NEW newTable, NEW kept \in {0, 1}, EditTags(w, newTable, kept), Idle(w)
      PROVE  /\ UNCHANGED <<shown, scan, missed, proc, holder, wiped>>
             /\ \/ /\ version' \in {version, version + 1} /\ mine' = mine
                   /\ todo' \in {todo, [todo EXCEPT ![w] = 1]}
                \/ /\ version' = version + 1 /\ mine' = [mine EXCEPT ![w] = version + 1]
                   /\ todo' = [todo EXCEPT ![w] = 2]
             /\ \E stage \in {"begin", "reply"} : pc' = [pc EXCEPT ![w] = stage]
             /\ \A v \in Workers : v # w => todo'[v] = todo[v]
  <2>1. [todo EXCEPT ![w] = 0] = todo
    BY <1>1, <1>2
  <2>2. QED
    BY <1>1, <1>2, <2>1 DEF EditTags, Refreshes
<1>3. CASE \E t, id : RejectTag(w, t, id)
  BY <1>1, <1>3 DEF RejectTag
<1>4. CASE \E newTable : \E kept \in {0, 1} : Idle(w) /\ EditTags(w, newTable, kept)
  BY <1>2, <1>4
<1>5. QED
  BY <1>3, <1>4 DEF Edit, CreateTag, UpdateTag, DeleteTag

LEMMA EditVersioned ==
  ASSUME Typed, Typed', Versioned, NEW w \in Workers, Edit(w)
  PROVE  Versioned'
<1>1. /\ todo[w] = 0 /\ missed[w] = 0 /\ mine[w] = 0 /\ version \in Nat
  BY EditVersions, VersionTypes DEF Idle, Counts, Typed
<1>2. PICK stage \in {"begin", "reply"} : pc' = [pc EXCEPT ![w] = stage]
  BY EditVersions
<1>3. version' = version \/ version' = version + 1
  BY EditVersions
<1>4. ASSUME NEW v \in Workers PROVE Owed(v)'
  <2>1. CASE v = w
    <3>1. pc'[w] # "filling" /\ missed'[w] = 0
      BY <1>1, <1>2, EditVersions, VersionTypes
    <3>2. CASE mine' = mine
      BY <1>1, <2>1, <3>1, <3>2, OwedNothing
    <3>3. CASE /\ version' = version + 1 /\ mine' = [mine EXCEPT ![w] = version + 1]
               /\ todo' = [todo EXCEPT ![w] = 2]
      <4>1. mine'[w] = version' /\ todo'[w] = 2
        BY <3>3, VersionTypes
      <4>2. QED
        BY <1>1, <2>1, <3>1, <3>3, <4>1 DEF Owed
    <3>4. QED
      BY <3>2, <3>3, EditVersions
  <2>2. CASE v # w
    <3>1. pc'[v] = pc[v] /\ mine'[v] = mine[v] /\ todo'[v] = todo[v]
      BY <1>2, <2>2, EditVersions, VersionTypes
    <3>2. missed'[v] = missed[v] /\ scan'[v] = scan[v] /\ shown'[Home[v]] = shown[Home[v]]
      BY EditVersions
    <3>3. QED
      BY <1>3, <3>1, <3>2, OwedStays DEF Versioned
  <2>3. QED
    BY <2>1, <2>2
<1>5. \A i \in Instances : shown'[i].version <= version'
  BY <1>1, <1>3, EditVersions, VersionTypes DEF Versioned
<1>6. QED
  BY <1>4, <1>5 DEF Versioned

\* A process starts: what it shows is the table as it is, or what it was.
LEMMA BootShows ==
  ASSUME Typed, Locked, NEW i \in Instances, Boot(i)
  PROVE  /\ shown' = shown \/ \E rows : shown' = [shown EXCEPT ![i] = [rows |-> rows, version |-> version]]
         /\ \A v \in Workers : Home[v] = i => pc[v] = "idle"
  BY DEF Boot, Locked

LEMMA BootVersioned ==
  ASSUME Typed, Typed', Locked, Versioned, NEW i \in Instances, Boot(i)
  PROVE  Versioned'
<1>1. UNCHANGED <<version, pc, todo, missed, mine, scan>>
  BY DEF Boot
<1>2. /\ shown'[i] = shown[i] \/ shown'[i].version = version
      /\ \A j \in Instances : j # i => shown'[j] = shown[j]
  BY BootShows, VersionTypes
<1>3. shown[i].version <= version /\ version \in Nat /\ shown[i].version \in Nat
  BY VersionTypes DEF Versioned
<1>4. ASSUME NEW v \in Workers PROVE Owed(v)'
  <2>1. Home[v] \in Instances /\ (Home[v] = i => pc[v] = "idle")
    BY CacheAssumption, BootShows
  <2>2. QED
    BY <1>1, <1>2, <1>3, <2>1, OwedStays DEF Versioned
<1>5. QED
  BY <1>1, <1>2, <1>3, <1>4 DEF Versioned

LEMMA RefreshVersioned ==
  ASSUME Typed, Typed', Locked, Versioned, NEW w \in Workers, LockTags(w) \/ Refresh(w)
  PROVE  Versioned'
<1>1. CASE BeginRefresh(w)
  BY <1>1, StillVersioned DEF BeginRefresh
<1>2. CASE LockTags(w)
  BY <1>2, StillVersioned DEF LockTags
<1>3. CASE BeginFails(w)
  BY <1>3, GiveUpVersioned DEF BeginFails, Refreshing
<1>4. CASE ReadFails(w)
  BY <1>4, GiveUpVersioned DEF ReadFails, Refreshing
<1>5. CASE ReadTags(w)
  <2>1. /\ UNCHANGED <<version, shown, mine, todo, missed>>
        /\ pc' = [pc EXCEPT ![w] = "filling"]
        /\ \E rows : scan' = [scan EXCEPT ![w] = [rows |-> rows, version |-> version, pos |-> 0]]
    BY <1>5 DEF ReadTags
  <2>2. ASSUME NEW v \in Workers PROVE Owed(v)'
    <3>1. CASE v = w
      <4>1. scan'[w].version = version
        BY <2>1, VersionTypes
      <4>2. QED
        BY <2>1, <3>1, <4>1, VersionTypes DEF Owed, Versioned
    <3>2. CASE v # w
      <4>1. pc'[v] = pc[v] /\ scan'[v] = scan[v]
        BY <2>1, <3>2, VersionTypes
      <4>2. QED
        BY <2>1, <4>1, OwedStays DEF Versioned
    <3>3. QED
      BY <3>1, <3>2
  <2>3. QED
    BY <2>1, <2>2 DEF Versioned
<1>6. CASE AppendTag(w)
  <2>1. UNCHANGED <<version, shown, mine, todo, missed, pc>>
    BY <1>6 DEF AppendTag
  <2>2. ASSUME NEW v \in Workers PROVE scan'[v].version = scan[v].version
    BY <1>6, VersionTypes DEF AppendTag, Scans
  <2>3. QED
    BY <2>1, <2>2 DEF Versioned, Owed
<1>7. CASE Unlock(w)
  BY <1>7, UnlockVersioned
<1>8. QED
  BY <1>1, <1>2, <1>3, <1>4, <1>5, <1>6, <1>7 DEF Refresh

\* A message is accepted, or its verdict, or the runtime, stops the process.
LEMMA MessageStep ==
  ASSUME Typed, NEW w \in Workers, Message(w)
  PROVE  /\ Idle(w)
         /\ \/ \E why \in Down : Stops(Home[w], why)
            \/ /\ pc' = [pc EXCEPT ![w] = "inserting"]
               /\ UNCHANGED <<version, proc, holder, wiped, shown, scan, mine, todo, missed>>
<1>1. CASE MapRace(w)
  BY <1>1 DEF MapRace, Down
<1>2. ASSUME NEW m \in Arrivals, ReceiveMessage(w, m.device, m.text)
      PROVE  /\ Idle(w)
             /\ \/ \E why \in Down : Stops(Home[w], why)
                \/ /\ pc' = [pc EXCEPT ![w] = "inserting"]
                   /\ UNCHANGED <<version, proc, holder, wiped, shown, scan, mine, todo, missed>>
  <2> DEFINE verdict == HandleMessage(cache[Home[w]][m.device], m.text)
  <2>1. Home[w] \in Instances /\ m.device \in DeviceIds
    BY CacheAssumption
  <2>2. verdict \in Verdicts
    BY <2>1, VerdictType DEF Typed, TypeOK
  <2>3. CASE verdict.end = "stored"
    BY <1>2, <2>3 DEF ReceiveMessage
  <2>4. CASE verdict.end # "stored"
    <3>1. Idle(w) /\ verdict.end \in Down /\ Stops(Home[w], verdict.end)
      BY <1>2, <2>2, <2>4 DEF ReceiveMessage, Verdicts, Down
    <3> HIDE DEF verdict
    <3>2. QED
      BY <3>1
  <2>5. QED
    BY <2>3, <2>4
<1>3. QED
  BY <1>1, <1>2 DEF Message

LEMMA NextVersioned ==
  ASSUME Typed, Typed', Locked, Versioned, [Next]_vars
  PROVE  Versioned'
<1>1. CASE UNCHANGED vars
  BY <1>1 DEF vars, Versioned, Owed
<1>2. ASSUME NEW i \in Instances, Boot(i) PROVE Versioned'
  BY <1>2, BootVersioned
<1>3. ASSUME NEW i \in Instances, Kill(i) PROVE Versioned'
  BY <1>3, StopsVersioned DEF Kill, Down
<1>4. ASSUME NEW w \in Workers, Edit(w) PROVE Versioned'
  BY <1>4, EditVersioned
<1>5. ASSUME NEW w \in Workers, LockTags(w) \/ Refresh(w) PROVE Versioned'
  BY <1>5, RefreshVersioned
<1>6. ASSUME NEW w \in Workers, Message(w) PROVE Versioned'
  <2>1. Home[w] \in Instances
    BY CacheAssumption
  <2>2. QED
    BY <1>6, <2>1, MessageStep, StopsVersioned, StillVersioned DEF Idle
<1>7. ASSUME NEW w \in Workers, Finish(w) PROVE Versioned'
  <2>1. CASE StoreMessage(w) \/ StoreFails(w)
    BY <2>1, StillVersioned DEF StoreMessage, StoreFails
  <2>2. CASE Reply(w)
    <3>1. ASSUME NEW v \in Workers PROVE Owed(v)'
      <4>1. CASE v = w
        BY <2>2, <4>1, OwedNothing, VersionTypes DEF Reply, Fresh
      <4>2. CASE v # w
        BY <2>2, <4>2, OwedStays, VersionTypes DEF Reply, Fresh, Versioned
      <4>3. QED
        BY <4>1, <4>2
    <3>2. QED
      BY <2>2, <3>1 DEF Reply, Versioned
  <2>3. QED
    BY <1>7, <2>1, <2>2 DEF Finish
<1>8. QED
  BY <1>1, <1>2, <1>3, <1>4, <1>5, <1>6, <1>7 DEF Next

LEMMA VersionedAlways == Spec => []Versioned
<1>1. Init => Versioned
  <2>1. SUFFICES ASSUME Init PROVE Versioned
    OBVIOUS
  <2>2. version = 0 /\ \A i \in Instances : shown[i].version = 0
    BY <2>1 DEF Init, NoRows
  <2>3. ASSUME NEW w \in Workers PROVE Owed(w)
    <3>1. mine[w] = 0 /\ pc[w] = "idle" /\ Home[w] \in Instances
      BY <2>1, CacheAssumption DEF Init
    <3>2. QED
      BY <2>2, <3>1 DEF Owed
  <2>4. QED
    BY <2>2, <2>3 DEF Versioned
<1>2. Typed /\ Typed' /\ Locked /\ Versioned /\ [Next]_vars => Versioned'
  BY NextVersioned
<1>3. QED
  BY <1>1, <1>2, TypedAlways, LockedAlways, PTL DEF Spec

-----------------------------------------------------------------------------
(* Every step of TagCache is a step of SessionView or a stutter.           *)

UpNow   == [i \in Instances |-> proc[i] = "up"]
ViewNow == [i \in Instances |-> shown[i].version]
GapNow  == [i \in Instances |-> InRefresh(i)]

LEMMA Stutters ==
  ASSUME UNCHANGED <<version, proc, holder, wiped, shown, mine, todo, missed>>
  PROVE  UNCHANGED View!view_vars
BY DEF View!view_vars, InRefresh

\* The mutex of a process that is down is free.
LEMMA DownIsFree ==
  ASSUME Typed, Locked, NEW i \in Instances, proc[i] # "up"
  PROVE  holder[i] = NoWorker
<1>1. SUFFICES ASSUME holder[i] # NoWorker PROVE FALSE
  OBVIOUS
<1>2. holder[i] \in Workers /\ Home[holder[i]] = i
  BY <1>1 DEF Typed, TypeOK, Locked
<1>3. pc[holder[i]] # "idle"
  BY <1>2 DEF Locked, RefreshExclusive
<1>4. QED
  BY <1>2, <1>3 DEF Locked

LEMMA BootRefines ==
  ASSUME Typed, Locked, NEW i \in Instances, Boot(i)
  PROVE  View!Load(i)
<1>1. /\ ~ UpNow[i] /\ UNCHANGED <<version, holder, mine, todo, missed>>
      /\ proc' = [proc EXCEPT ![i] = "up"] /\ proc[i] # "up"
      /\ proc \in [Instances -> Down \cup {"up"}] /\ wiped \in [Instances -> BOOLEAN]
  BY DEF Boot, UpNow, Typed, TypeOK
<1>2. UpNow' = [UpNow EXCEPT ![i] = TRUE]
  BY <1>1 DEF UpNow
<1>3. \/ ViewNow' = [ViewNow EXCEPT ![i] = version] /\ GapNow' = [GapNow EXCEPT ![i] = FALSE]
      \/ ViewNow' = ViewNow /\ GapNow' = GapNow
  <2>1. CASE UNCHANGED <<shown, wiped>>
    BY <1>1, <2>1 DEF ViewNow, GapNow, InRefresh
  <2>2. CASE \E rows : /\ shown' = [shown EXCEPT ![i] = [rows |-> rows, version |-> version]]
                       /\ wiped' = [wiped EXCEPT ![i] = FALSE]
    <3>1. ViewNow' = [ViewNow EXCEPT ![i] = version]
      <4>1. /\ shown'[i].version = version
            /\ \A j \in Instances : j # i => shown'[j].version = shown[j].version
        BY <2>2, VersionTypes
      <4>2. QED
        BY <4>1 DEF ViewNow
    <3>2. holder'[i] = NoWorker /\ ~ wiped'[i]
      BY <1>1, <2>2, DownIsFree
    <3>3. \A j \in Instances : j # i => wiped'[j] = wiped[j]
      BY <1>1, <2>2
    <3>4. GapNow' = [GapNow EXCEPT ![i] = FALSE]
      BY <1>1, <3>2, <3>3 DEF GapNow, InRefresh
    <3>5. QED
      BY <3>1, <3>4
  <2>3. QED
    BY <2>1, <2>2 DEF Boot
<1>4. QED
  BY <1>1, <1>2, <1>3 DEF View!Load, UpNow, ViewNow, GapNow

LEMMA StopsRefines ==
  ASSUME Typed, NEW i \in Instances, NEW why \in Down, proc[i] = "up", Stops(i, why)
  PROVE  View!Stop(i)
<1>1. /\ version' = version /\ shown' = shown
      /\ mine' = [w \in Workers |-> IF Home[w] = i THEN 0 ELSE mine[w]]
      /\ todo' = [w \in Workers |-> IF Home[w] = i THEN 0 ELSE todo[w]]
      /\ missed' = [w \in Workers |-> IF Home[w] = i THEN 0 ELSE missed[w]]
      /\ proc' = [proc EXCEPT ![i] = why] /\ why # "up"
      /\ proc \in [Instances -> Down \cup {"up"}]
  BY DEF Stops, Typed, TypeOK, Down
<1>2. UpNow[i] /\ UpNow' = [UpNow EXCEPT ![i] = FALSE]
  BY <1>1 DEF UpNow
<1>3. ViewNow' = ViewNow
  BY <1>1 DEF ViewNow
<1>4. GapNow' = [GapNow EXCEPT ![i] = TRUE]
  <2>1. wiped'[i]
    BY DEF Stops, Typed, TypeOK
  <2>2. \A j \in Instances : j # i => wiped'[j] = wiped[j] /\ holder'[j] = holder[j]
    BY DEF Stops, Typed, TypeOK
  <2>3. QED
    BY <2>1, <2>2 DEF GapNow, InRefresh
<1>5. QED
  BY <1>1, <1>2, <1>3, <1>4 DEF View!Stop, UpNow, ViewNow, GapNow

LEMMA EditRefines ==
  ASSUME Typed, NEW w \in Workers, Edit(w)
  PROVE  View!Write(w)
<1>1. /\ UNCHANGED <<proc, holder, wiped, shown, missed>>
      /\ mine[w] = 0 /\ todo[w] = 0
  BY EditVersions, VersionTypes DEF Typed, Counts, Idle
<1>2. UpNow' = UpNow /\ ViewNow' = ViewNow /\ GapNow' = GapNow
  BY <1>1 DEF UpNow, ViewNow, GapNow, InRefresh
<1>3. CASE /\ version' \in {version, version + 1} /\ mine' = mine
           /\ todo' \in {todo, [todo EXCEPT ![w] = 1]}
  BY <1>1, <1>2, <1>3 DEF View!Write, UpNow, ViewNow, GapNow
<1>4. CASE /\ version' = version + 1 /\ mine' = [mine EXCEPT ![w] = version + 1]
           /\ todo' = [todo EXCEPT ![w] = 2]
  BY <1>1, <1>2, <1>4 DEF View!Write, UpNow, ViewNow, GapNow, Refreshes
<1>5. QED
  BY <1>3, <1>4, EditVersions

\* What every refresh of w does to its counts.
LEMMA EndRefreshCounts ==
  ASSUME Typed, NEW w \in Workers, NEW lost \in {0, 1}, EndRefresh(w, lost),
         pc[w] \in Refreshing
  PROVE  /\ todo[w] > 0 /\ todo' = [todo EXCEPT ![w] = @ - 1]
         /\ missed' = [missed EXCEPT ![w] = @ + lost]
  BY DEF EndRefresh, Typed, Counts

LEMMA GiveUpRefines ==
  ASSUME Typed, Locked, NEW w \in Workers, BeginFails(w) \/ ReadFails(w)
  PROVE  View!Miss(w)
<1>1. /\ UNCHANGED <<version, proc, shown, mine>>
      /\ todo[w] > 0 /\ todo' = [todo EXCEPT ![w] = @ - 1]
      /\ missed' = [missed EXCEPT ![w] = @ + 1]
  BY EndRefreshCounts DEF BeginFails, ReadFails, Refreshing
<1>2. UpNow' = UpNow /\ ViewNow' = ViewNow
  BY <1>1 DEF UpNow, ViewNow
<1>3. GapNow' = GapNow
  <2>1. CASE BeginFails(w)
    BY <2>1 DEF BeginFails, GapNow, InRefresh
  <2>2. CASE ReadFails(w)
    <3>1. /\ Home[w] \in Instances /\ holder[Home[w]] = w /\ w # NoWorker
          /\ wiped' = [wiped EXCEPT ![Home[w]] = TRUE]
          /\ holder' = [holder EXCEPT ![Home[w]] = NoWorker]
      BY <2>2, CacheAssumption DEF ReadFails, Released, Locked, RefreshExclusive
    <3>2. InRefresh(Home[w]) /\ wiped'[Home[w]]
      BY <3>1 DEF InRefresh, Typed, TypeOK
    <3>3. \A j \in Instances : j # Home[w] => wiped'[j] = wiped[j] /\ holder'[j] = holder[j]
      BY <3>1 DEF Typed, TypeOK
    <3>4. QED
      BY <3>2, <3>3 DEF GapNow, InRefresh
  <2>3. QED
    BY <2>1, <2>2
<1>4. QED
  BY <1>1, <1>2, <1>3 DEF View!Miss, UpNow, ViewNow, GapNow

LEMMA LockRefines ==
  ASSUME Typed, NEW w \in Workers, LockTags(w)
  PROVE  View!Empty(w)
<1>1. /\ UNCHANGED <<version, proc, wiped, shown, mine, todo, missed>>
      /\ holder' = [holder EXCEPT ![Home[w]] = w]
      /\ Home[w] \in Instances /\ w # NoWorker /\ todo[w] > 0
  BY CacheAssumption DEF LockTags, Typed, Counts, Refreshing
<1>2. UpNow' = UpNow /\ ViewNow' = ViewNow
  BY <1>1 DEF UpNow, ViewNow
<1>3. GapNow' = [GapNow EXCEPT ![Home[w]] = TRUE]
  <2>1. holder'[Home[w]] # NoWorker
    BY <1>1 DEF Typed, TypeOK
  <2>2. \A j \in Instances : j # Home[w] => holder'[j] = holder[j]
    BY <1>1 DEF Typed, TypeOK
  <2>3. QED
    BY <1>1, <2>1, <2>2 DEF GapNow, InRefresh
<1>4. QED
  BY <1>1, <1>2, <1>3 DEF View!Empty, UpNow, ViewNow, GapNow

LEMMA UnlockRefines ==
  ASSUME Typed, Locked, Versioned, NEW w \in Workers, Unlock(w)
  PROVE  View!Install(w)
<1> DEFINE i == Home[w]
<1>1. /\ UNCHANGED <<version, proc, mine>> /\ pc[w] = "filling"
      /\ shown' = [shown EXCEPT ![i] = [rows |-> scan[w].rows, version |-> scan[w].version]]
      /\ wiped' = [wiped EXCEPT ![i] = FALSE]
      /\ holder' = [holder EXCEPT ![i] = NoWorker]
      /\ i \in Instances /\ w # NoWorker /\ holder[i] = w
  BY CacheAssumption DEF Unlock, Released, Locked, RefreshExclusive
<1>2. /\ todo[w] > 0 /\ todo' = [todo EXCEPT ![w] = @ - 1] /\ missed' = missed
  <2>1. /\ todo[w] > 0 /\ todo' = [todo EXCEPT ![w] = @ - 1]
        /\ missed' = [missed EXCEPT ![w] = @ + 0]
    BY EndRefreshCounts DEF Unlock, Refreshing
  <2>2. missed \in [Workers -> 0 .. 2]
    BY VersionTypes
  <2>3. QED
    BY <2>1, <2>2
<1>3. UpNow' = UpNow
  BY <1>1 DEF UpNow
<1>4. /\ scan[w].version \in shown[i].version .. version
      /\ mine[w] <= scan[w].version
  BY <1>1, VersionTypes DEF Versioned, Owed
<1>5. ViewNow' = [ViewNow EXCEPT ![i] = scan[w].version] /\ ViewNow[i] = shown[i].version
  BY <1>1, VersionTypes DEF ViewNow
<1>6. GapNow[i] /\ GapNow' = [GapNow EXCEPT ![i] = FALSE]
  <2>1. holder'[i] = NoWorker /\ ~ wiped'[i]
    BY <1>1 DEF Typed, TypeOK
  <2>2. \A j \in Instances : j # i => wiped'[j] = wiped[j] /\ holder'[j] = holder[j]
    BY <1>1 DEF Typed, TypeOK
  <2>3. QED
    BY <1>1, <2>1, <2>2 DEF GapNow, InRefresh
<1>7. QED
  BY <1>1, <1>2, <1>3, <1>4, <1>5, <1>6 DEF View!Install, UpNow, ViewNow, GapNow

LEMMA RefreshRefines ==
  ASSUME Typed, Locked, Versioned, NEW w \in Workers, LockTags(w) \/ Refresh(w)
  PROVE  [View!Next]_(View!view_vars)
<1>1. CASE BeginRefresh(w) \/ ReadTags(w) \/ AppendTag(w)
  BY <1>1, Stutters DEF BeginRefresh, ReadTags, AppendTag
<1>2. CASE BeginFails(w) \/ ReadFails(w)
  BY <1>2, GiveUpRefines DEF View!Next
<1>3. CASE LockTags(w)
  BY <1>3, LockRefines DEF View!Next
<1>4. CASE Unlock(w)
  BY <1>4, UnlockRefines DEF View!Next
<1>5. QED
  BY <1>1, <1>2, <1>3, <1>4 DEF Refresh

LEMMA ReplyRefines ==
  ASSUME Typed, Versioned, NEW w \in Workers, Reply(w)
  PROVE  View!Answer(w)
<1>1. /\ UNCHANGED <<version, proc, holder, wiped, shown>>
      /\ mine' = [mine EXCEPT ![w] = 0] /\ missed' = [missed EXCEPT ![w] = 0]
      /\ todo' = [todo EXCEPT ![w] = 0]
  BY DEF Reply, Fresh
<1>2. todo[w] = 0 /\ Home[w] \in Instances /\ shown[Home[w]].version \in Nat
      /\ missed[w] \in 0 .. 2
  BY VersionTypes DEF Reply, Typed, Counts
<1>3. todo' = todo
  BY <1>1, <1>2, VersionTypes
<1>4. missed[w] < Refreshes => mine[w] <= ViewNow[Home[w]]
  BY <1>2 DEF ViewNow, Refreshes, Versioned, Owed
<1>5. UpNow' = UpNow /\ ViewNow' = ViewNow /\ GapNow' = GapNow
  BY <1>1 DEF UpNow, ViewNow, GapNow, InRefresh
<1>6. QED
  BY <1>1, <1>2, <1>3, <1>4, <1>5 DEF View!Answer, UpNow, ViewNow, GapNow

LEMMA FinishRefines ==
  ASSUME Typed, Versioned, NEW w \in Workers, Finish(w)
  PROVE  View!Answer(w) \/ UNCHANGED View!view_vars
<1>1. CASE StoreMessage(w) \/ StoreFails(w)
  BY <1>1, Stutters DEF StoreMessage, StoreFails
<1>2. QED
  BY <1>1, ReplyRefines DEF Finish

\* The tag cache of every deployment keeps the promise of SessionView: what a
\* process judges by only moves forward, has gaps only while a refresh is under
\* way and after one that failed, and has, but for a gap, every edit answered
\* "ok" of which one refresh at least was through.
THEOREM CacheImplementsView == Spec => ImplementsSessionView
<1>1. Init => View!Init
  <2>1. SUFFICES ASSUME Init PROVE View!Init
    OBVIOUS
  <2>2. /\ version = 0 /\ mine = [w \in Workers |-> 0]
        /\ todo = [w \in Workers |-> 0] /\ missed = [w \in Workers |-> 0]
        /\ shown = [i \in Instances |-> NoRows] /\ wiped = [i \in Instances |-> TRUE]
        /\ proc = [i \in Instances |-> "off"]
    BY <2>1 DEF Init
  <2>3. /\ UpNow = [i \in Instances |-> FALSE] /\ ViewNow = [i \in Instances |-> 0]
        /\ GapNow = [i \in Instances |-> TRUE]
    BY <2>2 DEF UpNow, ViewNow, GapNow, NoRows, InRefresh
  <2>4. QED
    BY <2>2, <2>3 DEF View!Init, UpNow, ViewNow, GapNow
<1>2. Typed /\ Locked /\ Versioned /\ [Next]_vars => [View!Next]_(View!view_vars)
  <2>1. SUFFICES ASSUME Typed, Locked, Versioned, [Next]_vars
                 PROVE  [View!Next]_(View!view_vars)
    OBVIOUS
  <2>2. CASE UNCHANGED vars
    BY <2>2, Stutters DEF vars
  <2>3. ASSUME NEW i \in Instances, Boot(i) PROVE [View!Next]_(View!view_vars)
    BY <2>1, <2>3, BootRefines DEF View!Next
  <2>4. ASSUME NEW i \in Instances, Kill(i) PROVE [View!Next]_(View!view_vars)
    BY <2>1, <2>4, StopsRefines DEF Kill, Down, View!Next
  <2>5. ASSUME NEW w \in Workers, Edit(w) PROVE [View!Next]_(View!view_vars)
    BY <2>1, <2>5, EditRefines DEF View!Next
  <2>6. ASSUME NEW w \in Workers, LockTags(w) \/ Refresh(w)
        PROVE  [View!Next]_(View!view_vars)
    BY <2>1, <2>6, RefreshRefines
  <2>7. ASSUME NEW w \in Workers, Message(w) PROVE [View!Next]_(View!view_vars)
    <3>1. Home[w] \in Instances
      BY CacheAssumption
    <3>2. QED
      BY <2>1, <2>7, <3>1, MessageStep, StopsRefines, Stutters DEF Idle, View!Next
  <2>8. ASSUME NEW w \in Workers, Finish(w) PROVE [View!Next]_(View!view_vars)
    BY <2>1, <2>8, FinishRefines DEF View!Next
  <2>9. QED
    BY <2>1, <2>2, <2>3, <2>4, <2>5, <2>6, <2>7, <2>8 DEF Next
<1>3. QED
  BY <1>1, <1>2, TypedAlways, LockedAlways, VersionedAlways, PTL
  DEF Spec, ImplementsSessionView, View!Spec

-----------------------------------------------------------------------------
(* What a reader that takes no mutex can see of the map, and what that     *)
(* means for the verdict on a message.  The map is at every moment the     *)
(* rows of one read of the table, up to the row reached; the slice of a    *)
(* device is then an initial part of its complete slice, and a message is  *)
(* judged by an initial part as by the whole, or not at all.  The order of *)
(* the rows chooses among the matching ones which of them decides.         *)

\* The map of one process; CacheIsSnapshot says this of all.
Mapped(i) ==
  cache[i] =
    IF holder[i] # NoWorker
    THEN [d \in DeviceIds |-> Loaded(scan[holder[i]].rows, d)[scan[holder[i]].pos]]
    ELSE IF wiped[i] THEN NoTags ELSE Grouped(shown[i].rows)

Loading ==
  /\ \A i \in Instances : Mapped(i)
  /\ \A w \in Workers : pc[w] = "filling" => scan[w].pos <= Len(scan[w].rows)

LEMMA MapTypes ==
  ASSUME Typed
  PROVE  /\ cache \in [Instances -> [DeviceIds -> Seq(Row)]]
         /\ holder \in [Instances -> Workers \cup {NoWorker}]
         /\ shown \in [Instances -> [rows: Seq(Row), version: Nat]]
         /\ wiped \in [Instances -> BOOLEAN]
         /\ pc \in [Workers -> Stages] /\ scan \in [Workers -> Scans]
         /\ Home \in [Workers -> Instances] /\ NoWorker \notin Workers
         /\ \A w \in Workers : scan[w].rows \in Seq(Row) /\ scan[w].pos \in Nat
  BY CacheAssumption DEF Typed, TypeOK, Scans

LEMMA EmptyMap == [d \in DeviceIds |-> Loaded(NoScan.rows, d)[NoScan.pos]] = NoTags
<1>1. \A d \in DeviceIds : Loaded(<<>>, d)[0] = <<>>
  BY LoadedUnfolds, <<>> \in Seq(Row)
<1>2. QED
  BY <1>1 DEF NoScan, NoTags

\* A process whose map, mutex and loader stay as they are.
LEMMA MapStays ==
  ASSUME NEW j \in Instances, Mapped(j),
         cache'[j] = cache[j], holder'[j] = holder[j],
         holder[j] # NoWorker => scan'[holder[j]] = scan[holder[j]],
         wiped'[j] = wiped[j], shown'[j] = shown[j]
  PROVE  Mapped(j)'
  BY DEF Mapped

\* Only the holder of its mutex loads a map.
LEMMA OtherMaps ==
  ASSUME Typed, Locked, NEW w \in Workers, NEW j \in Instances, j # Home[w], Mapped(j),
         cache'[j] = cache[j], holder'[j] = holder[j],
         \A v \in Workers : v # w => scan'[v] = scan[v],
         wiped'[j] = wiped[j], shown'[j] = shown[j]
  PROVE  Mapped(j)'
<1>1. holder[j] # NoWorker => holder[j] \in Workers /\ holder[j] # w
  BY MapTypes DEF Locked
<1>2. QED
  BY <1>1, MapStays

\* Steps of a worker outside the critical section.
LEMMA LoadingStays ==
  ASSUME Typed, Loading, UNCHANGED <<cache, holder, scan, wiped, shown>>,
         \A w \in Workers : pc'[w] = "filling" => pc[w] = "filling"
  PROVE  Loading'
<1>1. \A i \in Instances : Mapped(i)'
  BY DEF Loading, Mapped
<1>2. QED
  BY <1>1 DEF Loading

LEMMA StopsLoading ==
  ASSUME Typed, Locked, Loading, NEW i \in Instances, NEW why, Stops(i, why)
  PROVE  Loading'
<1>1. /\ cache' = [cache EXCEPT ![i] = NoTags] /\ holder' = [holder EXCEPT ![i] = NoWorker]
      /\ wiped' = [wiped EXCEPT ![i] = TRUE] /\ shown' = shown
      /\ scan' = [w \in Workers |-> IF Home[w] = i THEN NoScan ELSE scan[w]]
      /\ pc' = [w \in Workers |-> IF Home[w] = i THEN "idle" ELSE pc[w]]
  BY DEF Stops
<1>2. ASSUME NEW j \in Instances PROVE Mapped(j)'
  <2>1. CASE j = i
    BY <1>1, <2>1, MapTypes DEF Mapped
  <2>2. CASE j # i
    <3>1. holder[j] # NoWorker => holder[j] \in Workers /\ Home[holder[j]] = j
      BY MapTypes DEF Locked
    <3>2. /\ cache'[j] = cache[j] /\ holder'[j] = holder[j] /\ wiped'[j] = wiped[j]
          /\ shown'[j] = shown[j]
      BY <1>1, <2>2, MapTypes
    <3>3. holder[j] # NoWorker => scan'[holder[j]] = scan[holder[j]]
      BY <1>1, <2>2, <3>1
    <3>4. QED
      BY <3>2, <3>3, MapStays DEF Loading
  <2>3. QED
    BY <2>1, <2>2
<1>3. \A w \in Workers : pc'[w] = "filling" => scan'[w].pos <= Len(scan'[w].rows)
  BY <1>1 DEF Loading
<1>4. QED
  BY <1>2, <1>3 DEF Loading

LEMMA BootLoading ==
  ASSUME Typed, Locked, Loading, NEW i \in Instances, Boot(i)
  PROVE  Loading'
<1>1. UNCHANGED <<holder, pc, scan>>
  BY DEF Boot
<1>2. holder[i] = NoWorker
  <2>1. SUFFICES ASSUME holder[i] # NoWorker PROVE FALSE
    OBVIOUS
  <2>2. holder[i] \in Workers /\ Home[holder[i]] = i
    BY <2>1, MapTypes DEF Locked
  <2>3. pc[holder[i]] # "idle"
    BY <2>2 DEF Locked, RefreshExclusive
  <2>4. QED
    BY <2>2, <2>3 DEF Locked, Boot
<1>3. ASSUME NEW j \in Instances PROVE Mapped(j)'
  <2>1. CASE UNCHANGED <<cache, shown, wiped>>
    BY <1>1, <2>1, MapStays DEF Loading
  <2>2. ASSUME NEW rows,
               cache' = [cache EXCEPT ![i] = Grouped(rows)],
               shown' = [shown EXCEPT ![i] = [rows |-> rows, version |-> version]],
               wiped' = [wiped EXCEPT ![i] = FALSE]
        PROVE  Mapped(j)'
    <3>1. CASE j = i
      <4>1. cache'[i] = Grouped(rows) /\ shown'[i].rows = rows /\ wiped'[i] = FALSE
        BY <2>2, MapTypes
      <4>2. QED
        BY <1>1, <1>2, <3>1, <4>1 DEF Mapped
    <3>2. CASE j # i
      <4>1. cache'[j] = cache[j] /\ shown'[j] = shown[j] /\ wiped'[j] = wiped[j]
        BY <2>2, <3>2, MapTypes
      <4>2. QED
        BY <1>1, <4>1, MapStays DEF Loading
    <3>3. QED
      BY <3>1, <3>2
  <2>3. QED
    BY <2>1, <2>2 DEF Boot
<1>4. QED
  BY <1>1, <1>3 DEF Loading

-----------------------------------------------------------------------------
(* The refresh.                                                            *)

LEMMA LockLoading ==
  ASSUME Typed, Locked, Loading, NEW w \in Workers, LockTags(w)
  PROVE  Loading'
<1> DEFINE i == Home[w]
<1>1. /\ pc[w] = "locking" /\ holder' = [holder EXCEPT ![i] = w]
      /\ cache' = [cache EXCEPT ![i] = NoTags] /\ pc' = [pc EXCEPT ![w] = "reading"]
      /\ UNCHANGED <<scan, wiped, shown>>
  BY DEF LockTags, NewMap
<1>2. i \in Instances /\ w # NoWorker /\ scan[w] = NoScan
  BY <1>1, MapTypes DEF Locked
<1>3. cache'[i] = NoTags /\ holder'[i] = w /\ scan'[w] = NoScan
  BY <1>1, <1>2, MapTypes
<1>4. Mapped(i)'
  BY <1>2, <1>3, EmptyMap DEF Mapped
<1>5. ASSUME NEW j \in Instances, j # i PROVE Mapped(j)'
  BY <1>1, <1>5, MapTypes, OtherMaps DEF Loading
<1>6. \A v \in Workers : pc'[v] = "filling" => scan'[v].pos <= Len(scan'[v].rows)
  BY <1>1, MapTypes DEF Loading
<1>7. QED
  BY <1>4, <1>5, <1>6 DEF Loading

\* What the loader's own map is.
LEMMA OwnMap ==
  ASSUME Typed, Locked, Loading, NEW w \in Workers, pc[w] \in Critical
  PROVE  /\ holder[Home[w]] = w /\ w # NoWorker /\ Home[w] \in Instances
         /\ cache[Home[w]] = [d \in DeviceIds |-> Loaded(scan[w].rows, d)[scan[w].pos]]
<1>1. holder[Home[w]] = w /\ w # NoWorker /\ Home[w] \in Instances
  BY MapTypes DEF Locked, RefreshExclusive, Critical
<1>2. Mapped(Home[w])
  BY <1>1 DEF Loading
<1>3. QED
  BY <1>1, <1>2 DEF Mapped

LEMMA ReadLoading ==
  ASSUME Typed, Locked, Loading, NEW w \in Workers, ReadTags(w)
  PROVE  Loading'
<1> DEFINE i == Home[w]
<1>1. table \subseteq Row /\ IsFiniteSet(table)
  BY DEF Typed, TypeOK
<1>2. PICK rows \in ReadOrders :
        scan' = [scan EXCEPT ![w] = [rows |-> rows, version |-> version, pos |-> 0]]
  BY DEF ReadTags
<1>3. /\ pc[w] = "reading" /\ pc' = [pc EXCEPT ![w] = "filling"]
      /\ UNCHANGED <<cache, holder, wiped, shown>>
  BY DEF ReadTags
<1>4. rows \in Seq(Row)
  BY <1>1, ReadOrderType
<1>5. scan'[w] = [rows |-> rows, version |-> version, pos |-> 0]
  BY <1>2, MapTypes
<1>6. \A v \in Workers : v # w => scan'[v] = scan[v]
  BY <1>2, MapTypes
<1>7. holder[i] = w /\ w # NoWorker /\ i \in Instances /\ cache[i] = NoTags
  <2>1. scan[w] = NoScan
    BY <1>3 DEF Locked
  <2>2. QED
    BY <1>3, <2>1, OwnMap, EmptyMap DEF Critical
<1>8. Mapped(i)'
  <2>1. \A d \in DeviceIds : Loaded(rows, d)[0] = <<>>
    BY <1>4, LoadedUnfolds
  <2>2. cache'[i] = [d \in DeviceIds |-> Loaded(rows, d)[0]]
    BY <1>3, <1>7, <2>1 DEF NoTags
  <2>3. QED
    BY <1>3, <1>5, <1>7, <2>2 DEF Mapped
<1>9. ASSUME NEW j \in Instances, j # i PROVE Mapped(j)'
  BY <1>3, <1>6, <1>9, OtherMaps DEF Loading
<1>10. ASSUME NEW v \in Workers, pc'[v] = "filling" PROVE scan'[v].pos <= Len(scan'[v].rows)
  <2>1. CASE v = w
    BY <1>4, <1>5, <2>1
  <2>2. CASE v # w
    BY <1>3, <1>6, <1>10, <2>2, MapTypes DEF Loading
  <2>3. QED
    BY <2>1, <2>2
<1>11. QED
  BY <1>8, <1>9, <1>10 DEF Loading

LEMMA ReadFailsLoading ==
  ASSUME Typed, Locked, Loading, NEW w \in Workers, ReadFails(w)
  PROVE  Loading'
<1> DEFINE i == Home[w]
<1>1. /\ pc[w] = "reading" /\ holder' = [holder EXCEPT ![i] = NoWorker]
      /\ wiped' = [wiped EXCEPT ![i] = TRUE] /\ UNCHANGED <<cache, shown, scan>>
      /\ \E stage \in {"begin", "reply"} : pc' = [pc EXCEPT ![w] = stage]
  BY DEF ReadFails, EndRefresh, Released
<1>2. cache[i] = NoTags /\ i \in Instances
  <2>1. scan[w] = NoScan
    BY <1>1 DEF Locked
  <2>2. QED
    BY <1>1, <2>1, OwnMap, EmptyMap DEF Critical
<1>3. Mapped(i)'
  BY <1>1, <1>2, MapTypes DEF Mapped
<1>4. ASSUME NEW j \in Instances, j # i PROVE Mapped(j)'
  BY <1>1, <1>4, MapTypes, OtherMaps DEF Loading
<1>5. \A v \in Workers : pc'[v] = "filling" => scan'[v].pos <= Len(scan'[v].rows)
  BY <1>1, MapTypes DEF Loading
<1>6. QED
  BY <1>3, <1>4, <1>5 DEF Loading

LEMMA AppendLoading ==
  ASSUME Typed, Locked, Loading, NEW w \in Workers, AppendTag(w)
  PROVE  Loading'
<1> DEFINE i == Home[w]
           rows == scan[w].rows
           n == scan[w].pos
           row == rows[n + 1]
<1>1. /\ pc[w] = "filling" /\ n < Len(rows) /\ UNCHANGED <<pc, holder, wiped, shown>>
      /\ scan' = [scan EXCEPT ![w].pos = n + 1]
      /\ cache' = IF Usable(row.tag)
                  THEN [cache EXCEPT ![i][row.tag.device] = Append(@, row)] ELSE cache
  BY DEF AppendTag, NextRow
<1>2. rows \in Seq(Row) /\ n \in Nat /\ i \in Instances /\ scan[w] \in Scans
  BY MapTypes
<1>3. scan'[w].rows = rows /\ scan'[w].pos = n + 1
  BY <1>1, <1>2, MapTypes DEF Scans
<1>4. \A v \in Workers : v # w => scan'[v] = scan[v]
  BY <1>1, MapTypes
<1>5. /\ holder[i] = w /\ w # NoWorker
      /\ cache[i] = [d \in DeviceIds |-> Loaded(rows, d)[n]]
  BY <1>1, OwnMap DEF Critical
<1>6. n + 1 \in 1 .. Len(rows) /\ (n + 1) - 1 = n
  <2>1. n < Len(rows)
    BY <1>1
  <2> HIDE DEF rows, n
  <2>2. Len(rows) \in Nat
    BY <1>2
  <2>3. QED
    BY <1>2, <2>1, <2>2
<1>7. \A d \in DeviceIds : Loaded(rows, d)[n + 1] = Load(row, d, Loaded(rows, d)[n])
  <2> HIDE DEF rows, n
  <2>1. QED
    BY <1>2, <1>6, LoadedUnfolds
<1>8. \A j \in Instances : j # i => cache'[j] = cache[j]
  BY <1>1, <1>2, MapTypes
<1>9. row \in Row /\ row.tag.device \in DeviceIds
  <2>1. row \in Row
    BY <1>2, <1>6
  <2> HIDE DEF row
  <2>2. QED
    BY <2>1 DEF Row, Tag
<1> HIDE DEF row, rows, n
<1>10. cache'[i] = [d \in DeviceIds |-> Load(row, d, cache[i][d])]
  <2>1. cache[i] \in [DeviceIds -> Seq(Row)]
    BY <1>2, MapTypes
  <2>2. CASE Usable(row.tag)
    <3>1. cache'[i] = [cache[i] EXCEPT ![row.tag.device] = Append(cache[i][row.tag.device], row)]
      BY <1>1, <1>2, <2>2, MapTypes
    <3>2. QED
      BY <1>9, <2>1, <2>2, <3>1 DEF Load
  <2>3. CASE ~ Usable(row.tag)
    BY <1>1, <2>1, <2>3 DEF Load
  <2>4. QED
    BY <2>2, <2>3
<1>11. cache'[i] = [d \in DeviceIds |-> Loaded(rows, d)[n + 1]]
  BY <1>5, <1>7, <1>10
<1>12. Mapped(i)'
  BY <1>1, <1>3, <1>5, <1>11 DEF Mapped
<1>13. ASSUME NEW j \in Instances, j # i PROVE Mapped(j)'
  BY <1>1, <1>4, <1>8, <1>13, OtherMaps DEF Loading
<1>14. ASSUME NEW v \in Workers, pc'[v] = "filling" PROVE scan'[v].pos <= Len(scan'[v].rows)
  <2>1. CASE v = w
    BY <1>1, <1>2, <1>3, <2>1
  <2>2. CASE v # w
    BY <1>1, <1>4, <1>14, <2>2 DEF Loading
  <2>3. QED
    BY <2>1, <2>2
<1>15. QED
  BY <1>12, <1>13, <1>14 DEF Loading

LEMMA UnlockLoading ==
  ASSUME Typed, Locked, Loading, NEW w \in Workers, Unlock(w)
  PROVE  Loading'
<1> DEFINE i == Home[w]
<1>1. /\ pc[w] = "filling" /\ scan[w].pos = Len(scan[w].rows)
      /\ holder' = [holder EXCEPT ![i] = NoWorker] /\ cache' = cache
      /\ shown' = [shown EXCEPT ![i] = [rows |-> scan[w].rows, version |-> scan[w].version]]
      /\ wiped' = [wiped EXCEPT ![i] = FALSE] /\ scan' = [scan EXCEPT ![w] = NoScan]
      /\ \E stage \in {"begin", "reply"} : pc' = [pc EXCEPT ![w] = stage]
  BY DEF Unlock, EndRefresh, Released
<1>2. i \in Instances /\ cache[i] = Grouped(scan[w].rows)
  <2>1. cache[i] = [d \in DeviceIds |-> Loaded(scan[w].rows, d)[scan[w].pos]]
    BY <1>1, OwnMap DEF Critical
  <2>2. QED
    BY <1>1, <2>1, MapTypes DEF Grouped
<1>3. /\ holder'[i] = NoWorker /\ wiped'[i] = FALSE /\ shown'[i].rows = scan[w].rows
  BY <1>1, <1>2, MapTypes
<1>4. Mapped(i)'
  BY <1>1, <1>2, <1>3 DEF Mapped
<1>5. \A v \in Workers : v # w => scan'[v] = scan[v]
  BY <1>1, MapTypes
<1>6. ASSUME NEW j \in Instances, j # i PROVE Mapped(j)'
  BY <1>1, <1>5, <1>6, MapTypes, OtherMaps DEF Loading
<1>7. \A v \in Workers : pc'[v] = "filling" => scan'[v].pos <= Len(scan'[v].rows)
  BY <1>1, <1>5, MapTypes DEF Loading
<1>8. QED
  BY <1>4, <1>6, <1>7 DEF Loading

LEMMA NextLoading ==
  ASSUME Typed, Locked, Loading, [Next]_vars
  PROVE  Loading'
<1>1. CASE UNCHANGED vars
  BY <1>1, LoadingStays DEF vars
<1>2. ASSUME NEW i \in Instances, Boot(i) PROVE Loading'
  BY <1>2, BootLoading
<1>3. ASSUME NEW i \in Instances, Kill(i) PROVE Loading'
  BY <1>3, StopsLoading DEF Kill
<1>4. ASSUME NEW w \in Workers, Edit(w) PROVE Loading'
  <2>1. /\ UNCHANGED <<cache, holder, scan, wiped, shown>>
        /\ \E stage \in {"begin", "reply"} : pc' = [pc EXCEPT ![w] = stage]
    BY <1>4 DEF Edit, CreateTag, UpdateTag, DeleteTag, RejectTag, EditTags
  <2>2. QED
    BY <2>1, MapTypes, LoadingStays
<1>5. ASSUME NEW w \in Workers, LockTags(w) \/ Refresh(w) PROVE Loading'
  <2>1. CASE BeginRefresh(w)
    BY <2>1, MapTypes, LoadingStays DEF BeginRefresh
  <2>2. CASE BeginFails(w)
    <3>1. /\ UNCHANGED <<cache, holder, scan, wiped, shown>>
          /\ \E stage \in {"begin", "reply"} : pc' = [pc EXCEPT ![w] = stage]
      BY <2>2 DEF BeginFails, EndRefresh
    <3>2. QED
      BY <3>1, MapTypes, LoadingStays
  <2>3. QED
    BY <1>5, <2>1, <2>2, LockLoading, ReadLoading, ReadFailsLoading, AppendLoading,
       UnlockLoading DEF Refresh
<1>6. ASSUME NEW w \in Workers, Message(w) PROVE Loading'
  <2>1. CASE \E why : Stops(Home[w], why)
    BY <2>1, MapTypes, StopsLoading
  <2>2. CASE /\ UNCHANGED <<cache, holder, scan, wiped, shown>>
             /\ pc' = [pc EXCEPT ![w] = "inserting"]
    BY <2>2, MapTypes, LoadingStays
  <2>3. QED
    BY <1>6, <2>1, <2>2 DEF Message, MapRace, ReceiveMessage
<1>7. ASSUME NEW w \in Workers, Finish(w) PROVE Loading'
  <2>1. CASE StoreMessage(w) \/ StoreFails(w)
    BY <2>1, MapTypes, LoadingStays DEF StoreMessage, StoreFails
  <2>2. CASE Reply(w)
    <3>1. scan[w] = NoScan
      BY <2>2 DEF Reply, Locked
    <3>2. scan' = scan
      BY <2>2, <3>1, MapTypes DEF Reply, Fresh
    <3>3. QED
      BY <2>2, <3>2, MapTypes, LoadingStays DEF Reply
  <2>3. QED
    BY <1>7, <2>1, <2>2 DEF Finish
<1>8. QED
  BY <1>1, <1>2, <1>3, <1>4, <1>5, <1>6, <1>7 DEF Next

LEMMA LoadingAlways == Spec => []Loading
<1>1. Init => Loading
  <2>1. SUFFICES ASSUME Init PROVE Loading
    OBVIOUS
  <2>2. ASSUME NEW i \in Instances PROVE Mapped(i)
    BY <2>1, <2>2 DEF Init, Mapped
  <2>3. ASSUME NEW w \in Workers PROVE pc[w] # "filling"
    BY <2>1, <2>3 DEF Init
  <2>4. QED
    BY <2>2, <2>3 DEF Loading
<1>2. Typed /\ Locked /\ Loading /\ [Next]_vars => Loading'
  BY NextLoading
<1>3. QED
  BY <1>1, <1>2, TypedAlways, LockedAlways, PTL DEF Spec

\* The map is never a mixture of two reads, nor a read without one of its
\* rows: outside a refresh it is the last complete read, or empty.
THEOREM MapIsSnapshot == Spec => []CacheIsSnapshot
<1>1. Loading => CacheIsSnapshot
  BY DEF Loading, Mapped, CacheIsSnapshot
<1>2. QED
  BY <1>1, LoadingAlways, PTL

\* Read your writes: when an edit is answered "ok" and one of its refreshes at
\* least was through, the process that answers has installed a state with the
\* edit, and is loading none without it; and its rules are those of that state,
\* but while a refresh is under way, or when the last one failed after it had
\* emptied the map.
THEOREM AckedVisible == Spec => []AckedTagVisible
<1>1. Typed /\ Versioned /\ Loading => AckedTagVisible
  <2>1. SUFFICES ASSUME Typed, Versioned, Loading, NEW w \in Workers,
                        pc[w] = "reply", missed[w] < 2
                 PROVE  /\ shown[Home[w]].version >= mine[w]
                        /\ \A v \in Workers :
                             Home[v] = Home[w] /\ pc[v] = "filling"
                               => scan[v].version >= mine[w]
                        /\ ~ InRefresh(Home[w])
                             => cache[Home[w]] = Grouped(shown[Home[w]].rows)
    BY DEF AckedTagVisible
  <2>2. /\ Home[w] \in Instances /\ mine[w] \in Nat /\ shown[Home[w]].version \in Nat
        /\ todo[w] = 0 /\ missed[w] \in 0 .. 2
    BY <2>1, VersionTypes DEF Typed, Counts
  <2>3. mine[w] <= shown[Home[w]].version
    BY <2>1, <2>2 DEF Versioned, Owed
  <2>4. ASSUME NEW v \in Workers, Home[v] = Home[w], pc[v] = "filling"
        PROVE  scan[v].version >= mine[w]
    <3>1. shown[Home[w]].version <= scan[v].version /\ scan[v].version \in Nat
      BY <2>1, <2>4, VersionTypes DEF Versioned, Owed
    <3>2. QED
      BY <2>2, <2>3, <3>1
  <2>5. ~ InRefresh(Home[w]) => cache[Home[w]] = Grouped(shown[Home[w]].rows)
    BY <2>1, <2>2 DEF Loading, Mapped, InRefresh
  <2>6. QED
    BY <2>2, <2>3, <2>4, <2>5
<1>2. QED
  BY <1>1, TypedAlways, VersionedAlways, LoadingAlways, PTL

-----------------------------------------------------------------------------
(* The verdicts.                                                           *)

\* A message on its way to the table, and all that are in it.
Judged ==
  /\ \A w \in Workers : pc[w] = "inserting" => LosesAtMost(job[w])
  /\ WindowOnlyLoses

LEMMA JudgedStays ==
  ASSUME Judged, UNCHANGED <<messages, job>>,
         \A w \in Workers : pc'[w] = "inserting" => pc[w] = "inserting"
  PROVE  Judged'
  BY DEF Judged, WindowOnlyLoses

LEMMA StopsJudged ==
  ASSUME Judged, NEW i \in Instances, NEW why, Stops(i, why)
  PROVE  Judged'
<1>1. ASSUME NEW w \in Workers, pc'[w] = "inserting" PROVE LosesAtMost(job'[w])
  BY <1>1 DEF Stops, Judged
<1>2. messages' = messages
  BY DEF Stops
<1>3. QED
  BY <1>1, <1>2 DEF Judged, WindowOnlyLoses

\* The verdict a reader gets from the map as it is, and from the rows of the
\* read the map comes from.
LEMMA MapVerdict ==
  ASSUME Typed, Locked, Loading, NEW i \in Instances, NEW d \in DeviceIds, NEW text
  PROVE  LET verdict  == HandleMessage(cache[i][d], text)
             complete == HandleMessage(Grouped(Snapshot(i))[d], text)
         IN verdict # complete => InRefresh(i) /\ verdict = Unmatched
<1> DEFINE verdict  == HandleMessage(cache[i][d], text)
           complete == HandleMessage(Grouped(Snapshot(i))[d], text)
<1>1. Mapped(i)
  BY DEF Loading
<1>2. CASE holder[i] # NoWorker
  <2> DEFINE w == holder[i]
             rows == scan[w].rows
             n == scan[w].pos
  <2>1. w \in Workers /\ Home[w] = i
    BY <1>2, MapTypes DEF Locked
  <2>2. pc[w] \in Critical
    BY <2>1 DEF Locked, RefreshExclusive, Critical
  <2>3. rows \in Seq(Row) /\ n \in 0 .. Len(rows)
    <3>1. CASE pc[w] = "filling"
      BY <2>1, <3>1, MapTypes DEF Loading
    <3>2. CASE pc[w] = "reading"
      <4>1. scan[w] = NoScan
        BY <2>1, <3>2 DEF Locked
      <4>2. QED
        BY <4>1 DEF NoScan
    <3>3. QED
      BY <2>2, <3>1, <3>2 DEF Critical
  <2>4. cache[i][d] = Loaded(rows, d)[n] /\ Grouped(Snapshot(i))[d] = Loaded(rows, d)[Len(rows)]
    BY <1>1, <1>2 DEF Mapped, Grouped, Snapshot
  <2> HIDE DEF w, rows, n
  <2>5. Len(rows) \in 0 .. Len(rows)
    BY <2>3
  <2>6. /\ Loaded(rows, d)[n] \in Seq(Row) /\ Loaded(rows, d)[Len(rows)] \in Seq(Row)
        /\ Begins(Loaded(rows, d)[n], Loaded(rows, d)[Len(rows)])
    BY <2>3, <2>5, LoadedType, LoadedGrows
  <2>7. verdict \in {Unmatched, complete}
    BY <2>4, <2>6, PrefixVerdict
  <2>8. QED
    BY <1>2, <2>7 DEF InRefresh
<1>3. CASE holder[i] = NoWorker /\ wiped[i]
  <2>1. cache[i][d] = <<>>
    BY <1>1, <1>3 DEF Mapped, NoTags
  <2>2. verdict = Unmatched
    BY <2>1 DEF HandleMessage, Hits
  <2>3. QED
    BY <1>3, <2>2 DEF InRefresh
<1>4. CASE holder[i] = NoWorker /\ ~ wiped[i]
  BY <1>1, <1>4 DEF Mapped, Snapshot
<1>5. QED
  BY <1>2, <1>3, <1>4

LEMMA NextJudged ==
  ASSUME Typed, Locked, Loading, Judged, [Next]_vars
  PROVE  Judged'
<1>1. CASE UNCHANGED vars
  BY <1>1, JudgedStays DEF vars
<1>2. ASSUME NEW i \in Instances, Boot(i) PROVE Judged'
  BY <1>2, JudgedStays DEF Boot
<1>3. ASSUME NEW i \in Instances, Kill(i) PROVE Judged'
  BY <1>3, StopsJudged DEF Kill
<1>4. ASSUME NEW w \in Workers, Edit(w) PROVE Judged'
  <2>1. /\ UNCHANGED <<messages, job>>
        /\ \E stage \in {"begin", "reply"} : pc' = [pc EXCEPT ![w] = stage]
    BY <1>4 DEF Edit, CreateTag, UpdateTag, DeleteTag, RejectTag, EditTags
  <2>2. QED
    BY <2>1, MapTypes, JudgedStays
<1>5. ASSUME NEW w \in Workers, LockTags(w) \/ Refresh(w) PROVE Judged'
  <2>1. /\ UNCHANGED <<messages, job>>
        /\ \/ pc' = pc
           \/ \E stage \in Stages \ {"inserting"} : pc' = [pc EXCEPT ![w] = stage]
    BY <1>5 DEF Refresh, LockTags, BeginRefresh, BeginFails, ReadTags, ReadFails,
       AppendTag, Unlock, EndRefresh, Stages, Refreshing
  <2>2. QED
    BY <2>1, MapTypes, JudgedStays
<1>6. ASSUME NEW w \in Workers, Message(w) PROVE Judged'
  <2>1. CASE \E why : Stops(Home[w], why)
    BY <2>1, MapTypes, StopsJudged
  <2>2. ASSUME NEW m \in Arrivals, ReceiveMessage(w, m.device, m.text), messages' = messages,
               pc' = [pc EXCEPT ![w] = "inserting"],
               job' = [job EXCEPT ![w] =
                 [device |-> m.device, text |-> m.text,
                  verdict |-> HandleMessage(cache[Home[w]][m.device], m.text),
                  complete |-> HandleMessage(Grouped(Snapshot(Home[w]))[m.device], m.text),
                  overlap |-> InRefresh(Home[w])]]
        PROVE  Judged'
    <3>1. Home[w] \in Instances /\ m.device \in DeviceIds /\ job \in [Workers -> Jobs]
      BY CacheAssumption DEF Typed, TypeOK
    <3>2. LosesAtMost(job'[w])
      BY <2>2, <3>1, MapVerdict DEF LosesAtMost
    <3>3. \A v \in Workers : v # w => job'[v] = job[v] /\ pc'[v] = pc[v]
      BY <2>2, <3>1, MapTypes
    <3>4. QED
      BY <2>2, <3>2, <3>3 DEF Judged, WindowOnlyLoses
  <2>3. QED
    BY <1>6, <2>1, <2>2 DEF Message, MapRace, ReceiveMessage
<1>7. ASSUME NEW w \in Workers, Finish(w) PROVE Judged'
  <2>1. CASE StoreMessage(w)
    <3>1. /\ LosesAtMost(job[w]) /\ messages' = Append(messages, job[w]) /\ job' = job
          /\ pc' = [pc EXCEPT ![w] = "reply"]
      BY <2>1 DEF StoreMessage, Judged
    <3>2. messages \in Seq(Jobs) /\ job[w] \in Jobs
      BY DEF Typed, TypeOK
    <3>3. ASSUME NEW k \in DOMAIN messages' PROVE LosesAtMost(messages'[k])
      <4>1. \/ k \in DOMAIN messages /\ messages'[k] = messages[k]
            \/ messages'[k] = job[w]
        BY <3>1, <3>2, <3>3
      <4>2. QED
        BY <3>1, <4>1 DEF Judged, WindowOnlyLoses
    <3>4. QED
      BY <3>1, <3>3, MapTypes DEF Judged, WindowOnlyLoses
  <2>2. CASE StoreFails(w)
    BY <2>2, MapTypes, JudgedStays DEF StoreFails
  <2>3. CASE Reply(w)
    <3>1. /\ messages' = messages /\ pc' = [pc EXCEPT ![w] = "idle"]
          /\ job' = [job EXCEPT ![w] = NoJob] /\ job \in [Workers -> Jobs]
      BY <2>3 DEF Reply, Fresh, Typed, TypeOK
    <3>2. ASSUME NEW v \in Workers, pc'[v] = "inserting" PROVE LosesAtMost(job'[v])
      BY <3>1, <3>2, MapTypes DEF Judged
    <3>3. QED
      BY <3>1, <3>2 DEF Judged, WindowOnlyLoses
  <2>4. QED
    BY <1>7, <2>1, <2>2, <2>3 DEF Finish
<1>8. QED
  BY <1>1, <1>2, <1>3, <1>4, <1>5, <1>6, <1>7 DEF Next

\* The unlocked read of the map loses classifications and invents none: a
\* stored message has the verdict of the whole rule set, or it was judged in
\* the middle of a refresh and has none.
THEOREM UnlockedReadOnlyLoses == Spec => []WindowOnlyLoses
<1>1. Init => Judged
  BY DEF Init, Judged, WindowOnlyLoses
<1>2. Typed /\ Locked /\ Loading /\ Judged /\ [Next]_vars => Judged'
  BY NextJudged
<1>3. Judged => WindowOnlyLoses
  BY DEF Judged
<1>4. QED
  BY <1>1, <1>2, <1>3, TypedAlways, LockedAlways, LoadingAlways, PTL DEF Spec

-----------------------------------------------------------------------------
(* The order of the rules.                                                 *)

LEMMA ToSetAppend ==
  ASSUME NEW list \in Seq(Row), NEW r \in Row
  PROVE  ToSet(Append(list, r)) = ToSet(list) \cup {r}
<1> DEFINE new == Append(list, r)
<1>1. /\ Len(list) \in Nat /\ DOMAIN list = 1 .. Len(list) /\ DOMAIN new = 1 .. Len(list) + 1
      /\ new[Len(list) + 1] = r /\ \A k \in 1 .. Len(list) : new[k] = list[k]
  OBVIOUS
<1> HIDE DEF new
<1>2. ASSUME NEW x \in ToSet(new) PROVE x \in ToSet(list) \cup {r}
  BY <1>1, <1>2 DEF ToSet
<1>3. ASSUME NEW x \in ToSet(list) PROVE x \in ToSet(new)
  <2>1. PICK k \in 1 .. Len(list) : x = list[k]
    BY <1>1 DEF ToSet
  <2>2. k \in DOMAIN new /\ new[k] = x
    BY <1>1, <2>1
  <2>3. QED
    BY <2>2 DEF ToSet
<1>4. r \in ToSet(new)
  <2>1. Len(list) + 1 \in DOMAIN new
    BY <1>1
  <2>2. QED
    BY <1>1, <2>1 DEF ToSet
<1>5. QED
  BY <1>2, <1>3, <1>4 DEF new

\* The slice of a device holds its usable rows, whatever their order.
LEMMA LoadedMembers ==
  ASSUME NEW rows \in Seq(Row), NEW d
  PROVE  ToSet(Loaded(rows, d)[Len(rows)]) =
           {r \in ToSet(rows) : Usable(r.tag) /\ r.tag.device = d}
<1> DEFINE L == Loaded(rows, d)
           Kept(n) == {rows[k] : k \in {j \in 1 .. n : Usable(rows[j].tag) /\ rows[j].tag.device = d}}
           S == {n \in Nat : n <= Len(rows) => ToSet(L[n]) = Kept(n)}
<1>1. 0 \in S
  <2>1. L[0] = <<>>
    BY LoadedUnfolds
  <2>2. ToSet(<<>>) = {} /\ Kept(0) = {}
    BY DEF ToSet
  <2> HIDE DEF L, Kept
  <2>3. QED
    BY <2>1, <2>2
<1>2. ASSUME NEW n \in Nat, n \in S PROVE n + 1 \in S
  <2>1. SUFFICES ASSUME n + 1 <= Len(rows) PROVE ToSet(L[n + 1]) = Kept(n + 1)
    OBVIOUS
  <2>2. L[n] \in Seq(Row) /\ rows[n + 1] \in Row
    <3>1. n \in 0 .. Len(rows)
      BY <2>1
    <3>2. L[n] \in Seq(Row)
      BY <3>1, LoadedType
    <3>3. QED
      BY <2>1, <3>2
  <2>3. L[n + 1] = Load(rows[n + 1], d, L[n])
    BY <2>1, LoadedUnfolds
  <2>4. ToSet(L[n]) = Kept(n)
    BY <1>2, <2>1
  <2>5. CASE Usable(rows[n + 1].tag) /\ rows[n + 1].tag.device = d
    <3>1. Kept(n + 1) = Kept(n) \cup {rows[n + 1]}
      BY <2>5
    <3> HIDE DEF L, Kept
    <3>2. L[n + 1] = Append(L[n], rows[n + 1])
      BY <2>3, <2>5 DEF Load
    <3>3. ToSet(L[n + 1]) = ToSet(L[n]) \cup {rows[n + 1]}
      BY <2>2, <3>2, ToSetAppend
    <3>4. QED
      BY <2>4, <3>1, <3>3
  <2>6. CASE ~ (Usable(rows[n + 1].tag) /\ rows[n + 1].tag.device = d)
    <3>1. Kept(n + 1) = Kept(n)
      BY <2>6
    <3> HIDE DEF L, Kept
    <3>2. L[n + 1] = L[n]
      BY <2>3, <2>6 DEF Load
    <3>3. QED
      BY <2>4, <3>1, <3>2
  <2>7. QED
    BY <2>5, <2>6
<1> HIDE DEF S
<1>3. S = Nat
  BY <1>1, <1>2, SetInduction DEF S
<1>4. Len(rows) \in S
  BY <1>3
<1>5. Kept(Len(rows)) = {r \in ToSet(rows) : Usable(r.tag) /\ r.tag.device = d}
  BY DEF ToSet
<1> HIDE DEF L, Kept
<1>6. QED
  BY <1>4, <1>5 DEF S, L

\* A message is judged by a rule of the list that matches it, if there is one.
LEMMA JudgedByMatch ==
  ASSUME NEW list \in Seq(Row), NEW text
  PROVE  LET rules == {r \in ToSet(list) : Found(r, text) # <<>>}
         IN IF rules = {} THEN HandleMessage(list, text) = Unmatched
            ELSE HandleMessage(list, text) \in {Judge(r.tag, Found(r, text)) : r \in rules}
<1> DEFINE hits == Hits(list, text)
           rules == {r \in ToSet(list) : Found(r, text) # <<>>}
<1>1. hits \in SUBSET Nat /\ rules = {list[k] : k \in hits}
  BY DEF Hits, ToSet
<1> HIDE DEF rules
<1>2. ASSUME hits = {} PROVE rules = {} /\ HandleMessage(list, text) = Unmatched
  BY <1>1, <1>2 DEF HandleMessage
<1>3. ASSUME hits # {}
      PROVE  HandleMessage(list, text) \in {Judge(r.tag, Found(r, text)) : r \in rules}
  <2>1. FirstHit(hits) \in hits
    BY <1>1, <1>3, FirstHitLeast
  <2> DEFINE row == list[FirstHit(hits)]
  <2>2. row \in rules
    BY <1>1, <2>1
  <2>3. HandleMessage(list, text) = Judge(row.tag, Found(row, text))
    BY <1>3 DEF HandleMessage
  <2> HIDE DEF row
  <2>4. QED
    BY <2>2, <2>3
<1>4. rules = {} <=> hits = {}
  BY <1>1
<1>5. QED
  BY <1>2, <1>3, <1>4 DEF rules

\* Read gives the rows in any order.  Outside a refresh that order picks the
\* deciding rule among those that match, and no message goes unclassified that
\* one of them matches.
THEOREM OrderPicks == Spec => []OrderOnlyPicks
<1>1. ASSUME Typed, Loading PROVE OrderOnlyPicks
  <2> SUFFICES ASSUME NEW i \in Instances, NEW d \in DeviceIds, NEW text \in Texts, ~ InRefresh(i)
               PROVE  LET rules   == Deciders(shown[i].rows, d, text)
                          verdict == HandleMessage(cache[i][d], text)
                      IN IF rules = {} THEN verdict = Unmatched
                         ELSE verdict \in {Judge(r.tag, Found(r, text)) : r \in rules}
    BY DEF OrderOnlyPicks
  <2> DEFINE rows == shown[i].rows
             list == Loaded(rows, d)[Len(rows)]
  <2>1. rows \in Seq(Row)
    BY <1>1, MapTypes
  <2>2. cache[i][d] = list
    BY <1>1 DEF Loading, Mapped, InRefresh, Grouped
  <2>3. list \in Seq(Row)
    <3>1. Len(rows) \in 0 .. Len(rows)
      BY <2>1
    <3>2. QED
      BY <2>1, <3>1, LoadedType
  <2>4. Deciders(rows, d, text) = {r \in ToSet(list) : Found(r, text) # <<>>}
    <3>1. ToSet(list) = {r \in ToSet(rows) : Usable(r.tag) /\ r.tag.device = d}
      BY <2>1, LoadedMembers
    <3> HIDE DEF list, rows
    <3>2. QED
      BY <3>1 DEF Deciders
  <2> HIDE DEF list
  <2>5. QED
    BY <2>2, <2>3, <2>4, JudgedByMatch
<1>2. QED
  BY <1>1, TypedAlways, LoadingAlways, PTL

-----------------------------------------------------------------------------
(* Where the rules come from: each row of the table, of a read of it, or   *)
(* of a map was written by a request, and a severity is that of a rule.    *)

Asked(r) == r.tag \in Creates \cup Edits

\* What a read returned, when the table is t after v transactions: the table
\* of its time, which is t if nothing has been committed since.
ReadOf(read, t, v) ==
  /\ read.version <= v
  /\ read.version = v => ToSet(read.rows) = t
  /\ \A r \in ToSet(read.rows) : Asked(r)

Sourced ==
  /\ \A r \in table : Asked(r)
  /\ ReadOf(NoScan, table, version)
  /\ \A i \in Instances : ReadOf(shown[i], table, version)
  /\ \A w \in Workers : ReadOf(scan[w], table, version)

LEMMA ReadNow ==
  ASSUME Typed, Sourced, NEW rows \in ReadOrders
  PROVE  ToSet(rows) = table /\ \A r \in ToSet(rows) : Asked(r)
<1>1. Cardinality(table) \in Nat
  BY FS_CardinalityType DEF Typed
<1>2. rows \in [1 .. Cardinality(table) -> table]
  BY DEF ReadOrders, SetToSeqs
<1>3. \A r \in table : \E k \in 1 .. Cardinality(table) : rows[k] = r
  <2>1. rows \in Injection(1 .. Cardinality(table), table)
    BY DEF ReadOrders, SetToSeqs, Injection, IsInjective
  <2>2. Cardinality(1 .. Cardinality(table)) = Cardinality(table)
    BY <1>1, FS_Interval
  <2>3. rows \in Surjection(1 .. Cardinality(table), table)
    BY <2>1, <2>2, FS_Injection DEF Typed
  <2>4. QED
    BY <2>3 DEF Surjection
<1>4. ToSet(rows) = table
  BY <1>2, <1>3 DEF ToSet
<1>5. QED
  BY <1>4 DEF Sourced

\* An edit of the table writes what its request says.
LEMMA EditAsked ==
  ASSUME Typed, Sourced, NEW w \in Workers, Edit(w)
  PROVE  /\ \A r \in table' : Asked(r)
         /\ \/ version' = version + 1
            \/ version' = version /\ table' = table
<1> USE DEF Asked
<1>1. \A r \in table : Asked(r)
  BY DEF Sourced
<1>2. ASSUME NEW newTable, NEW kept, EditTags(w, newTable, kept), \A r \in newTable : Asked(r)
      PROVE  /\ \A r \in table' : Asked(r)
             /\ \/ version' = version + 1
                \/ version' = version /\ table' = table
  BY <1>1, <1>2 DEF EditTags
<1>3. ASSUME NEW t \in Creates, CreateTag(w, t)
      PROVE  \E kept : EditTags(w, table \cup {[id |-> version + 1, tag |-> t]}, kept)
  BY <1>3 DEF CreateTag
<1>4. ASSUME NEW t \in Creates
      PROVE  \A r \in table \cup {[id |-> version + 1, tag |-> t]} : Asked(r)
  BY <1>1
<1>5. ASSUME NEW id, NEW t \in Edits, UpdateTag(w, id, t)
      PROVE  \E kept : EditTags(w, {IF r.id = id THEN [r EXCEPT !.tag = t] ELSE r : r \in table}, kept)
  BY <1>5 DEF UpdateTag
<1>6. ASSUME NEW id, NEW t \in Edits
      PROVE  \A r \in {IF r.id = id THEN [r EXCEPT !.tag = t] ELSE r : r \in table} : Asked(r)
  BY <1>1 DEF Typed, TypeOK, Row
<1>7. ASSUME NEW id, DeleteTag(w, id)
      PROVE  \E kept : EditTags(w, {r \in table : r.id # id}, kept)
  BY <1>7 DEF DeleteTag
<1>8. ASSUME NEW id PROVE \A r \in {r \in table : r.id # id} : Asked(r)
  BY <1>1
<1>9. ASSUME NEW t, NEW id, RejectTag(w, t, id)
      PROVE  version' = version /\ table' = table
  BY <1>9 DEF RejectTag
<1>10. CASE \E t \in Creates : CreateTag(w, t)
  BY <1>2, <1>3, <1>4, <1>10
<1>11. CASE \E t \in Edits : \E id : UpdateTag(w, id, t)
  <2>1. PICK t \in Edits : \E id : UpdateTag(w, id, t)
    BY <1>11
  <2>2. PICK id : UpdateTag(w, id, t)
    BY <2>1
  <2> DEFINE updated == {IF r.id = id THEN [r EXCEPT !.tag = t] ELSE r : r \in table}
  <2>3. \E kept : EditTags(w, updated, kept)
    BY <1>5, <2>2
  <2>4. \A r \in updated : Asked(r)
    BY <1>6
  <2> HIDE DEF updated
  <2>5. QED
    BY <1>2, <2>3, <2>4
<1>12. CASE \E id : DeleteTag(w, id)
  BY <1>2, <1>7, <1>8, <1>12
<1>13. CASE \E t, id : RejectTag(w, t, id)
  BY <1>1, <1>9, <1>13
<1>14. QED
  BY <1>10, <1>11, <1>12, <1>13 DEF Edit

\* What has been read stays what it was.
LEMMA ReadStays ==
  ASSUME version \in Nat, NEW read, read.version \in Nat, ReadOf(read, table, version),
         version' = version + 1 \/ (version' = version /\ table' = table)
  PROVE  ReadOf(read, table', version')
  BY DEF ReadOf

\* The table stays, and what a process shows or reads is as before, is a new
\* read, or goes from a reader to its process.
LEMMA SourcedStays ==
  ASSUME Sourced, UNCHANGED <<table, version>>,
         \A i \in Instances : \/ shown'[i] = shown[i]
                              \/ ReadOf(shown'[i], table, version),
         \A w \in Workers : \/ scan'[w] = scan[w] \/ scan'[w] = NoScan
                            \/ ReadOf(scan'[w], table, version)
  PROVE  Sourced'
  BY DEF Sourced

LEMMA StopsSourced ==
  ASSUME Sourced, NEW i \in Instances, NEW why, Stops(i, why)
  PROVE  Sourced'
<1>1. \A w \in Workers : scan'[w] = scan[w] \/ scan'[w] = NoScan
  BY DEF Stops
<1>2. UNCHANGED <<table, version, shown>>
  BY DEF Stops
<1>3. QED
  BY <1>1, <1>2, SourcedStays

LEMMA RefreshSourced ==
  ASSUME Typed, Sourced, NEW w \in Workers, LockTags(w) \/ Refresh(w)
  PROVE  Sourced'
<1>1. /\ scan \in [Workers -> Scans] /\ shown \in [Instances -> [rows: Seq(Row), version: Nat]]
      /\ version \in Nat /\ Home[w] \in Instances
  BY VersionTypes
<1>2. CASE LockTags(w) \/ BeginRefresh(w) \/ BeginFails(w) \/ ReadFails(w)
  <2>1. UNCHANGED <<table, version, shown, scan>>
    BY <1>2 DEF LockTags, BeginRefresh, BeginFails, ReadFails
  <2>2. QED
    BY <2>1, SourcedStays
<1>3. CASE ReadTags(w)
  <2>1. PICK rows \in ReadOrders :
          scan' = [scan EXCEPT ![w] = [rows |-> rows, version |-> version, pos |-> 0]]
    BY <1>3 DEF ReadTags
  <2>2. ReadOf(scan'[w], table, version)
    <3>1. scan'[w].rows = rows /\ scan'[w].version = version
      BY <1>1, <2>1
    <3>2. QED
      BY <1>1, <3>1, ReadNow DEF ReadOf
  <2>3. \A v \in Workers : v # w => scan'[v] = scan[v]
    BY <1>1, <2>1
  <2>4. UNCHANGED <<table, version, shown>>
    BY <1>3 DEF ReadTags
  <2>5. QED
    BY <2>2, <2>3, <2>4, SourcedStays
<1>4. CASE AppendTag(w)
  <2>1. scan' = [scan EXCEPT ![w].pos = @ + 1] /\ UNCHANGED <<table, version, shown>>
    BY <1>4 DEF AppendTag
  <2>2. /\ scan'[w].rows = scan[w].rows /\ scan'[w].version = scan[w].version
        /\ \A v \in Workers : v # w => scan'[v] = scan[v]
    BY <1>1, <2>1 DEF Scans
  <2>3. ReadOf(scan[w], table, version)
    BY DEF Sourced
  <2>4. ReadOf(scan'[w], table, version)
    BY <2>2, <2>3 DEF ReadOf
  <2>5. QED
    BY <2>1, <2>2, <2>4, SourcedStays
<1>5. CASE Unlock(w)
  <2>1. /\ shown' = [shown EXCEPT ![Home[w]] = [rows |-> scan[w].rows, version |-> scan[w].version]]
        /\ scan' = [scan EXCEPT ![w] = NoScan] /\ UNCHANGED <<table, version>>
    BY <1>5 DEF Unlock
  <2>2. ReadOf(shown'[Home[w]], table, version)
    <3>1. shown'[Home[w]].rows = scan[w].rows /\ shown'[Home[w]].version = scan[w].version
      BY <1>1, <2>1
    <3>2. ReadOf(scan[w], table, version)
      BY DEF Sourced
    <3>3. QED
      BY <3>1, <3>2 DEF ReadOf
  <2>3. /\ \A i \in Instances : i # Home[w] => shown'[i] = shown[i]
        /\ \A v \in Workers : scan'[v] = scan[v] \/ scan'[v] = NoScan
    BY <1>1, <2>1
  <2>4. QED
    BY <2>1, <2>2, <2>3, SourcedStays
<1>6. QED
  BY <1>2, <1>3, <1>4, <1>5 DEF Refresh

LEMMA NextSourced ==
  ASSUME Typed, Sourced, [Next]_vars
  PROVE  Sourced'
<1>1. CASE UNCHANGED vars
  BY <1>1, SourcedStays DEF vars
<1>2. ASSUME NEW i \in Instances, Boot(i) PROVE Sourced'
  <2>1. UNCHANGED <<table, version, scan>>
    BY <1>2 DEF Boot
  <2>2. ASSUME NEW rows \in ReadOrders,
               shown' = [shown EXCEPT ![i] = [rows |-> rows, version |-> version]]
        PROVE  \A j \in Instances : shown'[j] = shown[j] \/ ReadOf(shown'[j], table, version)
    <3>1. /\ shown'[i].rows = rows /\ shown'[i].version = version
          /\ \A j \in Instances : j # i => shown'[j] = shown[j]
      BY <2>2, VersionTypes
    <3>2. ReadOf(shown'[i], table, version)
      BY <3>1, ReadNow, VersionTypes DEF ReadOf
    <3>3. QED
      BY <3>1, <3>2
  <2>3. \A j \in Instances : shown'[j] = shown[j] \/ ReadOf(shown'[j], table, version)
    BY <1>2, <2>2 DEF Boot
  <2>4. QED
    BY <2>1, <2>3, SourcedStays
<1>3. ASSUME NEW i \in Instances, Kill(i) PROVE Sourced'
  BY <1>3, StopsSourced DEF Kill
<1>4. ASSUME NEW w \in Workers, Edit(w) PROVE Sourced'
  <2>1. UNCHANGED <<shown, scan>>
    BY <1>4, EditVersions
  <2>2. /\ NoScan.version \in Nat
        /\ \A i \in Instances : shown[i].version \in Nat
        /\ \A v \in Workers : scan[v].version \in Nat
    BY VersionTypes DEF NoScan
  <2>3. version \in Nat
    BY VersionTypes
  <2>4. QED
    BY <1>4, <2>1, <2>2, <2>3, EditAsked, ReadStays DEF Sourced
<1>5. ASSUME NEW w \in Workers, LockTags(w) \/ Refresh(w) PROVE Sourced'
  BY <1>5, RefreshSourced
<1>6. ASSUME NEW w \in Workers, Message(w) PROVE Sourced'
  <2>1. CASE \E why : Stops(Home[w], why)
    BY <2>1, MapTypes, StopsSourced
  <2>2. CASE UNCHANGED <<table, version, shown, scan>>
    BY <2>2, SourcedStays
  <2>3. QED
    BY <1>6, <2>1, <2>2 DEF Message, MapRace, ReceiveMessage
<1>7. ASSUME NEW w \in Workers, Finish(w) PROVE Sourced'
  <2>1. /\ UNCHANGED <<table, version, shown>>
        /\ \A v \in Workers : scan'[v] = scan[v] \/ scan'[v] = NoScan
    BY <1>7, MapTypes DEF Finish, StoreMessage, StoreFails, Reply, Fresh
  <2>2. QED
    BY <2>1, SourcedStays
<1>8. QED
  BY <1>1, <1>2, <1>3, <1>4, <1>5, <1>6, <1>7 DEF Next

LEMMA SourcedAlways == Spec => []Sourced
<1>1. Init => Sourced
  <2>1. ToSet(<<>>) = {}
    BY DEF ToSet
  <2>2. QED
    BY <2>1 DEF Init, Sourced, ReadOf, NoRows, NoScan
<1>2. Typed /\ Sourced /\ [Next]_vars => Sourced'
  BY NextSourced
<1>3. QED
  BY <1>1, <1>2, TypedAlways, PTL DEF Spec

\* A rule of its device, which a request has written, gives a message its severity.
Ruled(m) ==
  m.verdict.severity # "" =>
    \E t \in Creates \cup Edits : t.device = m.device /\ t.severity = m.verdict.severity

AllRuled ==
  /\ \A w \in Workers : pc[w] = "inserting" => Ruled(job[w])
  /\ \A k \in DOMAIN messages : Ruled(messages[k])

\* The rows of a slice of the map were written for its device.
LEMMA MapAsked ==
  ASSUME Typed, Locked, Loading, Sourced, NEW i \in Instances, NEW d \in DeviceIds
  PROVE  \A r \in ToSet(cache[i][d]) : Asked(r) /\ r.tag.device = d
<1>1. Mapped(i)
  BY DEF Loading
<1>2. ASSUME NEW rows \in Seq(Row), NEW n \in 0 .. Len(rows), \A r \in ToSet(rows) : Asked(r)
      PROVE  \A r \in ToSet(Loaded(rows, d)[n]) : Asked(r) /\ r.tag.device = d
  <2> DEFINE part == Loaded(rows, d)[n]
             whole == Loaded(rows, d)[Len(rows)]
  <2>1. Len(rows) \in 0 .. Len(rows)
    BY <1>2
  <2>2. part \in Seq(Row) /\ whole \in Seq(Row) /\ Begins(part, whole)
    BY <1>2, <2>1, LoadedType, LoadedGrows
  <2>3. ToSet(whole) = {r \in ToSet(rows) : Usable(r.tag) /\ r.tag.device = d}
    BY <1>2, LoadedMembers
  <2> HIDE DEF part, whole
  <2>4. ToSet(part) \subseteq ToSet(whole)
    BY <2>2 DEF ToSet, Begins
  <2>5. QED
    BY <1>2, <2>3, <2>4 DEF part
<1>3. CASE holder[i] # NoWorker
  <2> DEFINE w == holder[i]
             rows == scan[w].rows
             n == scan[w].pos
  <2>1. w \in Workers /\ Home[w] = i
    BY <1>3, MapTypes DEF Locked
  <2>2. pc[w] \in Critical
    BY <2>1 DEF Locked, RefreshExclusive, Critical
  <2>3. rows \in Seq(Row) /\ n \in 0 .. Len(rows)
    <3>1. CASE pc[w] = "filling"
      BY <2>1, <3>1, MapTypes DEF Loading
    <3>2. CASE pc[w] = "reading"
      <4>1. scan[w] = NoScan
        BY <2>1, <3>2 DEF Locked
      <4>2. QED
        BY <4>1 DEF NoScan
    <3>3. QED
      BY <2>2, <3>1, <3>2 DEF Critical
  <2>4. cache[i][d] = Loaded(rows, d)[n]
    BY <1>1, <1>3 DEF Mapped
  <2>5. \A r \in ToSet(rows) : Asked(r)
    BY <2>1 DEF Sourced, ReadOf
  <2> HIDE DEF w, rows, n
  <2>6. QED
    BY <1>2, <2>3, <2>4, <2>5
<1>4. CASE holder[i] = NoWorker /\ wiped[i]
  <2>1. cache[i][d] = <<>>
    BY <1>1, <1>4 DEF Mapped, NoTags
  <2>2. ToSet(<<>>) = {}
    BY DEF ToSet
  <2>3. QED
    BY <2>1, <2>2
<1>5. CASE holder[i] = NoWorker /\ ~ wiped[i]
  <2> DEFINE rows == shown[i].rows
  <2>1. rows \in Seq(Row) /\ Len(rows) \in 0 .. Len(rows)
    BY MapTypes
  <2>2. cache[i][d] = Loaded(rows, d)[Len(rows)]
    BY <1>1, <1>5 DEF Mapped, Grouped
  <2>3. \A r \in ToSet(rows) : Asked(r)
    BY DEF Sourced, ReadOf
  <2> HIDE DEF rows
  <2>4. QED
    BY <1>2, <2>1, <2>2, <2>3
<1>6. QED
  BY <1>3, <1>4, <1>5

\* A severity is that of the rule that decides.
LEMMA SeverityOfRule ==
  ASSUME NEW list \in Seq(Row), NEW text, HandleMessage(list, text).severity # ""
  PROVE  \E r \in ToSet(list) : r.tag.severity = HandleMessage(list, text).severity
<1>1. Unmatched.severity = ""
  BY DEF Unmatched, Stored
<1>2. PICK r \in ToSet(list) : HandleMessage(list, text) = Judge(r.tag, Found(r, text))
  BY <1>1, JudgedByMatch
<1>3. ASSUME NEW t, NEW found PROVE Judge(t, found).severity \in {"", t.severity}
  <2>1. \A cause : Panic(cause).severity = ""
    BY DEF Panic
  <2>2. \A severity : Stored(severity).severity = severity
    BY DEF Stored
  <2>3. QED
    BY <2>1, <2>2 DEF Judge
<1>4. Judge(r.tag, Found(r, text)).severity \in {"", r.tag.severity}
  BY <1>3
<1>5. HandleMessage(list, text).severity = r.tag.severity
  BY <1>2, <1>4
<1>6. QED
  BY <1>5

LEMMA RuledStays ==
  ASSUME AllRuled, UNCHANGED <<messages, job>>,
         \A w \in Workers : pc'[w] = "inserting" => pc[w] = "inserting"
  PROVE  AllRuled'
  BY DEF AllRuled, Ruled

LEMMA StopsRuled ==
  ASSUME AllRuled, NEW i \in Instances, NEW why, Stops(i, why)
  PROVE  AllRuled'
<1>1. ASSUME NEW w \in Workers, pc'[w] = "inserting" PROVE pc[w] = "inserting" /\ job'[w] = job[w]
  BY <1>1 DEF Stops
<1>2. messages' = messages
  BY DEF Stops
<1>3. \A w \in Workers : pc'[w] = "inserting" => Ruled(job[w])'
  <2>1. SUFFICES ASSUME NEW w \in Workers, pc'[w] = "inserting" PROVE Ruled(job[w])'
    OBVIOUS
  <2>2. Ruled(job[w]) /\ job'[w] = job[w]
    BY <1>1, <2>1, Zenon DEF AllRuled
  <2>3. QED
    BY <2>2, Zenon DEF Ruled
<1>4. \A k \in DOMAIN messages' : Ruled(messages[k])'
  BY <1>2 DEF AllRuled, Ruled
<1>5. QED
  BY <1>3, <1>4 DEF AllRuled

LEMMA NextRuled ==
  ASSUME Typed, Locked, Loading, Sourced, AllRuled, [Next]_vars
  PROVE  AllRuled'
<1>1. CASE UNCHANGED vars
  BY <1>1, RuledStays DEF vars
<1>2. ASSUME NEW i \in Instances, Boot(i) PROVE AllRuled'
  BY <1>2, RuledStays DEF Boot
<1>3. ASSUME NEW i \in Instances, Kill(i) PROVE AllRuled'
  BY <1>3, StopsRuled DEF Kill
<1>4. ASSUME NEW w \in Workers, Edit(w) PROVE AllRuled'
  <2>1. /\ UNCHANGED <<messages, job>>
        /\ \E stage \in {"begin", "reply"} : pc' = [pc EXCEPT ![w] = stage]
    BY <1>4 DEF Edit, CreateTag, UpdateTag, DeleteTag, RejectTag, EditTags
  <2>2. QED
    BY <2>1, MapTypes, RuledStays
<1>5. ASSUME NEW w \in Workers, LockTags(w) \/ Refresh(w) PROVE AllRuled'
  <2>1. /\ UNCHANGED <<messages, job>>
        /\ \/ pc' = pc
           \/ \E stage \in Stages \ {"inserting"} : pc' = [pc EXCEPT ![w] = stage]
    BY <1>5 DEF Refresh, LockTags, BeginRefresh, BeginFails, ReadTags, ReadFails,
       AppendTag, Unlock, EndRefresh, Stages, Refreshing
  <2>2. QED
    BY <2>1, MapTypes, RuledStays
<1>6. ASSUME NEW w \in Workers, Message(w) PROVE AllRuled'
  <2>1. CASE \E why : Stops(Home[w], why)
    BY <2>1, MapTypes, StopsRuled
  <2>2. ASSUME NEW m \in Arrivals, ReceiveMessage(w, m.device, m.text), messages' = messages,
               pc' = [pc EXCEPT ![w] = "inserting"],
               job' = [job EXCEPT ![w] =
                 [device |-> m.device, text |-> m.text,
                  verdict |-> HandleMessage(cache[Home[w]][m.device], m.text),
                  complete |-> HandleMessage(Grouped(Snapshot(Home[w]))[m.device], m.text),
                  overlap |-> InRefresh(Home[w])]]
        PROVE  AllRuled'
    <3> DEFINE list == cache[Home[w]][m.device]
    <3>1. Home[w] \in Instances /\ m.device \in DeviceIds /\ job \in [Workers -> Jobs]
      BY CacheAssumption DEF Typed, TypeOK
    <3>2. list \in Seq(Row) /\ \A r \in ToSet(list) : Asked(r) /\ r.tag.device = m.device
      BY <3>1, MapTypes, MapAsked
    <3>3. job'[w].device = m.device /\ job'[w].verdict = HandleMessage(list, m.text)
      BY <2>2, <3>1
    <3> HIDE DEF list
    <3>4. Ruled(job'[w])
      <4>1. SUFFICES ASSUME HandleMessage(list, m.text).severity # ""
                     PROVE  \E t \in Creates \cup Edits :
                              t.device = m.device /\ t.severity = HandleMessage(list, m.text).severity
        BY <3>3 DEF Ruled
      <4>2. QED
        BY <3>2, <4>1, SeverityOfRule DEF Asked
    <3>5. \A v \in Workers : v # w => job'[v] = job[v] /\ pc'[v] = pc[v]
      BY <2>2, <3>1, MapTypes
    <3>6. ASSUME NEW v \in Workers, pc'[v] = "inserting" PROVE Ruled(job'[v])
      BY <3>4, <3>5, <3>6 DEF AllRuled
    <3>7. QED
      BY <2>2, <3>6 DEF AllRuled, Ruled
  <2>3. QED
    BY <1>6, <2>1, <2>2 DEF Message, MapRace, ReceiveMessage
<1>7. ASSUME NEW w \in Workers, Finish(w) PROVE AllRuled'
  <2>1. CASE StoreMessage(w)
    <3>1. /\ Ruled(job[w]) /\ messages' = Append(messages, job[w]) /\ job' = job
          /\ pc' = [pc EXCEPT ![w] = "reply"]
      BY <2>1 DEF StoreMessage, AllRuled
    <3>2. messages \in Seq(Jobs) /\ job[w] \in Jobs
      BY DEF Typed, TypeOK
    <3>3. ASSUME NEW k \in DOMAIN messages' PROVE Ruled(messages'[k])
      <4>1. \/ k \in DOMAIN messages /\ messages'[k] = messages[k]
            \/ messages'[k] = job[w]
        BY <3>1, <3>2, <3>3
      <4>2. QED
        BY <3>1, <4>1 DEF AllRuled
    <3>4. ASSUME NEW v \in Workers, pc'[v] = "inserting" PROVE Ruled(job'[v])
      BY <3>1, <3>4, MapTypes DEF AllRuled
    <3>5. QED
      BY <3>3, <3>4 DEF AllRuled, Ruled
  <2>2. CASE StoreFails(w)
    BY <2>2, MapTypes, RuledStays DEF StoreFails
  <2>3. CASE Reply(w)
    <3>1. /\ messages' = messages /\ pc' = [pc EXCEPT ![w] = "idle"]
          /\ job' = [job EXCEPT ![w] = NoJob] /\ job \in [Workers -> Jobs]
      BY <2>3 DEF Reply, Fresh, Typed, TypeOK
    <3>2. ASSUME NEW v \in Workers, pc'[v] = "inserting" PROVE Ruled(job'[v])
      BY <3>1, <3>2, MapTypes DEF AllRuled
    <3>3. QED
      BY <3>1, <3>2 DEF AllRuled, Ruled
  <2>4. QED
    BY <1>7, <2>1, <2>2, <2>3 DEF Finish
<1>8. QED
  BY <1>1, <1>2, <1>3, <1>4, <1>5, <1>6, <1>7 DEF Next

LEMMA RuledAlways == Spec => []AllRuled
<1>1. Init => AllRuled
  BY DEF Init, AllRuled
<1>2. Typed /\ Locked /\ Loading /\ Sourced /\ AllRuled /\ [Next]_vars => AllRuled'
  BY NextRuled
<1>3. QED
  BY <1>1, <1>2, TypedAlways, LockedAlways, LoadingAlways, SourcedAlways, PTL DEF Spec
=============================================================================
