------------------------------ MODULE TagRules ------------------------------
(***************************************************************************)
(* The rule language of the tags: what makes a tag row usable, how one     *)
(* comparison is evaluated, and what handleMessage decides for a message   *)
(* and a list of tags.  Pure operators, no state.                          *)
(*                                                                         *)
(* Texts stand for strings.  Go's regexp and strconv packages are given as *)
(* functions over the texts of an instance.  The columns "name" and        *)
(* "subject" of a tag only matter through uniqueness of the name (kept);   *)
(* the subject selects between two calls that fail the same way (dropped). *)
(***************************************************************************)
EXTENDS Integers, Sequences

CONSTANTS
  Texts,              \* the strings of an instance, "" among them
  DeviceIds,          \* devices.id values, and 0 for "no such device"
  Compiles,           \* texts that regexp.Compile accepts
  FindStringSubmatch, \* [Compiles -> [Texts -> Seq(Texts)]], <<>> = no match
  ParseFloat          \* [Texts -> Int], 0 for a text that is not a number

ASSUME RulesAssumption ==
  /\ "" \in Texts
  /\ 0 \in DeviceIds /\ DeviceIds \subseteq Int
  /\ Compiles \subseteq Texts
  /\ FindStringSubmatch \in [Compiles -> [Texts -> Seq(Texts)]]
  /\ ParseFloat \in [Texts -> Int]

Comparators == {"=", "<", ">"}

\* A tag as the tags table stores it.
Tag == [name: Texts, device: DeviceIds, pattern: Texts,
        cmp: Comparators \cup {""}, value: Texts, index: Int, severity: Texts]

Row == [id: Nat \ {0}, tag: Tag]

\* UpdateTags keeps a row only if its comparator is known and its regexp compiles.
Usable(t) == t.cmp \in Comparators /\ t.pattern \in Compiles

\* The three CompareFuncs, applied to a captured text and the tag's value.
Compare(t, captured) ==
  \/ t.cmp = "=" /\ captured = t.value
  \/ t.cmp = "<" /\ ParseFloat[captured] < ParseFloat[t.value]
  \/ t.cmp = ">" /\ ParseFloat[captured] > ParseFloat[t.value]

\* One turn of the loop of UpdateTags, seen from the slice of device d: an
\* unusable row is skipped, a row of another device goes to another slice.
LoadAnyDevice(row, d, slice) == IF Usable(row.tag) THEN Append(slice, row) ELSE slice
Load(row, d, slice) ==
  IF Usable(row.tag) /\ row.tag.device = d THEN Append(slice, row) ELSE slice

\* The slice of device d after n of the rows.
Loaded(rows, d) ==
  LET slice[n \in 0 .. Len(rows)] ==
        IF n = 0 THEN <<>> ELSE Load(rows[n], d, slice[n - 1])
  IN slice

\* The whole map of a list of rows.
Grouped(rows) == [d \in DeviceIds |-> Loaded(rows, d)[Len(rows)]]

\* What handleMessage ends in: "stored" with a severity, or a panic that no
\* recover() stops, named after its cause.
Stored(severity) == [end |-> "stored", severity |-> severity]
Panic(cause)     == [end |-> cause, severity |-> ""]
Unmatched        == Stored("")

Verdicts == [end: {"stored", "range", "nilTx"}, severity: Texts]

\* handleReversedTag calls tagRepo.Create or tagRepo.Delete on the repository
\* that has no transaction: its tx is nil and the call panics.
Judge(t, found) ==
  LET satisfied == Compare(t, found[t.index + 1])
  IN IF t.index \notin 0 .. (Len(found) - 1) THEN Panic("range")
     ELSE IF satisfied /\ t.cmp \in {"<", ">"} THEN Panic("nilTx")
     ELSE Stored(IF satisfied THEN t.severity ELSE "")

Found(row, text) == FindStringSubmatch[row.tag.pattern][text]

Hits(list, text) == {k \in DOMAIN list : Found(list[k], text) # <<>>}

\* A loop without its return: the last match would decide.
LastHit(hits) == CHOOSE k \in hits : \A j \in hits : k >= j

FirstHit(hits) == CHOOSE k \in hits : \A j \in hits : k <= j

\* The first tag of the list whose regexp matches decides alone, whether or
\* not its comparison is satisfied.
HandleMessage(list, text) ==
  IF Hits(list, text) = {} THEN Unmatched
  ELSE LET row == list[FirstHit(Hits(list, text))]
       IN Judge(row.tag, Found(row, text))
=============================================================================
