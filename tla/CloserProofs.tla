--------------------------- MODULE CloserProofs ---------------------------
(***************************************************************************)
(* What Close of pkg/closer guarantees for every list of functions.  The   *)
(* inductive invariant follows the token: it is in the channel, or has     *)
(* been received, only when the goroutine is done; from then on msgs stays *)
(* as it is, and it names the functions that have failed.                  *)
(***************************************************************************)
EXTENDS Closer, SequenceTheorems, TLAPS

Results == {"none", "nil", "error"}

Typed ==
  /\ funcs \in Seq(STRING) /\ Len(funcs) <= Len(Funcs)
  /\ \A k \in 1 .. Len(funcs) : funcs[k] = Funcs[k]
  /\ caller \in {"adding", "select", "join", "returned"}
  /\ runner \in {"none", "next", "call", "done"}
  /\ msgs \in Seq(ToSet(Funcs)) /\ complete \in {0, 1} /\ ctxDone \in BOOLEAN
  /\ answer \in {"none", "nil", "errors", "cancelled"}
  /\ returned \in Seq(Results) /\ Called <= Len(funcs)

\* Close starts the goroutine when all functions are added.
Begun ==
  /\ caller = "adding" <=> runner = "none"
  /\ runner = "none" => returned = <<>> /\ msgs = <<>> /\ complete = 0
  /\ runner # "none" => Len(funcs) = Len(Funcs)

\* The functions return one after another.
InTurn ==
  /\ \A k \in 1 .. Called : returned[k] = "none" <=> runner = "call" /\ k = Called
  /\ runner = "call" => Called > 0
  /\ runner = "done" => Called = Len(funcs)

\* The goroutine is done when its token is on the way, or has arrived.
Token ==
  /\ complete = 1 => runner = "done"
  /\ caller = "join" => runner = "done"
  /\ answer \in {"nil", "errors"} => runner = "done" /\ (answer = "nil" <=> msgs = <<>>)

Failed == {Funcs[k] : k \in {j \in 1 .. Called : returned[j] = "error"}}

IInv == Typed /\ Begun /\ InTurn /\ Token /\ ToSet(msgs) = Failed

-----------------------------------------------------------------------------

LEMMA Constants ==
  /\ Funcs \in Seq(STRING) /\ Len(Funcs) \in Nat
  /\ \A k \in 1 .. Len(Funcs) : Funcs[k] \in STRING /\ Funcs[k] \in ToSet(Funcs)
BY ClosersAssumption DEF ToSet

LEMMA ToSetAppend ==
  ASSUME NEW S, NEW list \in Seq(S), NEW x \in S
  PROVE  ToSet(Append(list, x)) = ToSet(list) \cup {x}
<1> DEFINE new == Append(list, x)
<1>1. /\ Len(list) \in Nat /\ DOMAIN list = 1 .. Len(list) /\ DOMAIN new = 1 .. Len(list) + 1
      /\ new[Len(list) + 1] = x /\ \A k \in 1 .. Len(list) : new[k] = list[k]
  OBVIOUS
<1> HIDE DEF new
<1>2. ASSUME NEW y \in ToSet(new) PROVE y \in ToSet(list) \cup {x}
  BY <1>1, <1>2 DEF ToSet
<1>3. ASSUME NEW y \in ToSet(list) PROVE y \in ToSet(new)
  <2>1. PICK k \in 1 .. Len(list) : y = list[k]
    BY <1>1 DEF ToSet
  <2>2. k \in DOMAIN new /\ new[k] = y
    BY <1>1, <2>1
  <2>3. QED
    BY <2>2 DEF ToSet
<1>4. x \in ToSet(new)
  <2>1. Len(list) + 1 \in DOMAIN new
    BY <1>1
  <2>2. QED
    BY <1>1, <2>1 DEF ToSet
<1>5. QED
  BY <1>2, <1>3, <1>4 DEF new

LEMMA InitInv ==
  ASSUME Init
  PROVE  IInv
<1>1. Typed
  <2>1. \A S : <<>> \in Seq(S)
    OBVIOUS
  <2>2. Len(funcs) = 0 /\ Called = 0 /\ 0 <= Len(Funcs) /\ 1 .. Len(funcs) = {}
    BY Constants DEF Init, Called
  <2>3. funcs \in Seq(STRING) /\ msgs \in Seq(ToSet(Funcs)) /\ returned \in Seq(Results)
    BY <2>1 DEF Init
  <2>4. QED
    <3>1. Len(funcs) <= Len(Funcs) /\ Called <= Len(funcs)
          /\ \A k \in 1 .. Len(funcs) : funcs[k] = Funcs[k]
      BY <2>2
    <3>2. QED
      BY <2>3, <3>1 DEF Init, Typed
<1>2. Begun /\ InTurn /\ Token
  BY DEF Init, Begun, InTurn, Token, Called
<1>3. ToSet(msgs) = {} /\ Failed = {}
  BY DEF Init, ToSet, Failed, Called
<1>4. QED
  BY <1>1, <1>2, <1>3 DEF IInv

LEMMA AddInv ==
  ASSUME IInv, Add
  PROVE  IInv'
<1> DEFINE n == Len(funcs) + 1
<1>1. /\ funcs \in Seq(STRING) /\ Len(funcs) \in Nat /\ Len(funcs) < Len(Funcs)
      /\ funcs' = Append(funcs, Funcs[n])
      /\ UNCHANGED <<caller, runner, msgs, complete, ctxDone, answer, returned>>
      /\ \A k \in 1 .. Len(funcs) : funcs[k] = Funcs[k]
      /\ caller = "adding" /\ runner = "none" /\ returned = <<>>
  BY DEF IInv, Typed, Begun, Add
<1>2. n \in 1 .. Len(Funcs)
  BY <1>1, Constants
<1>3. funcs' \in Seq(STRING) /\ Len(funcs') = n
      /\ \A k \in 1 .. n : funcs'[k] = Funcs[k]
  BY <1>1, <1>2, Constants
<1>4. Typed'
  BY <1>1, <1>2, <1>3, Constants DEF IInv, Typed, Called
<1>5. Begun' /\ InTurn' /\ Token' /\ ToSet(msgs)' = Failed'
  BY <1>1 DEF IInv, Begun, InTurn, Token, Failed, Called
<1>6. QED
  BY <1>4, <1>5 DEF IInv

LEMMA CallInv ==
  ASSUME IInv, Call
  PROVE  IInv'
<1>1. /\ returned \in Seq(Results) /\ Called \in Nat /\ Called < Len(funcs)
      /\ runner = "next" /\ runner' = "call" /\ returned' = Append(returned, "none")
      /\ UNCHANGED <<funcs, caller, msgs, complete, ctxDone, answer>>
      /\ \A k \in 1 .. Called : returned[k] # "none"
  BY DEF IInv, Typed, InTurn, Call, Left, Called
<1>2. /\ returned' \in Seq(Results) /\ Called' = Called + 1 /\ returned'[Called + 1] = "none"
      /\ \A k \in 1 .. Called : returned'[k] = returned[k]
  BY <1>1 DEF Called, Results
<1>3. Typed'
  BY <1>1, <1>2, Constants DEF IInv, Typed
<1>4. InTurn'
  BY <1>1, <1>2 DEF InTurn
<1>5. Failed' = Failed
  <2>1. \A k : k \in 1 .. Called' /\ returned'[k] = "error"
               <=> k \in 1 .. Called /\ returned[k] = "error"
    BY <1>1, <1>2
  <2>2. QED
    BY <2>1 DEF Failed
<1>6. QED
  BY <1>1, <1>3, <1>4, <1>5 DEF IInv, Begun, Token

LEMMA ReturnInv ==
  ASSUME IInv, NEW result \in {"nil", "error"}, Return(result)
  PROVE  IInv'
<1>1. /\ returned \in Seq(Results) /\ Called \in 1 .. Len(funcs) /\ Called \in 1 .. Len(Funcs)
      /\ runner = "call" /\ runner' = "next" /\ returned' = [returned EXCEPT ![Called] = result]
      /\ UNCHANGED <<funcs, caller, complete, ctxDone, answer>>
      /\ \A k \in 1 .. Called : returned[k] = "none" <=> k = Called
      /\ funcs[Called] = Funcs[Called]
      /\ msgs \in Seq(ToSet(Funcs)) /\ ToSet(msgs) = Failed
  BY Constants DEF IInv, Typed, InTurn, Return, Called
<1>2. /\ returned' \in Seq(Results) /\ Called' = Called /\ returned'[Called] = result
      /\ \A k \in 1 .. Called : k # Called => returned'[k] = returned[k]
  BY <1>1 DEF Called, Results
<1>3. /\ msgs' \in Seq(ToSet(Funcs))
      /\ ToSet(msgs') = ToSet(msgs) \cup (IF result = "nil" THEN {} ELSE {Funcs[Called]})
  <2>1. Funcs[Called] \in ToSet(Funcs) /\ msgs' = Noted(result)
    BY <1>1, Constants DEF Return
  <2>2. CASE result = "nil"
    BY <1>1, <2>1, <2>2 DEF Noted
  <2>3. CASE result = "error"
    <3>1. msgs' = Append(msgs, Funcs[Called])
      BY <1>1, <2>1, <2>3 DEF Noted
    <3>2. ToSet(msgs') = ToSet(msgs) \cup {Funcs[Called]}
      BY <1>1, <2>1, <3>1, ToSetAppend
    <3>3. msgs' \in Seq(ToSet(Funcs))
      BY <1>1, <2>1, <3>1
    <3>4. QED
      BY <2>3, <3>2, <3>3
  <2>4. QED
    BY <2>2, <2>3
<1>4. Failed' = Failed \cup (IF result = "nil" THEN {} ELSE {Funcs[Called]})
  <2>1. \A k : k \in 1 .. Called' /\ returned'[k] = "error" <=>
                 \/ k \in 1 .. Called /\ returned[k] = "error"
                 \/ k = Called /\ result = "error"
    BY <1>1, <1>2
  <2>2. QED
    BY <2>1 DEF Failed
<1>5. Typed'
  BY <1>1, <1>2, <1>3, Constants DEF IInv, Typed
<1>6. InTurn'
  BY <1>1, <1>2 DEF InTurn
<1>7. Begun' /\ Token'
  BY <1>1 DEF IInv, Begun, Token
<1>8. QED
  BY <1>1, <1>3, <1>4, <1>5, <1>6, <1>7 DEF IInv

\* The steps that call no function.
LEMMA QuietInv ==
  ASSUME IInv, Close \/ Expire \/ Send \/ Caller
  PROVE  IInv'
<1>1. UNCHANGED <<funcs, msgs, returned>> /\ Called' = Called
  BY DEF Close, Expire, Send, Caller, Receive, Cancel, Join, Called
<1>2. ToSet(msgs)' = Failed'
  BY <1>1 DEF IInv, Failed
<1>3. Len(funcs) \in Nat /\ Called \in Nat /\ Len(Funcs) \in Nat
  BY Constants DEF IInv, Typed, Called
<1>4. CASE Close
  BY <1>1, <1>2, <1>3, <1>4, Constants DEF Close, IInv, Typed, Begun, InTurn, Token
<1>5. CASE Expire
  BY <1>1, <1>2, <1>5 DEF Expire, IInv, Typed, Begun, InTurn, Token
<1>6. CASE Send
  BY <1>1, <1>2, <1>3, <1>6 DEF Send, Left, HasRoom, IInv, Typed, Begun, InTurn, Token
<1>7. CASE Receive \/ Cancel
  BY <1>1, <1>2, <1>7 DEF Receive, Cancel, GivesUp, IInv, Typed, Begun, InTurn, Token
<1>8. CASE Join
  BY <1>1, <1>2, <1>8 DEF Join, IInv, Typed, Begun, InTurn, Token
<1>9. QED
  BY <1>4, <1>5, <1>6, <1>7, <1>8 DEF Caller

LEMMA InvAlways == Spec => []IInv
<1>1. Init => IInv
  BY InitInv
<1>2. ASSUME IInv, [Next]_vars PROVE IInv'
  <2>1. CASE UNCHANGED vars
    BY <1>2, <2>1 DEF vars, IInv, Typed, Begun, InTurn, Token, Failed, Called
  <2>2. QED
    BY <1>2, <2>1, AddInv, CallInv, ReturnInv, QuietInv DEF Next, Runner
<1>3. QED
  BY <1>1, <1>2, PTL DEF Spec

-----------------------------------------------------------------------------

\* Whatever the deadline overtakes, Close says nil only when every function has
\* returned nil, and otherwise names exactly those that failed, but for a
\* cancelled Close, which says nothing of them.
THEOREM AnswerIsTrue == Spec => []AnswerTrue
<1>1. ASSUME IInv PROVE AnswerTrue
  <2> SUFFICES ASSUME answer \in {"nil", "errors"}
               PROVE  /\ runner = "done" /\ Called = Len(Funcs) /\ "none" \notin ToSet(returned)
                      /\ (answer = "nil") = (ToSet(returned) \subseteq {"nil"})
                      /\ ToSet(msgs) = {Funcs[k] : k \in {j \in DOMAIN returned : returned[j] = "error"}}
    BY DEF AnswerTrue
  <2>1. /\ returned \in Seq(Results) /\ DOMAIN returned = 1 .. Called /\ runner = "done"
        /\ msgs \in Seq(ToSet(Funcs))
    BY <1>1 DEF IInv, Typed, Token, Called
  <2>2. Called = Len(Funcs)
    BY <1>1, <2>1 DEF IInv, InTurn, Begun
  <2>3. "none" \notin ToSet(returned)
    BY <1>1, <2>1 DEF IInv, InTurn, ToSet
  <2>4. ToSet(msgs) = {Funcs[k] : k \in {j \in DOMAIN returned : returned[j] = "error"}}
    BY <1>1, <2>1 DEF IInv, Failed
  <2>5. msgs = <<>> <=> ToSet(msgs) = {}
    <3>1. msgs # <<>> => msgs[1] \in ToSet(msgs)
      BY <2>1 DEF ToSet
    <3>2. ToSet(<<>>) = {}
      BY DEF ToSet
    <3>3. QED
      BY <3>1, <3>2
  <2>6. ToSet(msgs) = {} <=> \A j \in 1 .. Called : returned[j] # "error"
    <3>1. ToSet(msgs) = Failed
      BY <1>1 DEF IInv
    <3>2. ASSUME NEW j \in 1 .. Called, returned[j] = "error" PROVE Funcs[j] \in Failed
      BY <3>2 DEF Failed
    <3>3. (\A j \in 1 .. Called : returned[j] # "error") => Failed = {}
      BY DEF Failed
    <3>4. QED
      BY <3>1, <3>2, <3>3
  <2>7. \A j \in 1 .. Called : returned[j] \in {"nil", "error"}
    <3>1. \A j \in 1 .. Called : returned[j] \in Results /\ returned[j] \in ToSet(returned)
      BY <2>1 DEF Called, ToSet
    <3>2. QED
      BY <2>3, <3>1 DEF Results
  <2>8. ToSet(returned) \subseteq {"nil"} <=> \A j \in 1 .. Called : returned[j] = "nil"
    BY <2>1 DEF ToSet
  <2>9. answer = "nil" <=> ToSet(returned) \subseteq {"nil"}
    <3>1. answer = "nil" <=> msgs = <<>>
      BY <1>1 DEF IInv, Token
    <3>2. QED
      BY <2>5, <2>6, <2>7, <2>8, <3>1
  <2>10. QED
    BY <2>1, <2>2, <2>3, <2>4, <2>9
<1>2. QED
  BY <1>1, InvAlways, PTL

\* Close reads msgs after the last write of its goroutine: the token that it
\* has received was sent after it.
THEOREM MsgsUnraced == Spec => []NoRaceOnMsgs
<1>1. IInv => NoRaceOnMsgs
  BY DEF IInv, Token, NoRaceOnMsgs
<1>2. QED
  BY <1>1, InvAlways, PTL
=============================================================================
