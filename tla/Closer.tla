------------------------------ MODULE Closer ------------------------------
(***************************************************************************)
(* pkg/closer: functions to call at shutdown.  Close starts a goroutine    *)
(* that calls them one after another, and waits for it or for the end of   *)
(* its context, whichever comes first.  The goroutine outlives a Close     *)
(* that gave up, and both use the slice msgs without a mutex.              *)
(*                                                                         *)
(* One goroutine adds and closes (app.Run), so the mutex of the Closer is  *)
(* never contended and is left out.                                        *)
(***************************************************************************)
EXTENDS Naturals, Sequences, SequencesExt

CONSTANT Funcs  \* the functions to close, in the order they are added

ASSUME ClosersAssumption == Funcs \in Seq(STRING) /\ IsInjective(Funcs)

VARIABLES
  funcs,     \* c.funcs
  caller,    \* Close: "adding", "select", "join" or "returned"
  runner,    \* its goroutine: "none", "next", "call" or "done"
  msgs,      \* the functions whose error is in msgs, in that order
  complete,  \* tokens in the channel complete
  ctxDone,   \* the context of Close has ended
  answer,    \* what Close returned
  returned   \* history: what each called function has returned, "none" yet

vars == <<funcs, caller, runner, msgs, complete, ctxDone, answer, returned>>

Called == Len(returned)

TypeOK ==
  /\ IsPrefix(funcs, Funcs)
  /\ caller \in {"adding", "select", "join", "returned"}
  /\ runner \in {"none", "next", "call", "done"}
  /\ msgs \in Seq(ToSet(Funcs)) /\ complete \in {0, 1} /\ ctxDone \in BOOLEAN
  /\ answer \in {"none", "nil", "errors", "cancelled"}
  /\ returned \in Seq({"none", "nil", "error"}) /\ Called <= Len(funcs)

Init ==
  /\ funcs = <<>> /\ caller = "adding" /\ runner = "none"
  /\ msgs = <<>> /\ complete = 0 /\ ctxDone = FALSE
  /\ answer = "none" /\ returned = <<>>

Add ==
  /\ caller = "adding" /\ Len(funcs) < Len(Funcs)
  /\ funcs' = Append(funcs, Funcs[Len(funcs) + 1])
  /\ UNCHANGED <<caller, runner, msgs, complete, ctxDone, answer, returned>>

Close ==
  /\ caller = "adding" /\ funcs = Funcs
  /\ caller' = "select" /\ runner' = "next"
  /\ UNCHANGED <<funcs, msgs, complete, ctxDone, answer, returned>>

\* The context has a deadline and may end at any time.
Expire ==
  /\ ~ ctxDone
  /\ ctxDone' = TRUE
  /\ UNCHANGED <<funcs, caller, runner, msgs, complete, answer, returned>>

-----------------------------------------------------------------------------
(* The goroutine.                                                          *)

Left == Called < Len(funcs)

Call ==
  /\ runner = "next" /\ Left
  /\ runner' = "call" /\ returned' = Append(returned, "none")
  /\ UNCHANGED <<funcs, caller, msgs, complete, ctxDone, answer>>

\* An error is appended to those before it; or takes their place.
LastOf(result) == IF result = "nil" THEN msgs ELSE <<funcs[Called]>>
Noted(result)  == IF result = "nil" THEN msgs ELSE Append(msgs, funcs[Called])

\* The running function returns.
Return(result) ==
  /\ runner = "call"
  /\ runner' = "next" /\ returned' = [returned EXCEPT ![Called] = result]
  /\ msgs' = Noted(result)
  /\ UNCHANGED <<funcs, caller, complete, ctxDone, answer>>

\* The channel has room for the one token, so the goroutine needs no reader;
\* without that room it would.
Unbuffered == caller = "select"
HasRoom    == complete < 1

Send ==
  /\ runner = "next" /\ ~ Left /\ HasRoom
  /\ runner' = "done" /\ complete' = complete + 1
  /\ UNCHANGED <<funcs, caller, msgs, ctxDone, answer, returned>>

-----------------------------------------------------------------------------
(* The select, whose choice is free when both channels are ready.          *)

Receive ==
  /\ caller = "select" /\ complete > 0
  /\ caller' = "join" /\ complete' = complete - 1
  /\ UNCHANGED <<funcs, runner, msgs, ctxDone, answer, returned>>

\* A cancelled Close returns at once; had it left the select only, it would
\* go on to read msgs, and without that case it would wait for ever.
BreaksOut    == caller' = "join" /\ UNCHANGED answer
KeepsWaiting == FALSE
GivesUp      == caller' = "returned" /\ answer' = "cancelled"

Cancel ==
  /\ caller = "select" /\ ctxDone
  /\ GivesUp
  /\ UNCHANGED <<funcs, runner, msgs, complete, ctxDone, returned>>

Join ==
  /\ caller = "join"
  /\ caller' = "returned"
  /\ answer' = IF msgs = <<>> THEN "nil" ELSE "errors"
  /\ UNCHANGED <<funcs, runner, msgs, complete, ctxDone, returned>>

Runner == Call \/ Send
Caller == Receive \/ Cancel \/ Join

Next ==
  \/ Add \/ Close \/ Expire \/ Runner \/ Caller
  \/ \E result \in {"nil", "error"} : Return(result)

Spec == Init /\ [][Next]_vars

\* Go schedules both goroutines and the deadline comes; nothing says that a
\* function returns.
FairSpec == Spec /\ WF_vars(Expire) /\ WF_vars(Runner) /\ WF_vars(Caller)

-----------------------------------------------------------------------------
(* Properties.                                                             *)

\* Whatever the deadline overtakes: Close says nil only when every function
\* has returned nil, and "finished with error(s)" only when all have returned,
\* with the messages of exactly those that failed.
AnswerTrue ==
  answer \in {"nil", "errors"} =>
    /\ runner = "done" /\ Called = Len(Funcs) /\ "none" \notin ToSet(returned)
    /\ (answer = "nil") = (ToSet(returned) \subseteq {"nil"})
    /\ ToSet(msgs) = {Funcs[k] : k \in {j \in DOMAIN returned : returned[j] = "error"}}

\* No data race on msgs: Close reads it only after the goroutine's last write.
NoRaceOnMsgs == caller = "join" => runner = "done"

\* Close returns though a function never does.
CloseReturns == caller = "select" ~> caller = "returned"

\* The goroutine that Close left behind ends once its last function returns,
\* also when nobody reads complete any more.
RunnerEnds == runner = "next" /\ Called = Len(funcs) ~> runner = "done"
=============================================================================
