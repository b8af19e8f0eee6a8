------------------------------ MODULE LlmBudget ------------------------------
(***************************************************************************)
(* The hosted language model and its daily token budget (backend/app/      *)
(* llm.py).  json_chat asks up to Attempts times until the answer parses;  *)
(* chat looks at the day's meter in Redis before each request and adds     *)
(* what the answer cost after it.  Between the two the provider works, and *)
(* every other coroutine of the process may call as well.                  *)
(*                                                                         *)
(* A caller is a request or a loop: it is free, running on its own, or at  *)
(* one of the steps of a call.                                             *)
(***************************************************************************)
EXTENDS Integers, FiniteSets

CONSTANTS Callers,       \* what may run at once
          Cap,           \* phoeniqs_budget_tokens, of a metered provider
          WarnAt,        \* the warning threshold, in tokens
          Usage,         \* what an answer may cost; 0: it does not say
          MostTokens,    \* the most an answer costs
          Attempts,      \* requests json_chat makes at most
          MaxOps         \* bound: operations begun, and mails that arrive

ASSUME BudgetAssumption ==
    /\ IsFiniteSet(Callers) /\ Cap \in Nat \ {0} /\ WarnAt \in 1..Cap
    /\ MostTokens \in Nat /\ Usage \subseteq 0..MostTokens
    /\ Attempts \in Nat \ {0} /\ MaxOps \in Nat

VARIABLES spent,         \* the meter of the day
          warned,        \* warnings logged on that day
          call,          \* call[c]: where c is, and the requests it has left
          ops            \* operations begun

budgetVars == <<spent, warned, call>>

At(step, left) == [at |-> step, left |-> left]

Free    == At("free", 0)
Running == At("running", 0)
Calling == At("check", Attempts)

Answered == {"ok", "failed"}

Turns(c, state) == call' = [call EXCEPT ![c] = state]

Begun == ops < MaxOps /\ ops' = ops + 1

BudgetInit ==
    /\ spent = 0 /\ warned = 0
    /\ call = [c \in Callers |-> Free]

-----------------------------------------------------------------------------
(* _budget_check, before every request: the meter as it is now.            *)
Check(c) ==
    /\ call[c].at = "check"
    /\ Turns(c, IF spent >= Cap THEN At("failed", 0)
                ELSE At("asked", call[c].left - 1))
    /\ UNCHANGED <<spent, warned>>

(* The answer that takes the meter over the threshold warns.               *)
Warns(total, tokens) == total - tokens < WarnAt /\ WarnAt <= total

(* _budget_record: one INCRBY on the key of the day it is now.             *)
Record(tokens) ==
    /\ spent' = spent + tokens
    /\ warned' = warned + (IF Warns(spent', tokens) THEN 1 ELSE 0)

RetryUnchecked(c) == At(IF call[c].left = 0 THEN "failed" ELSE "asked",
                        IF call[c].left = 0 THEN 0 ELSE call[c].left - 1)

(* What does not parse is asked for again, from the check on.              *)
Retry(c) == IF call[c].left = 0 THEN At("failed", 0)
            ELSE At("check", call[c].left)

Answer(c, tokens, parses) ==
    /\ call[c].at = "asked"
    /\ Record(tokens)
    /\ Turns(c, IF parses THEN At("ok", 0) ELSE Retry(c))

(* An error of the provider is not retried.                                *)
ProviderFails(c) ==
    /\ call[c].at = "asked"
    /\ Turns(c, At("failed", 0))
    /\ UNCHANGED <<spent, warned>>

(* The key names the UTC day.                                              *)
Midnight ==
    /\ spent # 0
    /\ spent' = 0 /\ warned' = 0
    /\ UNCHANGED call

(* What the caller does by itself: begin to run, call, take the result,    *)
(* end, or be cancelled, whatever its request has spent already.           *)
Caller(c, state) ==
    /\ state \in {Free, Running, Calling}
    /\ Turns(c, state)

CallStep ==
    \/ \E c \in Callers :
          \/ Check(c) \/ ProviderFails(c)
          \/ \E tokens \in Usage, parses \in BOOLEAN : Answer(c, tokens, parses)
    \/ Midnight

(* A restart ends the calls; the meter is in Redis.                        *)
CallsEnd == call' = [c \in Callers |-> Free]

MeterSame == UNCHANGED <<spent, warned>>

BudgetNext ==
    \/ CallStep
    \/ MeterSame /\ \/ CallsEnd
                    \/ \E c \in Callers, s \in {Free, Running, Calling} :
                          Caller(c, s)

BudgetSpec == BudgetInit /\ [][BudgetNext]_budgetVars

-----------------------------------------------------------------------------
BudgetTypeOK ==
    /\ spent \in Nat /\ warned \in Nat
    /\ call \in [Callers -> [at : {"free", "running", "check", "asked", "ok",
                                   "failed"}, left : 0..Attempts]]

(* The cap is checked before a request and charged after it: of a day's    *)
(* tokens, only the answers of requests that passed the check together,    *)
(* one per caller, can be above it, whatever is retried; and the day's     *)
(* warning is logged exactly once, when the meter passes the threshold.    *)
BudgetHolds ==
    /\ spent <= Cap - 1 + MostTokens * Cardinality(Callers)
    /\ warned = IF spent >= WarnAt THEN 1 ELSE 0
=============================================================================
