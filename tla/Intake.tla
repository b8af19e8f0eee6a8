-------------------------------- MODULE Intake --------------------------------
(***************************************************************************)
(* What the outside world sends in, in one process: cycles of the mailbox  *)
(* and scans of the news, that share the callers and the day's budget of   *)
(* the language model (main.py starts the loops, routers/admin.py runs the *)
(* same code on request).                                                  *)
(***************************************************************************)
EXTENDS EmailIntake, NewsScan

vars == <<budgetVars, ops, mailVars, scanVars>>

Init == BudgetInit /\ ops = 0 /\ MailInit /\ ScanInit

Restart == CallsEnd /\ MailsEnd /\ ScansEnd /\ MeterSame /\ UNCHANGED ops

Next ==
    \/ CallStep /\ UNCHANGED <<ops, mailVars, scanVars>>
    \/ MailNext /\ UNCHANGED scanVars
    \/ ScanNext /\ UNCHANGED mailVars
    \/ Restart

Spec == Init /\ [][Next]_vars

-----------------------------------------------------------------------------
(* Whatever the callers do, they spend as the budget's own specification   *)
(* allows: no operation of theirs asks without the check, or resets it.    *)
Budget == INSTANCE LlmBudget WITH
    Callers <- Callers, Cap <- Cap, WarnAt <- WarnAt, Usage <- Usage,
    MostTokens <- MostTokens, Attempts <- Attempts,
    MaxOps <- MaxOps, spent <- spent, warned <- warned,
    call <- call, ops <- ops

SpendsAsBudgeted == Budget!BudgetSpec
=============================================================================
