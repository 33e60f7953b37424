----------------------------- MODULE MCLauncher -----------------------------
(* Launcher for TLC: callers with a budget of calls, which keeps the runs with
   two threads small and says that callers do not call for ever. *)
EXTENDS LauncherProperties

CONSTANT MaxCalls

ASSUME MergeIsTheLoop ==
    \A locals, nonLocals \in AppSet :
        LET end == MergeLoop(locals, nonLocals)
        IN  /\ MergeEnded(end)
            /\ end.locals = MergedLocal(locals, nonLocals)
            /\ end.nonLocals = MergedNonLocal(locals, nonLocals)

VARIABLE calls      \* calls begun so far

budgetVars == <<vars, calls>>

BudgetInit == Init /\ calls = 0

BudgetNext ==
    \/ /\ calls < MaxCalls
       /\ calls' = calls + 1
       /\ \E t \in Threads : Start(t)
    \/ /\ UNCHANGED calls
       /\ Outside \/ \E t \in Threads : Continue(t) \/ RevertThrows(t)

BudgetSpec == BudgetInit /\ [][BudgetNext]_budgetVars

(* The scheduler runs threads inside a call; it need not let them make another. *)
FairBudgetSpec ==
    BudgetSpec /\ \A t \in Threads : WF_vars(Continue(t))
=============================================================================
