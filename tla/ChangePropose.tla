---------------------------- MODULE ChangePropose ----------------------------
(***************************************************************************)
(* `bbcli change propose` (change.rs): an agent proposes a change, which    *)
(* makes a sheet and a plan on the server and waits a little for the plan   *)
(* checks; when it fails, or the SQL has to be fixed, the agent tries       *)
(* again.                                                                   *)
(*                                                                          *)
(* Every call may be refused, or executed with its answer lost (a broken    *)
(* connection, --timeout, a response without a name); the process may be    *)
(* killed.  Attempt a makes at most one sheet and one plan, called after a. *)
(***************************************************************************)
EXTENDS Naturals

CONSTANTS
    MaxAttempts,   \* attempts of the agent (bound of the model)
    POLL_BUDGET    \* poll intervals an attempt waits for the checks

ASSUME MaxAttemptsAssumption == MaxAttempts \in Nat \ {0}
ASSUME BudgetAssumption == POLL_BUDGET \in Nat \ {0}

Attempt == 1..MaxAttempts
Resource == {"sheet", "plan"} \X Attempt

VARIABLES
    made,     \* resources on the server
    run,      \* the plan check run of each attempt's plan
    reached,  \* history: what each run has ended with since it was last started
    attempt,  \* the attempt being made
    pc,       \* the call it is about to make, or how it ended
    names,    \* resources of this attempt whose names the process has
    elapsed,  \* poll intervals since the deadline was set
    nextAction,  \* what to do next, of the output; "none" before there is one
    told,     \* resources some output or error has named to the agent
    gone      \* history: resources whose name an answer or a kill took away

checks == <<run, reached>>
vars == <<made, run, reached, attempt, pc, names, elapsed, nextAction, told, gone>>

\* The counts of a DONE run: a warning is not an error.
Run == [status : {"NONE", "RUNNING", "FAILED", "CANCELED"}, error : {0}, warning : {0}]
       \cup [status : {"DONE"}, error : 0..1, warning : 0..1]
Verdict == {r \in Run : r.status \notin {"NONE", "RUNNING"}}
Only(status) == CHOOSE r \in Run : r.status = status

Ended == {"output", "failed", "killed"}

Init == /\ made = {}
        /\ run = [a \in Attempt |-> Only("NONE")]
        /\ reached = [a \in Attempt |-> {}]
        /\ attempt = 1
        /\ pc = "resolve"
        /\ names = {}
        /\ elapsed = 0
        /\ nextAction = "none"
        /\ told = {}
        /\ gone = {}

sheet == <<"sheet", attempt>>
plan == <<"plan", attempt>>

-----------------------------------------------------------------------------
(* The steps of propose *)

\* step_error: the error names every resource the process knows it has made.
CreatedNone == {}
CreatedBoth == {sheet, plan}
Created == names

StepError == /\ pc' = "failed"
             /\ told' = told \cup Created

Resolve ==
    /\ pc = "resolve"
    /\ pc' = "create_sheet"
    /\ UNCHANGED <<made, checks, attempt, names, elapsed, nextAction, told, gone>>

\* A call that was refused, or never arrived.
Refused ==
    /\ pc \in {"resolve", "create_sheet", "create_plan"}
    /\ StepError
    /\ UNCHANGED <<made, checks, attempt, names, elapsed, nextAction, gone>>

CreateSheet ==
    /\ pc = "create_sheet"
    /\ made' = made \cup {sheet}
    /\ names' = names \cup {sheet}
    /\ pc' = "create_plan"
    /\ UNCHANGED <<checks, attempt, elapsed, nextAction, told, gone>>

\* The server made the resource, and create_named has no name for it.
SheetUnnamed ==
    /\ pc = "create_sheet"
    /\ made' = made \cup {sheet}
    /\ gone' = gone \cup {sheet}
    /\ StepError
    /\ UNCHANGED <<checks, attempt, names, elapsed, nextAction>>

\* A new plan's checks start by themselves.
CreatePlan ==
    /\ pc = "create_plan"
    /\ made' = made \cup {plan}
    /\ run' = [run EXCEPT ![attempt] = Only("RUNNING")]
    /\ names' = names \cup {plan}
    /\ pc' = "run_checks"
    /\ UNCHANGED <<reached, attempt, elapsed, nextAction, told, gone>>

PlanUnnamed ==
    /\ pc = "create_plan"
    /\ made' = made \cup {plan}
    /\ run' = [run EXCEPT ![attempt] = Only("RUNNING")]
    /\ gone' = gone \cup {plan}
    /\ StepError
    /\ UNCHANGED <<reached, attempt, names, elapsed, nextAction>>

\* The trigger starts the checks again or does nothing; its outcome is ignored.
RunPlanChecks ==
    /\ pc = "run_checks"
    /\ \/ run' = [run EXCEPT ![attempt] = Only("RUNNING")]
          /\ reached' = [reached EXCEPT ![attempt] = {}]
       \/ UNCHANGED checks
    /\ elapsed' = 0
    /\ pc' = "poll"
    /\ UNCHANGED <<made, attempt, names, nextAction, told, gone>>

-----------------------------------------------------------------------------
(* Polling and the verdict *)

blockingErrors(r) == r.error > 0
blocking(r) == r.status \in {"FAILED", "CANCELED"} \/ r.error > 0

derive_next_action(r) == IF r.status = "RUNNING" THEN "WAIT_PLAN_CHECK"
                         ELSE IF blocking(r) THEN "FIX_SQL_AND_RETRY"
                         ELSE "CREATE_ISSUE"

\* The output names the sheet and the plan.
Output(r) == /\ nextAction' = derive_next_action(r)
             /\ told' = told \cup {sheet, plan}
             /\ pc' = "output"

\* Statuses that end the poll; RUNNING and what this bbcli does not know do not.
Decisive(r) == r \in Verdict

PollVerdict ==
    /\ pc = "poll"
    /\ elapsed < POLL_BUDGET
    /\ Decisive(run[attempt])
    /\ Output(run[attempt])
    /\ UNCHANGED <<made, checks, attempt, names, elapsed, gone>>

\* No verdict yet, or a call that failed: sleep one interval.  The call itself
\* takes time too.
SleepUncounted == elapsed' = elapsed
SleepRestarts == elapsed' \in 0..POLL_BUDGET
Sleep == elapsed' \in (elapsed + 1)..POLL_BUDGET

PollAgain ==
    /\ pc = "poll"
    /\ elapsed < POLL_BUDGET
    /\ Sleep
    /\ UNCHANGED <<made, checks, attempt, pc, names, nextAction, told, gone>>

\* The budget is spent: still running, as far as this command knows.
GiveUp ==
    /\ pc = "poll"
    /\ elapsed >= POLL_BUDGET
    /\ Output(Only("RUNNING"))
    /\ UNCHANGED <<made, checks, attempt, names, elapsed, gone>>

-----------------------------------------------------------------------------
(* The agent, the server and failures *)

Retry ==
    /\ pc \in {"failed", "killed"} \/ nextAction = "FIX_SQL_AND_RETRY"
    /\ attempt < MaxAttempts
    /\ attempt' = attempt + 1
    /\ pc' = "resolve"
    /\ nextAction' = "none"
    /\ names' = {}
    /\ elapsed' = 0
    /\ UNCHANGED <<made, checks, told, gone>>

ChecksEnd(a) ==
    /\ run[a].status = "RUNNING"
    /\ \E r \in Verdict : /\ run' = [run EXCEPT ![a] = r]
                          /\ reached' = [reached EXCEPT ![a] = @ \cup {r}]
    /\ UNCHANGED <<made, attempt, pc, names, elapsed, nextAction, told, gone>>

\* A killed process has told the agent nothing of what it made.
Kill ==
    /\ pc \notin Ended
    /\ pc' = "killed"
    /\ gone' = gone \cup names
    /\ UNCHANGED <<made, checks, attempt, names, elapsed, nextAction, told>>

Call == \/ Resolve
        \/ Refused
        \/ CreateSheet
        \/ SheetUnnamed
        \/ CreatePlan
        \/ PlanUnnamed
        \/ RunPlanChecks
        \/ PollVerdict
        \/ PollAgain
        \/ GiveUp

Next == Call \/ Retry \/ Kill \/ \E a \in Attempt : ChecksEnd(a)

Spec == Init /\ [][Next]_vars

\* With --timeout every call ends, with an answer or with an error.  Nothing
\* makes the server finish its checks, or the agent try again.
FairSpec == Spec /\ WF_vars(Call)

-----------------------------------------------------------------------------
(* Correctness *)

\* Every variable holds a value of its kind; a plan has a sheet and a check run,
\* and the names the process has are of resources of its own attempt.
TypeOK ==
    /\ made \subseteq Resource
    /\ run \in [Attempt -> Run]
    /\ reached \in [Attempt -> SUBSET Verdict]
    /\ attempt \in Attempt
    /\ pc \in {"resolve", "create_sheet", "create_plan", "run_checks", "poll"} \cup Ended
    /\ names \subseteq made \cap {sheet, plan}
    /\ elapsed \in 0..POLL_BUDGET
    /\ nextAction \in {"none", "WAIT_PLAN_CHECK", "FIX_SQL_AND_RETRY", "CREATE_ISSUE"}
    /\ told \subseteq made
    /\ gone \subseteq made
    /\ \A a \in Attempt : <<"plan", a>> \in made =>
          <<"sheet", a>> \in made /\ run[a].status # "NONE"

\* Over all attempts, every sheet and plan on the server has been named to the
\* agent, unless an answer was lost or the process killed: nothing is orphaned
\* by an error path (the process that is running still has its names).
ResourcesNamed ==
    \A r \in made : r \in told \/ r \in gone \/ (r \in names /\ pc \notin Ended)

\* The next action is what the server's checks of this very plan say: a change
\* is sent on only if its checks ended without errors, and sent back only if they
\* ended with errors or failed.  When the trigger has started them again, what
\* the earlier run ended with does not count.
VerdictIsTheServers ==
    /\ nextAction = "CREATE_ISSUE" =>
          \E r \in reached[attempt] : r.status = "DONE" /\ r.error = 0
    /\ nextAction = "FIX_SQL_AND_RETRY" =>
          \E r \in reached[attempt] : r.status # "DONE" \/ r.error > 0

\* Where calls end, every attempt ends, whether or not the checks do.
AttemptEnds == pc \notin Ended ~> pc \in Ended

\* An attempt is a bounded number of calls, whatever they answer and whether or not
\* the server restarts its checks: the four steps, the polls that fit the budget
\* (a fast answer does not buy more of them) and the giving up.
Stage == [resolve |-> 5, create_sheet |-> 4, create_plan |-> 3, run_checks |-> 2, poll |-> 1]
CallsLeft == IF pc \in Ended THEN 0 ELSE Stage[pc] + (POLL_BUDGET - elapsed)

AttemptAdvances == [][Call => CallsLeft' \in 0 .. CallsLeft - 1]_vars

\* What change.rs says of a failure: it names every resource created so far.
FailureNamesAll ==
    pc = "failed" => made \cap {sheet, plan} \subseteq told

-----------------------------------------------------------------------------
(* The inductive invariant behind the theorems of ChangeProposeProofs *)

\* The names the process has where it needs them.
StageInv ==
    /\ pc = "create_plan" => sheet \in names
    /\ pc \in {"run_checks", "poll"} => {sheet, plan} \subseteq names

\* A run that has ended has ended with what the history says.
RunInv == \A a \in Attempt : run[a] \in Verdict => run[a] \in reached[a]

\* A next action is there as long as the output that gave it.
NextInv == nextAction # "none" => pc = "output"

\* The budget starts with the first poll.
BudgetInv == pc \notin Ended \cup {"poll"} => elapsed = 0

SafetyInv == /\ StageInv
             /\ RunInv
             /\ NextInv
             /\ ResourcesNamed
             /\ VerdictIsTheServers
             /\ BudgetInv
=============================================================================
