-------------------------- MODULE ChangeProposeProofs --------------------------
(* Theorems about ChangePropose, for any number of attempts and any budget. *)
EXTENDS ChangePropose, TLAPS

\* The runs whose counts nobody looks at.
LEMMA OnlyIsARun ==
  ASSUME NEW s \in {"NONE", "RUNNING", "FAILED", "CANCELED"}
  PROVE  Only(s) \in Run /\ Only(s).status = s
<1>1. [status |-> s, error |-> 0, warning |-> 0] \in Run
  BY DEF Run
<1> QED
  BY <1>1 DEF Only

LEMMA OnlyIsNoVerdict == Only("NONE") \notin Verdict /\ Only("RUNNING") \notin Verdict
BY OnlyIsARun DEF Verdict

\* What the next action says of the run it was derived from.
LEMMA NextActionFacts ==
  ASSUME NEW r \in Run
  PROVE  /\ derive_next_action(r) \in {"WAIT_PLAN_CHECK", "FIX_SQL_AND_RETRY", "CREATE_ISSUE"}
         /\ r.status = "RUNNING" => derive_next_action(r) = "WAIT_PLAN_CHECK"
         /\ r \in Verdict /\ derive_next_action(r) = "CREATE_ISSUE" =>
               r.status = "DONE" /\ r.error = 0
         /\ r \in Verdict /\ derive_next_action(r) = "FIX_SQL_AND_RETRY" =>
               r.status # "DONE" \/ r.error > 0
<1>1. r.status \in {"NONE", "RUNNING", "FAILED", "CANCELED", "DONE"} /\ r.error \in 0..1
  BY DEF Run
<1> QED
  BY <1>1 DEF derive_next_action, blocking, Verdict

-----------------------------------------------------------------------------
LEMMA InitAll == Init => TypeOK /\ SafetyInv
<1> SUFFICES ASSUME Init PROVE TypeOK /\ SafetyInv
  OBVIOUS
<1>1. TypeOK
  <2>1. attempt \in Attempt /\ elapsed \in 0..POLL_BUDGET
    BY MaxAttemptsAssumption, BudgetAssumption DEF Init, Attempt
  <2>2. run \in [Attempt -> Run] /\ reached \in [Attempt -> SUBSET Verdict]
    BY OnlyIsARun DEF Init
  <2> QED
    BY <2>1, <2>2 DEF Init, TypeOK, Ended
<1>2. RunInv
  BY OnlyIsNoVerdict DEF Init, RunInv
<1>3. StageInv /\ NextInv /\ ResourcesNamed /\ VerdictIsTheServers /\ BudgetInv
  BY DEF Init, StageInv, NextInv, ResourcesNamed, VerdictIsTheServers, BudgetInv
<1> QED
  BY <1>1, <1>2, <1>3 DEF SafetyInv

LEMMA NextType == TypeOK /\ StageInv /\ [Next]_vars => TypeOK'
<1> SUFFICES ASSUME TypeOK, StageInv, [Next]_vars PROVE TypeOK'
  OBVIOUS
<1> USE DEF TypeOK, Ended, checks, sheet, plan
<1>a. 0 \in 0..POLL_BUDGET
  BY BudgetAssumption
<1>0. sheet \in Resource /\ plan \in Resource
  BY DEF Resource
<1>1. CASE Resolve \/ Refused
  BY <1>1 DEF Resolve, Refused, StepError, Created
<1>2. CASE CreateSheet \/ SheetUnnamed
  BY <1>0, <1>2 DEF CreateSheet, SheetUnnamed, StepError, Created
<1>3. CASE CreatePlan \/ PlanUnnamed
  <2>1. /\ made' = made \cup {plan} /\ run' = [run EXCEPT ![attempt] = Only("RUNNING")]
        /\ sheet \in made /\ UNCHANGED <<attempt, reached, elapsed, nextAction>>
    BY <1>3 DEF CreatePlan, PlanUnnamed, StageInv
  <2>2. run' \in [Attempt -> Run]
    BY <2>1, OnlyIsARun
  <2>3. \A a \in Attempt : <<"plan", a>> \in made' =>
            <<"sheet", a>> \in made' /\ run'[a].status # "NONE"
    BY <2>1, OnlyIsARun
  <2> QED
    BY <1>0, <1>3, <2>1, <2>2, <2>3 DEF CreatePlan, PlanUnnamed, StepError, Created
<1>4. CASE RunPlanChecks
  <2>1. run' = run \/ run' = [run EXCEPT ![attempt] = Only("RUNNING")]
    BY <1>4 DEF RunPlanChecks
  <2>2. /\ run' \in [Attempt -> Run]
        /\ \A a \in Attempt : run[a].status # "NONE" => run'[a].status # "NONE"
    BY <2>1, OnlyIsARun
  <2>3. reached' = reached \/ reached' = [reached EXCEPT ![attempt] = {}]
    BY <1>4 DEF RunPlanChecks
  <2>4. /\ pc' = "poll" /\ elapsed' = 0
        /\ UNCHANGED <<made, attempt, names, nextAction, told, gone>>
    BY <1>4 DEF RunPlanChecks
  <2> QED
    BY <1>a, <2>2, <2>3, <2>4
<1>5. CASE PollVerdict
  BY <1>5, NextActionFacts DEF PollVerdict, Output, StageInv, Decisive, Verdict
<1>6. CASE PollAgain
  <2>1. elapsed' \in 0..POLL_BUDGET
    BY <1>6, BudgetAssumption DEF PollAgain, Sleep
  <2> QED
    BY <1>6, <2>1 DEF PollAgain
<1>7. CASE GiveUp
  BY <1>7, NextActionFacts, OnlyIsARun DEF GiveUp, Output, StageInv
<1>8. CASE Retry
  <2>1. attempt' \in Attempt
    BY <1>8, MaxAttemptsAssumption DEF Retry, Attempt
  <2> QED
    BY <1>a, <1>8, <2>1 DEF Retry
<1>9. CASE Kill
  BY <1>9 DEF Kill
<1>10. ASSUME NEW a \in Attempt, ChecksEnd(a) PROVE TypeOK'
  <2>1. PICK r \in Verdict : /\ run' = [run EXCEPT ![a] = r]
                             /\ reached' = [reached EXCEPT ![a] = @ \cup {r}]
    BY <1>10 DEF ChecksEnd
  <2>2. r \in Run /\ r.status # "NONE"
    BY DEF Verdict
  <2> QED
    BY <1>10, <2>1, <2>2 DEF ChecksEnd
<1>11. CASE UNCHANGED vars
  BY <1>11 DEF vars
<1> QED
  BY <1>1, <1>2, <1>3, <1>4, <1>5, <1>6, <1>7, <1>8, <1>9, <1>10, <1>11 DEF Next, Call

\* A run that the server has ended is on record; the client only starts runs.
LEMMA NextRun == TypeOK /\ RunInv /\ [Next]_vars => RunInv'
<1> SUFFICES ASSUME TypeOK, RunInv, [Next]_vars PROVE RunInv'
  OBVIOUS
<1> USE DEF checks
<1>1. ASSUME UNCHANGED reached,
             run' = run \/ run' = [run EXCEPT ![attempt] = Only("RUNNING")]
      PROVE  RunInv'
  BY <1>1, OnlyIsNoVerdict DEF RunInv, TypeOK
<1>2. CASE \/ Resolve \/ Refused \/ CreateSheet \/ SheetUnnamed \/ CreatePlan
           \/ PlanUnnamed \/ PollVerdict \/ PollAgain \/ GiveUp \/ Retry \/ Kill
  BY <1>1, <1>2 DEF Resolve, Refused, CreateSheet, SheetUnnamed, CreatePlan, PlanUnnamed,
        PollVerdict, PollAgain, GiveUp, Retry, Kill
<1>3. CASE RunPlanChecks
  <2>1. CASE UNCHANGED <<run, reached>>
    BY <1>1, <2>1
  <2>2. CASE /\ run' = [run EXCEPT ![attempt] = Only("RUNNING")]
             /\ reached' = [reached EXCEPT ![attempt] = {}]
    <3>1. \A a \in Attempt : a # attempt => run'[a] = run[a] /\ reached'[a] = reached[a]
      BY <2>2 DEF TypeOK
    <3>2. run'[attempt] \notin Verdict
      BY <2>2, OnlyIsNoVerdict DEF TypeOK
    <3> QED
      BY <3>1, <3>2 DEF RunInv
  <2> QED
    BY <1>3, <2>1, <2>2 DEF RunPlanChecks
<1>4. ASSUME NEW a \in Attempt, ChecksEnd(a) PROVE RunInv'
  BY <1>4 DEF ChecksEnd, RunInv, TypeOK
<1>5. CASE UNCHANGED vars
  BY <1>1, <1>5 DEF vars
<1> QED
  BY <1>2, <1>3, <1>4, <1>5 DEF Next, Call

\* The process has the names it is about to use, and a next action is an output's.
LEMMA NextStage ==
  TypeOK /\ StageInv /\ NextInv /\ [Next]_vars => StageInv' /\ NextInv'
<1> SUFFICES ASSUME TypeOK, StageInv, NextInv, [Next]_vars PROVE StageInv' /\ NextInv'
  OBVIOUS
<1> USE DEF StageInv, NextInv, sheet, plan, Ended, checks
<1>1. CASE Resolve \/ Refused \/ CreateSheet \/ SheetUnnamed
  BY <1>1 DEF Resolve, Refused, CreateSheet, SheetUnnamed, StepError
<1>2. CASE CreatePlan \/ PlanUnnamed \/ RunPlanChecks \/ PollVerdict
  BY <1>2 DEF CreatePlan, PlanUnnamed, RunPlanChecks, StepError, PollVerdict, Output
<1>3. CASE PollAgain \/ GiveUp \/ Retry \/ Kill
  BY <1>3 DEF PollAgain, GiveUp, Output, Retry, Kill
<1>4. ASSUME NEW a \in Attempt, ChecksEnd(a) PROVE StageInv' /\ NextInv'
  BY <1>4 DEF ChecksEnd
<1>5. CASE UNCHANGED vars
  BY <1>5 DEF vars
<1> QED
  BY <1>1, <1>2, <1>3, <1>4, <1>5 DEF Next, Call

\* Only polls use up the budget, and a new attempt starts a new one.
LEMMA NextBudget == TypeOK /\ BudgetInv /\ [Next]_vars => BudgetInv'
<1> SUFFICES ASSUME TypeOK, BudgetInv, [Next]_vars PROVE BudgetInv'
  OBVIOUS
<1> USE DEF BudgetInv, Ended, checks
<1>1. CASE Resolve \/ Refused \/ CreateSheet \/ SheetUnnamed
  BY <1>1 DEF Resolve, Refused, CreateSheet, SheetUnnamed, StepError
<1>2. CASE CreatePlan \/ PlanUnnamed \/ RunPlanChecks \/ PollVerdict
  BY <1>2 DEF CreatePlan, PlanUnnamed, RunPlanChecks, StepError, PollVerdict, Output
<1>3. CASE PollAgain \/ GiveUp \/ Retry \/ Kill
  BY <1>3 DEF PollAgain, GiveUp, Output, Retry, Kill
<1>4. ASSUME NEW a \in Attempt, ChecksEnd(a) PROVE BudgetInv'
  BY <1>4 DEF ChecksEnd
<1>5. CASE UNCHANGED vars
  BY <1>5 DEF vars
<1> QED
  BY <1>1, <1>2, <1>3, <1>4, <1>5 DEF Next, Call

LEMMA NextNamed ==
  TypeOK /\ StageInv /\ NextInv /\ ResourcesNamed /\ [Next]_vars => ResourcesNamed'
<1> SUFFICES ASSUME TypeOK, StageInv, NextInv, ResourcesNamed, [Next]_vars
             PROVE  ResourcesNamed'
  OBVIOUS
<1> USE DEF ResourcesNamed, Ended, checks
<1>1. CASE Resolve \/ Refused \/ CreateSheet \/ SheetUnnamed
  BY <1>1 DEF Resolve, Refused, CreateSheet, SheetUnnamed, StepError, Created
<1>2. CASE CreatePlan \/ PlanUnnamed \/ RunPlanChecks
  BY <1>2 DEF CreatePlan, PlanUnnamed, RunPlanChecks, StepError, Created
<1>3. CASE PollVerdict \/ GiveUp
  <2>1. told' = told \cup {sheet, plan} /\ UNCHANGED <<made, gone>>
    BY <1>3 DEF PollVerdict, GiveUp, Output
  <2>2. names \subseteq {sheet, plan}
    BY DEF TypeOK
  <2> QED
    BY <2>1, <2>2
<1>4. CASE PollAgain \/ Kill
  BY <1>4 DEF PollAgain, Kill
<1>5. CASE Retry
  BY <1>5 DEF Retry, NextInv
<1>6. ASSUME NEW a \in Attempt, ChecksEnd(a) PROVE ResourcesNamed'
  BY <1>6 DEF ChecksEnd
<1>7. CASE UNCHANGED vars
  BY <1>7 DEF vars
<1> QED
  BY <1>1, <1>2, <1>3, <1>4, <1>5, <1>6, <1>7 DEF Next, Call

LEMMA NextVerdict ==
  TypeOK /\ RunInv /\ NextInv /\ VerdictIsTheServers /\ [Next]_vars => VerdictIsTheServers'
<1> SUFFICES ASSUME TypeOK, RunInv, NextInv, VerdictIsTheServers, [Next]_vars
             PROVE  VerdictIsTheServers'
  OBVIOUS
<1> USE DEF VerdictIsTheServers, checks
<1>1. CASE \/ Resolve \/ Refused \/ CreateSheet \/ SheetUnnamed \/ CreatePlan
           \/ PlanUnnamed \/ PollAgain \/ Retry \/ Kill
  BY <1>1 DEF Resolve, Refused, CreateSheet, SheetUnnamed, CreatePlan, PlanUnnamed,
        PollAgain, Retry, Kill, StepError
<1>2. CASE PollVerdict
  <2>1. run[attempt] \in Verdict /\ run[attempt] \in Run /\ run[attempt] \in reached[attempt]
    BY <1>2 DEF PollVerdict, Decisive, RunInv, TypeOK
  <2>2. nextAction' = derive_next_action(run[attempt]) /\ UNCHANGED <<reached, attempt>>
    BY <1>2 DEF PollVerdict, Output
  <2> QED
    BY <2>1, <2>2, NextActionFacts
<1>3. CASE GiveUp
  <2>1. nextAction' = "WAIT_PLAN_CHECK"
    BY <1>3, OnlyIsARun, NextActionFacts DEF GiveUp, Output
  <2> QED
    BY <2>1
<1>4. CASE RunPlanChecks
  <2>1. nextAction = "none" /\ nextAction' = nextAction
    BY <1>4, NextActionFacts DEF RunPlanChecks, NextInv, TypeOK
  <2> QED
    BY <2>1
<1>5. ASSUME NEW a \in Attempt, ChecksEnd(a) PROVE VerdictIsTheServers'
  <2>1. reached[attempt] \subseteq reached'[attempt] /\ UNCHANGED <<attempt, nextAction>>
    BY <1>5 DEF ChecksEnd, TypeOK
  <2> QED
    BY <2>1
<1>6. CASE UNCHANGED vars
  BY <1>6 DEF vars
<1> QED
  BY <1>1, <1>2, <1>3, <1>4, <1>5, <1>6 DEF Next, Call

-----------------------------------------------------------------------------
\* The inductive invariant, TypeOK with it: what the process has and has told,
\* and what the server's runs have ended with.
THEOREM Safety == Spec => [](TypeOK /\ SafetyInv)
<1>1. TypeOK /\ SafetyInv /\ [Next]_vars => (TypeOK /\ SafetyInv)'
  BY NextType, NextRun, NextStage, NextNamed, NextVerdict, NextBudget DEF SafetyInv
<1> QED
  BY <1>1, InitAll, PTL DEF Spec

\* TypeOK of ChangePropose is an invariant: among others, a plan has its sheet.
THEOREM TypeCorrect == Spec => []TypeOK
BY Safety, PTL

\* However many attempts an agent makes, an error path orphans nothing: a sheet
\* or plan was named to it, unless an answer was lost or a process killed.
THEOREM NothingOrphaned == Spec => []ResourcesNamed
<1>1. SafetyInv => ResourcesNamed
  BY DEF SafetyInv
<1> QED
  BY <1>1, Safety, PTL

\* The next action is always what the checks of this plan have ended with since they
\* were last started.
THEOREM VerdictIsTrue == Spec => []VerdictIsTheServers
<1>1. SafetyInv => VerdictIsTheServers
  BY DEF SafetyInv
<1> QED
  BY <1>1, Safety, PTL

LEMMA PollsLeft ==
  ASSUME NEW b \in Nat, NEW e \in 0..b, NEW f \in (e + 1)..b
  PROVE  1 + (b - f) \in 0 .. (1 + (b - e)) - 1
<1>1. e \in Nat /\ f \in Nat /\ f >= e + 1 /\ f <= b
  OBVIOUS
<1>2. b - f \in Nat /\ b - f <= b - e - 1
  BY <1>1
<1> QED
  BY <1>1, <1>2

\* Every call of an attempt brings it nearer its end, five steps and the polls of
\* its budget away from its start, whatever the server answers.
THEOREM AttemptsAreBounded == Spec => AttemptAdvances
<1>1. ASSUME TypeOK, SafetyInv, Call PROVE CallsLeft' \in 0 .. CallsLeft - 1
  <2> USE DEF Ended, CallsLeft, Stage
  <2>1. POLL_BUDGET \in Nat /\ elapsed \in 0..POLL_BUDGET
    BY <1>1, BudgetAssumption DEF TypeOK
  <2>2. pc \in {"resolve", "create_sheet", "create_plan", "run_checks"} => elapsed = 0
    BY <1>1 DEF SafetyInv, BudgetInv
  <2>3. CASE Resolve \/ Refused
    BY <2>1, <2>3 DEF Resolve, Refused, StepError
  <2>4. CASE CreateSheet \/ SheetUnnamed
    BY <2>1, <2>4 DEF CreateSheet, SheetUnnamed, StepError
  <2>5. CASE CreatePlan \/ PlanUnnamed
    BY <2>1, <2>5 DEF CreatePlan, PlanUnnamed, StepError
  <2>6. CASE RunPlanChecks
    <3>1. pc = "run_checks" /\ pc' = "poll" /\ elapsed' = 0
      BY <2>6 DEF RunPlanChecks
    <3> QED
      BY <2>1, <2>2, <3>1
  <2>7. CASE PollVerdict \/ GiveUp
    <3>1. pc = "poll" /\ pc' = "output"
      BY <2>7 DEF PollVerdict, GiveUp, Output
    <3> QED
      BY <2>1, <3>1
  <2>8. CASE PollAgain
    <3>1. pc = "poll" /\ pc' = "poll" /\ elapsed' \in (elapsed + 1)..POLL_BUDGET
      BY <2>8 DEF PollAgain, Sleep
    <3>2. CallsLeft = 1 + (POLL_BUDGET - elapsed) /\ CallsLeft' = 1 + (POLL_BUDGET - elapsed')
      BY <3>1
    <3>3. 1 + (POLL_BUDGET - elapsed') \in 0 .. (1 + (POLL_BUDGET - elapsed)) - 1
      BY <2>1, <3>1, PollsLeft
    <3> QED
      BY <3>2, <3>3, Zenon
  <2> QED
    BY <1>1, <2>3, <2>4, <2>5, <2>6, <2>7, <2>8 DEF Call
<1>2. TypeOK /\ SafetyInv => [Call => CallsLeft' \in 0 .. CallsLeft - 1]_vars
  BY <1>1
<1> QED
  BY <1>2, Safety, PTL DEF Spec, AttemptAdvances
=============================================================================
