----------------------------- MODULE GovernedRun ----------------------------
(***************************************************************************)
(* The DEV-QA loop of one run and what governs it: Kilo executions and the *)
(* change sets they leave, model calls on the budget of the project,       *)
(* strategies, decisions, adaptive plans, and the founder's answers.       *)
(*                                                                         *)
(* The run's thread works beside the routes of the founder and the other   *)
(* runs of its project, which share the budget.  A model call resolves the *)
(* budget, reads it, stores a changed copy and judges what is stored then, *)
(* which are four steps; one call of any other registry is one step.  The  *)
(* queue, the locks and the slots are those of DevelopmentRun; here a slot *)
(* is there or not.                                                        *)
(***************************************************************************)
EXTENDS ExecutionRules

CONSTANTS Settings,     \* Kilo settings the process may be started with
          Histories,    \* what the memory of the project may hold at the start
          Tasks,        \* bound: packages of the run
          MaxAttempts,  \* attempts of an execution: 1, unless the client is
                        \* configured otherwise (tests/test_runtime_observability)
          Files,        \* bound: numbers of files an execution may change
          PackageSize,  \* size of a task package: 12 for those of the runtime
          Limit,        \* max_model_calls of a budget
          MaxBudgets,   \* bound: budgets of the project
          MaxEvents     \* bound: events that are not steps of the run's plan

Setting == [enabled : BOOLEAN, dryRun : BOOLEAN, allowed : BOOLEAN,
            root : BOOLEAN, cli : BOOLEAN]

ASSUME GovernedAssumption ==
    /\ Settings \subseteq Setting /\ Files \subseteq Nat
    /\ Histories \subseteq [new : BOOLEAN, issues : Nat, reviews : Nat]
    /\ {Tasks, MaxAttempts, PackageSize, Limit, MaxBudgets, MaxEvents} \subseteq Nat \ {0}

VARIABLES setting,    \* KiloRuntimeSettings
          memory,     \* ProjectMemoryRegistry, as far as strategies read it
          at,         \* the node of the graph and the place in it
          task,       \* the package worked on
          loops,      \* loop_count
          validation, \* status of the last ValidationPackage
          attempts,   \* outcomes of the attempts of this execution
          disk,       \* revision DEV's executions left in each task's sandbox
          changes,    \* CodeChangeRegistry: change set per role and task
          noted,      \* run metadata: files_changed_count, retry_attempts,
                      \* dead_letter_count, cost_control_status
          taskSet,    \* tasks in metadata["task_change_set_ids"]
          current,    \* task of metadata["current_change_set_id"]
          passed,     \* tasks QA passed
          decisions, plans, strategy,
          retried,    \* a recorded execution of the run needed a retry
          dead,       \* the SupervisorRegistry holds a dead letter of the run
          budgets,    \* EconomicsRegistry, in order of creation
          charge, other, \* budget read by this run's and another run's call
          events      \* what the bound counts

work == <<at, task, loops, validation, memory, passed>>
kilo == <<attempts, disk, changes, taskSet, current, retried>>
governing == <<decisions, plans>>
money == <<budgets, charge, other>>
vars == <<setting, work, kilo, governing, money, noted, strategy, dead, events>>

Task == 1..Tasks
NoTask == 0
NoChange == [status |-> "NONE"]
NoStrategy == [type |-> "NONE", autonomy |-> "NONE", qa |-> -1, risk |-> -1,
               sandbox |-> -1, model |-> "NONE", event |-> "NONE"]
NoCharge == [id |-> 0, used |-> 0]

Init ==
    /\ setting \in Settings /\ memory \in Histories
    /\ at = <<"DEV", "registering">> /\ task = 1 /\ loops = 0 /\ validation = "NONE"
    /\ attempts = <<>> /\ disk = [t \in Task |-> 0]
    /\ changes = [k \in {"DEV", "QA"} \X Task |-> NoChange]
    /\ noted = [files |-> 0, retry |-> 0, dead |-> FALSE, cost |-> "ALLOW"]
    /\ taskSet = {} /\ current = NoTask /\ passed = {}
    /\ decisions = {} /\ plans = {} /\ strategy = NoStrategy
    /\ retried = FALSE /\ dead = FALSE
    /\ budgets \in {<<>>, <<[max |-> Limit, used |-> 0]>>}
    /\ charge = NoCharge /\ other = NoCharge /\ events = 0

Role == at[1]
In(place) == at[2] = place
Happens == events < MaxEvents /\ events' = events + 1
GoTo(place) == at' = <<Role, place>>

-----------------------------------------------------------------------------
(* Strategies.                                                             *)
Real == setting.enabled /\ ~ setting.dryRun

Context(layer) ==
    [role |-> Role, layer |-> layer, real |-> layer = "KILO" /\ Real,
     simulated |-> TRUE, new |-> memory.new, issues |-> memory.issues,
     stable |-> memory.issues = 0 /\ memory.reviews > 0,
     files |-> noted.files, retry |-> noted.retry, dead |-> noted.dead,
     cost |-> noted.cost, decisions |-> Cardinality(decisions),
     confidence |-> IF Role = "QA" THEN 80 ELSE 84,
     qaFails |-> IF validation = "FAILED" THEN loops + 1 ELSE loops]

ResolveStrategy(layer) ==
    strategy' = EvaluateExecutionStrategy(Context(layer), strategy)

\* _sync_runtime_metadata brings the dead letters of the run into its metadata.
SyncDeadLetters == noted' = [noted EXCEPT !.dead = dead]

\* register_queue_item_watchdog, when the next package is started.
RegisterTask ==
    /\ In("registering")
    /\ ResolveStrategy("WORKFLOW") /\ SyncDeadLetters /\ GoTo("starting")
    /\ UNCHANGED <<setting, task, loops, validation, memory, passed, kilo,
                   governing, money, dead, events>>

\* start_step of a node.
StartStep ==
    /\ In("starting")
    /\ ResolveStrategy("WORKFLOW")
    /\ GoTo(IF Role = "DEV" THEN "opening" ELSE "requesting")
    /\ UNCHANGED <<setting, task, loops, validation, memory, passed, kilo,
                   governing, money, noted, dead, events>>

\* The session of the package is created on DEV's first visit: a new session
\* had no retries.  A rework goes on in the session there is.
OpenSession ==
    /\ In("opening") /\ GoTo("requesting")
    /\ noted' = IF validation = "FAILED" THEN noted
                ELSE [noted EXCEPT !.retry = 0, !.dead = dead]
    /\ UNCHANGED <<setting, task, loops, validation, memory, passed, kilo,
                   governing, money, strategy, dead, events>>

-----------------------------------------------------------------------------
(* Decisions and plans.  Each stays as proposed until the founder answers. *)
Signal(source, t) == <<source, Role, t, loops>>

Decided(source, c) ==
    LET type == ResolveDecision(c)
    IN  [for |-> Signal(source, task), type |-> type,
         review |-> ShouldRequireHumanReview(c, type),
         status |-> IF CanApplyDecision(c, type) THEN "APPLIED" ELSE "PROPOSED"]

Planned(source, c) ==
    [for |-> Signal(source, task), mutations |-> Mutations(c),
     review |-> \E m \in Mutations(c) : RequiresHumanReview(m), status |-> "PROPOSED"]

\* The routes look at nothing but whether it exists; nobody applies a plan.
AnswerDecision(d, answer) ==
    /\ Happens
    /\ decisions' = (decisions \ {d}) \cup {[d EXCEPT !.status = answer]}
    /\ UNCHANGED <<setting, work, kilo, plans, money, noted, strategy, dead>>

AnswerPlan(p, answer) ==
    /\ Happens
    /\ plans' = (plans \ {p}) \cup {[p EXCEPT !.status = answer]}
    /\ UNCHANGED <<setting, work, kilo, decisions, money, noted, strategy, dead>>

-----------------------------------------------------------------------------
(* execute_kilo_step.                                                      *)
\* No slot: the node goes on without an execution.
SkipExecution ==
    /\ In("requesting") /\ Happens
    /\ ResolveStrategy("KILO") /\ GoTo("calling")
    /\ UNCHANGED <<setting, task, loops, validation, memory, passed, kilo,
                   governing, money, noted, dead>>

BeginExecution ==
    /\ In("requesting")
    /\ ResolveStrategy("KILO") /\ GoTo("executing")
    /\ SyncDeadLetters /\ attempts' = <<>>
    /\ UNCHANGED <<setting, task, loops, validation, memory, passed, disk, changes,
                   taskSet, current, retried, governing, money, dead, events>>

Safety == SafetyStatus(setting)
Simulated == Safety \in {"DISABLED", "DRY_RUN"}
Succeeded == attempts # <<>> /\ attempts[Len(attempts)] = "SUCCESS"
NextAttempt == In("executing") /\ ~ Succeeded /\ Len(attempts) < MaxAttempts

\* Without KILO_CLI_PATH the executor raises through the node.
AttemptRaises ==
    /\ NextAttempt /\ Safety = "ALLOWED" /\ ~ setting.cli
    /\ GoTo("crashed")
    /\ UNCHANGED <<setting, task, loops, validation, memory, passed, kilo,
                   governing, money, noted, strategy, dead, events>>

\* A simulated attempt fails only when it is the first and asked to; a real
\* one may fail or time out, and leaves what it wrote.
Attempt(outcome) ==
    /\ NextAttempt /\ (Simulated \/ (Safety = "ALLOWED" /\ setting.cli))
    /\ outcome = "FAILED" => ~ Simulated \/ attempts = <<>>
    /\ attempts' = Append(attempts, outcome)
    /\ IF outcome = "FAILED" THEN Happens ELSE UNCHANGED events
    /\ disk' = IF Role = "DEV" /\ ~ Simulated
               THEN [disk EXCEPT ![task] = @ + 1] ELSE disk
    /\ UNCHANGED <<setting, work, changes, taskSet, current, retried, governing,
                   money, noted, strategy, dead>>

\* An execution blocked by the validator has no attempt and no change set.
Ended == In("executing") /\ (Safety = "BLOCKED" \/ (attempts # <<>> /\ ~ NextAttempt))
\* Wrong: the first attempt counts as a retry.
RetriesAndFirst == Len(attempts)

Retries == IF attempts = <<>> THEN 0 ELSE Len(attempts) - 1

\* create_change_set: the execution id is a hash of run, role and task, and
\* the session is the task's, so a rework is given the first change set again.
ChangeSet(n) ==
    IF Safety = "BLOCKED" \/ changes[<<Role, task>>] # NoChange THEN changes[<<Role, task>>]
    ELSE [status |-> "DETECTED", files |-> n, of |-> disk[task]]

\* What execute_kilo_step does with a result: the change set, a decision and a
\* plan if it is large (on the retries noted last), the retries, and a decision
\* if the execution failed.
FinishExecution(n) ==
    LET set == ChangeSet(n)
        large == set # NoChange /\ Safety # "BLOCKED" /\ set.files >= LargeDiff
        diff == [NoSignal EXCEPT !.retry = noted.retry, !.files = set.files,
                                 !.size = PackageSize, !.touched = Role = "DEV"]
        failure == [NoSignal EXCEPT !.retry = Retries, !.kiloFailed = TRUE,
                      !.max = IF MaxAttempts = 1 THEN 1 ELSE MaxAttempts - 1,
                      !.files = noted.files, !.touched = Role = "DEV"]
    IN  /\ Ended /\ GoTo("calling")
        /\ IF Simulated \/ Safety = "BLOCKED" THEN n = 0 /\ UNCHANGED events
           ELSE n \in Files /\ IF n <= 2 THEN UNCHANGED events ELSE Happens
        /\ changes' = [changes EXCEPT ![<<Role, task>>] = set]
        /\ IF Role = "DEV" /\ Safety # "BLOCKED"
           THEN taskSet' = taskSet \cup {task} /\ current' = task
           ELSE UNCHANGED <<taskSet, current>>
        /\ decisions' = decisions
             \cup (IF large THEN {Decided("code_change_detection", diff)} ELSE {})
             \cup (IF Succeeded THEN {} ELSE {Decided("kilo_execution", failure)})
        /\ plans' = IF large THEN plans \cup {Planned("code_change_detection", diff)}
                    ELSE plans
        /\ noted' = [noted EXCEPT !.retry = Retries, !.dead = dead,
                       !.files = IF Safety = "BLOCKED" THEN @ ELSE set.files]
        /\ retried' = (retried \/ Retries > 0)
        /\ UNCHANGED <<setting, task, loops, validation, memory, passed, attempts,
                       disk, money, strategy, dead>>

-----------------------------------------------------------------------------
(* The model call of the node's agent, and the budget.                     *)
Latest == Len(budgets)

\* ModelExecutor resolves the budget once the provider has answered.
ResolveBudget ==
    /\ In("calling") /\ GoTo("reading")
    /\ charge' = [id |-> Latest, used |-> 0]
    /\ UNCHANGED <<setting, task, loops, validation, memory, passed, kilo, governing,
                   budgets, other, noted, strategy, dead, events>>

\* Where none was found, one that was created since is taken.
Active == IF charge.id = 0 THEN Latest ELSE charge.id

\* record_usage reads the budget ...
ReadBudget ==
    /\ In("reading") /\ GoTo("charging")
    /\ charge' = IF Active = 0 THEN NoCharge
                 ELSE [id |-> Active, used |-> budgets[Active].used]
    /\ UNCHANGED <<setting, task, loops, validation, memory, passed, kilo, governing,
                   budgets, other, noted, strategy, dead, events>>

\* ... and stores the changed copy.
ChargeBudget ==
    /\ In("charging") /\ GoTo("judging")
    /\ budgets' = IF charge.id = 0 THEN budgets
                  ELSE [budgets EXCEPT ![charge.id].used = charge.used + 1]
    /\ UNCHANGED <<setting, task, loops, validation, memory, passed, kilo, governing,
                   charge, other, noted, strategy, dead, events>>

\* Wrong: the run notes the status of its last call.
WorseLast(seen, new) == new

\* register_prompt_pipeline_cost: the status of a run never improves.
Worse(seen, new) == IF CostRank(new) >= CostRank(seen) THEN new ELSE seen

\* evaluate_budget reads the budget again, and the node notes its status.
JudgeBudget ==
    /\ In("judging") /\ GoTo(IF Role = "DEV" THEN "done" ELSE "verdict")
    /\ noted' = [noted EXCEPT !.cost =
                   Worse(noted.cost, IF Active = 0 THEN "ALLOW"
                                     ELSE EvaluateBudget(budgets[Active]))]
    /\ charge' = NoCharge
    /\ UNCHANGED <<setting, task, loops, validation, memory, passed, kilo, governing,
                   budgets, other, strategy, dead, events>>

\* POST /economics/budgets: the newest budget of the project is the active one.
CreateBudget(max) ==
    /\ Latest < MaxBudgets /\ Happens
    /\ budgets' = Append(budgets, [max |-> max, used |-> 0])
    /\ UNCHANGED <<setting, work, kilo, governing, charge, other, noted, strategy, dead>>

\* The budget another run resolved, which need not be the newest any more.
OtherRunReads(b) ==
    /\ other = NoCharge /\ Happens
    /\ other' = [id |-> b, used |-> budgets[b].used]
    /\ UNCHANGED <<setting, work, kilo, governing, budgets, charge, noted, strategy, dead>>

OtherRunCharges ==
    /\ other # NoCharge
    /\ budgets' = [budgets EXCEPT ![other.id].used = other.used + 1]
    /\ other' = NoCharge
    /\ UNCHANGED <<setting, work, kilo, governing, charge, noted, strategy, dead, events>>

\* The provider raises ModelExecutionError through the node.
CallRaises ==
    /\ In("calling") /\ Happens /\ GoTo("crashed")
    /\ UNCHANGED <<setting, task, loops, validation, memory, passed, kilo,
                   governing, money, noted, strategy, dead>>

-----------------------------------------------------------------------------
\* dev_implementation is complete.
DevDone ==
    /\ In("done") /\ at' = <<"QA", "starting">>
    /\ UNCHANGED <<setting, task, loops, validation, memory, passed, kilo,
                   governing, money, noted, strategy, dead, events>>

\* Wrong: the verdict goes to the change set recorded last, QA's own.
VerdictOnLast(verdict) ==
    IF changes[<<"QA", task>>] = NoChange THEN changes
    ELSE [changes EXCEPT ![<<"QA", task>>].status = verdict]

\* The change set of the task or, if DEV was not given a slot, that of the
\* task before; whatever its status was.
Verdict(verdict) ==
    LET checked == IF task \in taskSet THEN task ELSE current
    IN  IF checked = NoTask THEN changes
        ELSE [changes EXCEPT ![<<"DEV", checked>>].status = verdict]

\* The pipeline fails the first validation of a run: a plan, a decision, a
\* review and a QA_ISSUE in the memory of the project.
QaFails ==
    LET c == [NoSignal EXCEPT !.retry = loops, !.qaFailed = TRUE, !.touched = TRUE,
                !.failedValidation = TRUE, !.qaFails = loops + 1,
                !.files = noted.files, !.size = PackageSize]
    IN  /\ In("verdict") /\ loops = 0
        /\ validation' = "FAILED" /\ changes' = Verdict("FAILED_VALIDATION")
        /\ plans' = plans \cup {Planned("qa_validation", c)}
        /\ decisions' = decisions \cup {Decided("qa_validation", c)}
        /\ memory' = [memory EXCEPT !.issues = @ + 1]
        /\ SyncDeadLetters /\ GoTo("iterating")
        /\ UNCHANGED <<setting, task, loops, passed, attempts, disk, taskSet, current,
                       retried, money, strategy, dead, events>>

\* dev_qa_iteration.
Iterate ==
    /\ In("iterating") /\ ResolveStrategy("WORKFLOW")
    /\ loops' = loops + 1 /\ at' = <<"DEV", "starting">>
    /\ UNCHANGED <<setting, task, validation, memory, passed, kilo, governing, money,
                   noted, dead, events>>

\* A pass closes the review of the failed validation, of whatever task.
QaPasses ==
    /\ In("verdict") /\ loops > 0
    /\ validation' = "PASSED" /\ changes' = Verdict("VALIDATED")
    /\ passed' = passed \cup {task}
    /\ memory' = [memory EXCEPT !.reviews = @ + 1]
    /\ SyncDeadLetters
    /\ IF task < Tasks THEN task' = task + 1 /\ at' = <<"DEV", "registering">>
       ELSE GoTo("ended") /\ UNCHANGED task
    /\ UNCHANGED <<setting, loops, attempts, disk, taskSet, current, retried,
                   governing, money, strategy, dead, events>>

-----------------------------------------------------------------------------
\* POST /code-changes/{id}/discard, at any time.
Discard(key) ==
    /\ changes[key] # NoChange /\ Happens
    /\ changes' = [changes EXCEPT ![key].status = "DISCARDED"]
    /\ UNCHANGED <<setting, work, attempts, disk, taskSet, current, retried, governing,
                   money, noted, strategy, dead>>

\* POST /supervisor/detect-stuck makes a dead letter of an execution that needed
\* a retry once its watchdog is old, although it has ended.
DeadLetter ==
    /\ retried /\ ~ dead /\ Happens /\ dead' = TRUE
    /\ UNCHANGED <<setting, work, kilo, governing, money, noted, strategy>>

Run ==
    \/ RegisterTask \/ StartStep \/ OpenSession \/ BeginExecution
    \/ (\E n \in Files \cup {0} : FinishExecution(n))
    \/ (\E o \in {"SUCCESS", "FAILED"} : Attempt(o)) \/ AttemptRaises
    \/ SkipExecution \/ CallRaises
    \/ ResolveBudget \/ ReadBudget \/ ChargeBudget \/ JudgeBudget
    \/ DevDone \/ QaFails \/ Iterate \/ QaPasses

Beside ==
    \/ \E d \in decisions, a \in {"ACCEPTED", "REJECTED"} : AnswerDecision(d, a)
    \/ \E p \in plans, a \in {"APPROVED", "REJECTED"} : AnswerPlan(p, a)
    \/ \E key \in DOMAIN changes : Discard(key)
    \/ \E max \in {0, Limit} : CreateBudget(max)
    \/ \E b \in 1..Latest : OtherRunReads(b)
    \/ OtherRunCharges \/ DeadLetter

Next == Run \/ Beside

Spec == Init /\ [][Next]_vars

-----------------------------------------------------------------------------
\* Type invariant of the run, its registries and the budgets.
TypeOK ==
    /\ setting \in Settings
    /\ memory \in [new : BOOLEAN, issues : Nat, reviews : Nat]
    /\ at \in {"DEV", "QA"} \X {"registering", "starting", "opening", "requesting",
                                "executing", "calling", "reading", "charging", "judging",
                                "done", "verdict", "iterating", "ended", "crashed"}
    /\ task \in Task /\ loops \in 0..1 /\ validation \in {"NONE", "FAILED", "PASSED"}
    /\ Len(attempts) <= MaxAttempts
    /\ \A i \in DOMAIN attempts : attempts[i] = "SUCCESS" => i = Len(attempts)
    /\ disk \in [Task -> 0..(2 * MaxAttempts)]
    /\ \A k \in DOMAIN changes :
         \/ changes[k] = NoChange
         \/ changes[k] \in [status : {"DETECTED", "VALIDATED", "FAILED_VALIDATION",
                                      "DISCARDED"}, files : Nat, of : Nat]
    /\ noted \in [files : Nat, retry : 0..(MaxAttempts - 1), dead : BOOLEAN,
                  cost : {CostStatus[i] : i \in DOMAIN CostStatus}]
    /\ taskSet \subseteq Task /\ current \in Task \cup {NoTask} /\ passed \subseteq Task
    /\ \A d \in decisions : /\ d.type \in DecisionType
                            /\ d.status \in {"PROPOSED", "ACCEPTED", "REJECTED"}
    /\ \A p \in plans : p.status \in {"PROPOSED", "APPROVED", "REJECTED"}
    /\ strategy # NoStrategy => {strategy.qa, strategy.risk, strategy.sandbox} \subseteq Level
    /\ {retried, dead} \subseteq BOOLEAN
    /\ \A b \in {charge.id, other.id} : b \in 0..Latest
    /\ events \in 0..MaxEvents

\* A change set is VALIDATED only if QA passed its task, and QA leaves no
\* change set of a passed task unjudged, through skipped and failed
\* executions, reworks and discards (qa_validation_node).
VerdictsReachTheirTask ==
    \A t \in Task :
      /\ changes[<<"DEV", t>>].status = "VALIDATED" => t \in passed
      /\ t \in passed => changes[<<"DEV", t>>].status \notin {"DETECTED", "FAILED_VALIDATION"}

\* The decision engine and the planner judge a signal alike: they stop a task
\* exactly when they escalate it, and both ask the founder.
StopIsEscalated ==
    \A d \in decisions, p \in plans :
      p.for = d.for => /\ d.type = "STOP" <=> "ESCALATE_TASK" \in p.mutations
                       /\ d.type = "STOP" => d.review /\ p.review

\* Caution is not given up: a run that has been CRITICAL stays so, and a run
\* that was blocked gets no other strategy than the thrifty, simulated one,
\* though a new budget replaces the exhausted one or another run's call winds
\* its usage back (register_prompt_pipeline_cost, evaluate_execution_strategy).
Thrifty == strategy.type = "COST_OPTIMIZED" /\ strategy.autonomy = "MANUAL"
CautionStays ==
    [][/\ strategy.risk = 3 => strategy'.risk = 3
       /\ Thrifty => strategy'.type = "COST_OPTIMIZED" /\ strategy'.model = "fake"]_vars

\* What QA validates is what DEV wrote last.
VerdictIsOnWhatDevWrote ==
    \A t \in passed : changes[<<"DEV", t>>].status = "VALIDATED"
                        => changes[<<"DEV", t>>].of = disk[t]
=============================================================================
