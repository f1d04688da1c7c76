----------------------------- MODULE Supervision ----------------------------
(***************************************************************************)
(* The supervisor beside one development run: watchdogs, heartbeats and    *)
(* the recovery of stuck targets (packages/supervisor, runtime/            *)
(* supervisor.py), the task sessions they watch (packages/sessions,        *)
(* runtime/sessions.py), and the HTTP routes that look for stuck targets   *)
(* and cancel the run (routes/supervisor.py).                              *)
(*                                                                         *)
(* The run is one thread.  A request is a thread of its own: it copies the *)
(* list of watchdogs and then writes them one by one from the copies, so   *)
(* the run goes on between any two writes.  Time is either short or longer *)
(* than every timeout (Silence).  Left out: health labels, which repeat    *)
(* statuses; the timeline; the PO's execution before the first item; and    *)
(* the refusal of a workspace, which DevelopmentRun models.                *)
(***************************************************************************)
EXTENDS Naturals, FiniteSets, Sequences

CONSTANTS
  Requests,      \* threads of the supervisor's routes
  Tasks,         \* number of packages of the plan, worked on in order
  MaxRetries,    \* DEFAULT_MAX_RECOVERY_ATTEMPTS and metadata["max_retries"]
  MaxMishaps,    \* bound: silences, skipped executions and repeated attempts
  MaxCalls       \* bound: calls of the routes

ASSUME SupervisionAssumption ==
  /\ IsFiniteSet(Requests) /\ Tasks \in Nat \ {0} /\ MaxRetries \in Nat
  /\ {MaxMishaps, MaxCalls} \subseteq Nat

Task == 1..Tasks
NoTask == 0

VARIABLES
  step,         \* where the run is
  task,         \* its current queue item
  reworked,     \* loop_count > 0
  items,        \* status of each queue item
  sessions,     \* [status, attempts] of the session of each task
  current,      \* metadata["current_session_id"]: the task of that session
  watchdogs,    \* the supervisor's watchdogs, oldest first
  actions,      \* per watchdog: its recovery actions, "RETRY" or a dead letter
  silences,     \* how often the run fell silent
  mishaps,      \* how often anything went wrong
  calls,        \* how many calls the routes got
  call,         \* what each request is doing
  listed,       \* the watchdogs it still has to write
  heard         \* those that were fresh in the copies of the one that cancels

run == <<step, task, reworked, items, sessions, current>>
vars == <<run, watchdogs, actions, silences, mishaps, calls, call, listed, heard>>

Over == {"ended", "crashed"}
KiloSteps == {"activating", "dev", "qa"}

ItemStatus == {"QUEUED", "RUNNING", "COMPLETED"}
SessionStatus == {"NONE", "RUNNING", "WAITING_REVIEW", "COMPLETED", "CANCELLED"}
WatchdogStatus == {"ACTIVE", "STUCK", "COMPLETED", "CANCELLED"}
TargetType == {"TaskQueueItem", "TaskExecutionSession", "KiloExecution"}

Init ==
  /\ step = "starting" /\ task = NoTask /\ reworked = FALSE
  /\ items = [t \in Task |-> "QUEUED"]
  /\ sessions = [t \in Task |-> [status |-> "NONE", attempts |-> 0]]
  /\ current = NoTask
  /\ watchdogs = <<>> /\ actions = <<>> /\ silences = 0 /\ mishaps = 0 /\ calls = 0
  /\ call = [c \in Requests |-> "idle"]
  /\ listed = [c \in Requests |-> {}] /\ heard = {}

-----------------------------------------------------------------------------
(* The registry's watchdogs.  target names the task; retried is            *)
(* metadata["retry_attempts"], which nothing changes after registration.   *)
NewWatchdog(type, t, retried) ==
  [type |-> type, task |-> t, retried |-> retried,
   status |-> "ACTIVE", fresh |-> TRUE]

Registered(type, t, retried) ==
  Append(watchdogs, NewWatchdog(type, t, retried))

\* Its writes: a heartbeat, a final status, and the time that passes.
Beating(dog) == [dog EXCEPT !.status = "ACTIVE", !.fresh = TRUE]
Ended(dog, status) == [dog EXCEPT !.status = status]
EndedCopy(dog, status, fresh) == [dog EXCEPT !.status = status, !.fresh = fresh]
Silent(dog) == [dog EXCEPT !.fresh = FALSE]

Watching(type, t) ==
  {w \in DOMAIN watchdogs : watchdogs[w].type = type /\ watchdogs[w].task = t}

\* Wrong: only an ACTIVE or STUCK watchdog takes a heartbeat.
BeatsUnlessEnded(type, t, dogs) ==
  [w \in DOMAIN dogs |->
     IF w \in Watching(type, t) /\ dogs[w].status \in {"ACTIVE", "STUCK"}
     THEN Beating(dogs[w]) ELSE dogs[w]]

\* heartbeat_watchdog: ACTIVE again, whatever the status was.
Beats(type, t, dogs) ==
  [w \in DOMAIN dogs |->
     IF w \in Watching(type, t)
     THEN Beating(dogs[w]) ELSE dogs[w]]

\* complete_queue_item_watchdog and finalize_session_health.
Completes(type, t, dogs) ==
  [w \in DOMAIN dogs |->
     IF w \in Watching(type, t) THEN Ended(dogs[w], "COMPLETED") ELSE dogs[w]]

-----------------------------------------------------------------------------
(* The run. *)
Goto(s) == step' = s
ToSession(t, status, attempts) ==
  sessions' = [sessions EXCEPT ![t] = [status |-> status, attempts |-> attempts]]

Supervised == <<silences, calls, call, listed, heard>>

\* Wrong: an item is started although none is left.
StartItemUnguarded ==
  /\ step = "starting" /\ task <= Tasks
  /\ task' = task + 1
  /\ items' = [items EXCEPT ![task + 1] = "RUNNING"]
  /\ watchdogs' = Registered("TaskQueueItem", task + 1, 0)
  /\ actions' = Append(actions, <<>>)
  /\ Goto(IF task = NoTask THEN "activating" ELSE "opening")
  /\ UNCHANGED <<reworked, sessions, current, Supervised, mishaps>>

\* start_next_ready_task, once the workspace is allocated: the item's watchdog
\* and its first heartbeat.  The PO activates only the first package with Kilo.
StartItem ==
  /\ step = "starting" /\ task < Tasks
  /\ task' = task + 1
  /\ items' = [items EXCEPT ![task + 1] = "RUNNING"]
  /\ watchdogs' = Registered("TaskQueueItem", task + 1, 0)
  /\ actions' = Append(actions, <<>>)
  /\ Goto(IF task = NoTask THEN "activating" ELSE "opening")
  /\ UNCHANGED <<reworked, sessions, current, Supervised, mishaps>>

\* dev_implementation without a session for the task: created, RUNNING, watched.
OpenSession ==
  /\ step = "opening" /\ current # task
  /\ ToSession(task, "RUNNING", 0)
  /\ current' = task
  /\ watchdogs' = Registered("TaskExecutionSession", task, 0)
  /\ actions' = Append(actions, <<>>)
  /\ Goto("dev")
  /\ UNCHANGED <<task, reworked, items, Supervised, mishaps>>

\* ... with the session of the iteration before: RUNNING again.
ResumeSession ==
  /\ step = "opening" /\ current = task
  /\ ToSession(task, "RUNNING", sessions[task].attempts)
  /\ Goto("dev")
  /\ UNCHANGED <<task, reworked, items, current, watchdogs, actions, Supervised, mishaps>>

AfterKilo == [activating |-> "opening", dev |-> "qa", qa |-> "verdict"]
Executing == [activating |-> "activating now", dev |-> "dev now", qa |-> "qa now"]
KiloOf(s) == CHOOSE k \in KiloSteps : Executing[k] = s

\* execute_kilo_step with a slot: heartbeats of the item and of the current
\* session, then the client runs.
BeginExecution ==
  /\ step \in KiloSteps
  /\ watchdogs' = Beats("TaskQueueItem", task,
                    Beats("TaskExecutionSession", current, watchdogs))
  /\ Goto(Executing[step])
  /\ UNCHANGED <<task, reworked, items, sessions, current, actions, Supervised, mishaps>>

\* Without a slot the step is skipped, heartbeats and all.
SkipExecution ==
  /\ step \in KiloSteps /\ mishaps < MaxMishaps
  /\ mishaps' = mishaps + 1
  /\ Goto(AfterKilo[step])
  /\ UNCHANGED <<task, reworked, items, sessions, current, watchdogs, actions,
                 Supervised>>

\* record_kilo_execution_for_session adds the attempts of the result.
AttemptsAfter(t, retried) == sessions[t].attempts + retried + 1

\* The result is there, with retried repeated attempts: the execution gets a
\* watchdog now that it is over, and the session counts and beats.
RecordExecution(retried) ==
  /\ step \in {Executing[k] : k \in KiloSteps}
  /\ mishaps + retried <= MaxMishaps /\ mishaps' = mishaps + retried
  /\ LET dogs == Registered("KiloExecution", task, retried)
     IN  watchdogs' = Beats("TaskExecutionSession", current, dogs)
  /\ actions' = Append(actions, <<>>)
  /\ IF current = NoTask THEN UNCHANGED sessions
     ELSE ToSession(current, "RUNNING", AttemptsAfter(current, retried))
  /\ Goto(AfterKilo[KiloOf(step)])
  /\ UNCHANGED <<task, reworked, items, current, Supervised>>

\* qa_validation FAILED: the session waits for review, its watchdog is
\* COMPLETED, and dev_qa_iteration sends the run back to DEV.
QaFails ==
  /\ step = "verdict" /\ ~ reworked
  /\ reworked' = TRUE
  /\ ToSession(task, "WAITING_REVIEW", sessions[task].attempts)
  /\ watchdogs' = Completes("TaskExecutionSession", task, watchdogs)
  /\ Goto("opening")
  /\ UNCHANGED <<task, items, current, actions, Supervised, mishaps>>

\* Wrong: the session is completed and the item is left RUNNING.
CompleteSessionOnly ==
  /\ step = "verdict" /\ reworked
  /\ ToSession(task, "COMPLETED", sessions[task].attempts)
  /\ watchdogs' = Completes("TaskExecutionSession", task, watchdogs)
  /\ Goto("starting")
  /\ UNCHANGED <<task, reworked, items, current, actions, Supervised, mishaps>>

\* qa_validation PASSED: the item first ...
CompleteItem ==
  /\ step = "verdict" /\ reworked
  /\ items' = [items EXCEPT ![task] = "COMPLETED"]
  /\ watchdogs' = Completes("TaskQueueItem", task, watchdogs)
  /\ Goto("passing")
  /\ UNCHANGED <<task, reworked, sessions, current, actions, Supervised, mishaps>>

\* ... then its session, and the next item is started.
CompleteSession ==
  /\ step = "passing"
  /\ ToSession(task, "COMPLETED", sessions[task].attempts)
  /\ watchdogs' = Completes("TaskExecutionSession", task, watchdogs)
  /\ Goto("starting")
  /\ UNCHANGED <<task, reworked, items, current, actions, Supervised, mishaps>>

EndRun ==
  /\ step = "starting" /\ task = Tasks
  /\ Goto("ended")
  /\ UNCHANGED <<task, reworked, items, sessions, current, watchdogs, actions,
                 Supervised, mishaps>>

\* Any call of a node may raise; nothing tells the supervisor.
RunFails ==
  /\ step \notin Over
  /\ Goto("crashed")
  /\ UNCHANGED <<task, reworked, items, sessions, current, watchdogs, actions,
                 Supervised, mishaps>>

\* The run is silent for longer than DEFAULT_WATCHDOG_TIMEOUT_SECONDS.
Silence ==
  /\ mishaps < MaxMishaps
  /\ \E w \in DOMAIN watchdogs : watchdogs[w].fresh
  /\ watchdogs' = [w \in DOMAIN watchdogs |-> Silent(watchdogs[w])]
  /\ silences' = silences + 1 /\ mishaps' = mishaps + 1
  /\ heard' = {}
  /\ UNCHANGED <<run, actions, calls, call, listed>>

-----------------------------------------------------------------------------
(* POST /supervisor/watchdogs/detect-stuck and .../{run}/cancel. *)
IsStuck(w) == watchdogs[w].status = "ACTIVE" /\ ~ watchdogs[w].fresh

\* detect_stuck: the copies that are stuck.  Without any it writes nothing.
BeginDetection(c) ==
  /\ call[c] = "idle" /\ calls < MaxCalls
  /\ calls' = calls + 1
  /\ \E w \in DOMAIN watchdogs : IsStuck(w)
  /\ call' = [call EXCEPT ![c] = "detecting"]
  /\ listed' = [listed EXCEPT ![c] = {w \in DOMAIN watchdogs : IsStuck(w)}]
  /\ UNCHANGED <<run, watchdogs, actions, silences, mishaps, heard>>

\* cancel_workflow.  The metadata of a run that is not over names no queue and
\* no session; afterwards it names the last session.  The items of a run that
\* ended are all COMPLETED.
BeginCancel(c) ==
  /\ call[c] = "idle" /\ calls < MaxCalls
  /\ calls' = calls + 1
  /\ watchdogs # <<>> /\ \A d \in Requests : call[d] # "cancelling"
  /\ call' = [call EXCEPT ![c] = "cancelling"]
  /\ IF step = "ended"
     THEN ToSession(current, "CANCELLED", sessions[current].attempts)
     ELSE UNCHANGED sessions
  /\ listed' = [listed EXCEPT ![c] = DOMAIN watchdogs]
  /\ heard' = {w \in DOMAIN watchdogs : watchdogs[w].fresh}
  /\ UNCHANGED <<step, task, reworked, items, current, watchdogs, actions, silences,
                 mishaps>>

\* The next writes of a request, newest first: the run never writes the watchdog
\* of an execution again, so these go with the next item or session.
Newest(c) ==
  {w \in listed[c] : \A v \in listed[c] :
                        v > w => watchdogs[v].type = "KiloExecution"}

\* The request returns after its last write.
Written(c) ==
  /\ listed' = [listed EXCEPT ![c] = @ \ Newest(c)]
  /\ call' = [call EXCEPT ![c] = IF listed[c] = Newest(c) THEN "idle" ELSE @]

\* resolve_recovery_action_type.
Recovery(w) ==
  IF watchdogs[w].retried >= MaxRetries THEN "MARK_DEAD_LETTER" ELSE "RETRY"

\* Wrong: the stuck target is reported and stays ACTIVE.
StuckCopyActive(w) == [watchdogs[w] EXCEPT !.fresh = FALSE]

\* mark_watchdog_stuck writes the copy, whatever was written since.
StuckCopy(w) == [watchdogs[w] EXCEPT !.status = "STUCK", !.fresh = FALSE]

\* One round of detect_stuck: STUCK, and the recovery action and, for the
\* exhausted, the dead letter.  The route has no runtime state, so neither the
\* item nor the session is touched, and a RETRY stays PENDING.
MarkStuck(c) ==
  /\ call[c] = "detecting"
  /\ watchdogs' = [w \in DOMAIN watchdogs |->
                     IF w \in Newest(c) THEN StuckCopy(w) ELSE watchdogs[w]]
  /\ actions' = [w \in DOMAIN actions |->
                   IF w \in Newest(c) THEN Append(actions[w], Recovery(w))
                   ELSE actions[w]]
  /\ Written(c)
  /\ UNCHANGED <<run, silences, mishaps, calls, heard>>

\* One round of _complete_watchdogs_for_run: the copy again, with the heartbeat
\* it had when it was listed.
MarkCancelled(c) ==
  /\ call[c] = "cancelling"
  /\ watchdogs' = [w \in DOMAIN watchdogs |->
                     IF w \in Newest(c)
                     THEN EndedCopy(watchdogs[w], "CANCELLED", w \in heard)
                     ELSE watchdogs[w]]
  /\ Written(c)
  /\ heard' = heard \ Newest(c)
  /\ UNCHANGED <<run, actions, silences, mishaps, calls>>

Run ==
  \/ StartItem \/ OpenSession \/ ResumeSession \/ BeginExecution \/ SkipExecution
  \/ \E retried \in 0..1 : RecordExecution(retried)
  \/ QaFails \/ CompleteItem \/ CompleteSession \/ EndRun \/ RunFails

Request(c) ==
  BeginDetection(c) \/ BeginCancel(c) \/ MarkStuck(c) \/ MarkCancelled(c)

Next == Run \/ Silence \/ \E c \in Requests : Request(c)

Spec == Init /\ [][Next]_vars

-----------------------------------------------------------------------------
Watchdog == [type : TargetType, task : Task, retried : 0..1,
             status : WatchdogStatus, fresh : BOOLEAN]

\* Type invariant of the run, its sessions and the supervisor.
TypeOK ==
  /\ step \in Over \cup KiloSteps \cup {Executing[k] : k \in KiloSteps}
              \cup {"starting", "opening", "verdict", "passing"}
  /\ task \in 0..Tasks /\ current \in 0..task /\ reworked \in BOOLEAN
  /\ items \in [Task -> ItemStatus]
  /\ sessions \in [Task -> [status : SessionStatus, attempts : Nat]]
  /\ watchdogs \in Seq(Watchdog)
  /\ actions \in [DOMAIN watchdogs -> Seq({"RETRY", "MARK_DEAD_LETTER"})]
  /\ silences \in 0..mishaps /\ mishaps \in 0..MaxMishaps /\ calls \in 0..MaxCalls
  /\ call \in [Requests -> {"idle", "detecting", "cancelling"}]
  /\ listed \in [Requests -> SUBSET DOMAIN watchdogs]
  /\ heard \subseteq DOMAIN watchdogs

\* While a Kilo execution runs, its item and its session are watched: a watchdog
\* that a failed validation COMPLETED beats again ...
WorkIsWatched ==
  step \in {"dev now", "qa now"} =>
    \A type \in {"TaskQueueItem", "TaskExecutionSession"} :
      \E w \in Watching(type, task) : watchdogs[w].status # "COMPLETED"

\* ... and when the run has ended none of its items and sessions is watched any
\* longer, whatever heartbeats, detections and cancellations overtook each other.
EndedIsNotWatched ==
  step = "ended" => \A w \in DOMAIN watchdogs :
    watchdogs[w].type # "KiloExecution" => watchdogs[w].status # "ACTIVE"

\* The items and sessions of a run are watched while, and only while, they are
\* worked on (heartbeat, complete_queue_item_watchdog, finalize_session_health).
WatchedWhileWorked == WorkIsWatched /\ EndedIsNotWatched

\* However the requests overlap, a silence is recovered from at most once by
\* each of them.
RecoveredOncePerSilence ==
  \A w \in DOMAIN watchdogs :
    Len(actions[w]) <= silences * Cardinality(Requests)

\* A task whose session is COMPLETED, even if cancelled afterwards, has a
\* COMPLETED item; and every item of an ended run has such a session.
SessionsFollowItems ==
  \A t \in Task :
    /\ sessions[t].status \in {"COMPLETED", "CANCELLED"} => items[t] = "COMPLETED"
    /\ step = "ended" => sessions[t].status \in {"COMPLETED", "CANCELLED"}

Executions(t) ==
  {w \in Watching("KiloExecution", t) :
     \E v \in Watching("TaskExecutionSession", t) : v < w}

Attempts(t) == {a \in Executions(t) \X (0..1) : a[2] <= watchdogs[a[1]].retried}

\* The attempts of a session are those of all the executions recorded for its
\* task since it was opened.
AttemptsAddUp ==
  \A t \in Task : sessions[t].attempts = Cardinality(Attempts(t))

\* The sessions and the items of a run agree, and no attempt is lost
\* (update_task_execution_session, record_kilo_execution_for_session).
SessionsTellTheWork == SessionsFollowItems /\ AttemptsAddUp
=============================================================================
