--------------------------- MODULE WorkflowRouter ---------------------------
(***************************************************************************)
(* RouterService.routeEvent: the routing of an event through a workflow.   *)
(*                                                                         *)
(* Every call of routeEvent is an asynchronous function that runs until    *)
(* its next await, a Redis command.  Between two awaits it touches only    *)
(* its own copy of the workflow, so one action is one command together     *)
(* with the code that runs when its answer arrives.  Calls interleave with *)
(* each other (in one server process or in several), with the workers that *)
(* pop the queues and with whoever rewrites the workflow definitions.      *)
(*                                                                         *)
(* A call is also the name of the uuids it generates: it stands for its    *)
(* workflow_instance_id, and <<c, n>> for the step_instance_id it makes up *)
(* for the n-th step of the template.                                      *)
(***************************************************************************)
EXTENDS Naturals, Sequences

CONSTANTS
    Calls,          \* calls of routeEvent
    Keys,           \* the k of the Redis keys workflow:k (event names, step keys)
    StepIds,        \* step_instance_ids written in workflow templates
    Instances,      \* instance_ids of workers
    Catalog,        \* Catalog[k]: the values that workflow:k takes over time
    MaxSteps,       \* bound on the number of steps of a template
    MaxLostReplies, \* bound on the writes whose reply is lost
    None            \* no key, no value, no id

Positions == 1..MaxSteps
FreshIds == Calls \X Positions
Ids == StepIds \cup FreshIds

\* A step of a template: its step_instance_id, if it has one, and the key its
\* definition is looked up by (None: the step has no definition object).
Step == [id : StepIds \cup {None}, key : Keys \cup {None}]
\* An entry of a definition's workers object, in the order of its keys.
Worker == [instance : Instances, threads : Nat]
\* The JSON value of workflow:k.  Templates and step definitions live in one
\* key space: a template has definition.steps, a definition has workers.
Workflow == [steps : Seq(Step) \cup {None}, workers : Seq(Worker)]

ASSUME RouterAssumption ==
    /\ MaxSteps \in Nat
    /\ MaxLostReplies \in Nat
    /\ None \notin StepIds \cup Keys \cup Instances
    /\ None \notin FreshIds \cup [steps : Seq(Ids), current : StepIds \cup {None}]
    /\ \A s \in StepIds : s \notin FreshIds
    /\ \A k \in Keys : \A w \in Catalog[k] :
          w # None => /\ w \in Workflow
                      /\ w.steps # None => Len(w.steps) <= MaxSteps

VARIABLES
    \* Redis
    workflows,  \* workflow:k
    stepHash,   \* step_instance:... -> the worker_instance_id in its data
    queues,     \* worker_instance:i:queue; element 1 is the right end, popped next
    instances,  \* workflow_instance:...
    \* the calls
    pc,         \* the command the call awaits, or how it ended
    event,      \* eventName
    steps,      \* workflowTemplate.definition.steps, the call's own copy
    pos,        \* index of the step the loop is at
    current,    \* workflowTemplate.metadata.current_step
    chosen,     \* chosenWorker.instance_id
    \* history and bounds
    lost,       \* writes executed whose reply was lost
    sent,       \* how often each step of each call was pushed
    skipped     \* the steps each call left without a worker

store == <<workflows, stepHash, queues, instances>>
locals == <<event, steps, pos, current, chosen>>
history == <<lost, sent, skipped>>
vars == <<store, pc, locals, history>>

Awaiting == {"logRequest", "getTemplate", "logMissing", "getStepDef",
             "saveStep", "pushStep", "saveInstance", "logResponse"}
Ended == {"started", "rejected", "crashed"}

\* What workflow:k may hold.
Definitions == {f \in [Keys -> UNION {Catalog[k] : k \in Keys}] :
                    \A k \in Keys : f[k] \in Catalog[k]}

Init ==
    /\ workflows \in Definitions
    /\ stepHash = [s \in Ids |-> None]
    /\ queues = [i \in Instances |-> <<>>]
    /\ instances = [c \in Calls |-> None]
    /\ pc = [c \in Calls |-> "idle"]
    /\ event = [c \in Calls |-> None]
    /\ steps = [c \in Calls |-> <<>>]
    /\ pos = [c \in Calls |-> 1]
    /\ current = [c \in Calls |-> None]
    /\ chosen = [c \in Calls |-> None]
    /\ lost = 0
    /\ sent = [c \in Calls |-> [n \in Positions |-> 0]]
    /\ skipped = [c \in Calls |-> {}]
-----------------------------------------------------------------------------
(***************************************************************************)
(* Choosing a worker, and what the writes of the loop do to Redis.         *)
(***************************************************************************)

\* eligibleWorkers.reduce(prev.threads <= curr.threads ? prev : curr): the
\* first of the workers with the fewest threads.
LeastLoaded(ws) ==
    {n \in DOMAIN ws :
        /\ \A m \in DOMAIN ws : ws[n].threads <= ws[m].threads
        /\ \A m \in 1..(n - 1) : ws[n].threads < ws[m].threads}

\* A definition the loop can assign a step with.
Assignable(w) == w # None /\ w.workers # <<>>

StepOf(c) == steps[c][pos[c]]

\* Mutant: the worker is picked again when the hash is written.
WriteStepRepicked(c) ==
    LET w == workflows[StepOf(c).key]
        i == IF Assignable(w)
             THEN w.workers[CHOOSE n \in LeastLoaded(w.workers) : TRUE].instance
             ELSE chosen[c]
    IN  stepHash' = [stepHash EXCEPT ![StepOf(c).id] = i]

\* Mutant: the hset of the step is missing.
WriteStepDropped(c) == UNCHANGED stepHash

\* hset(step_instance_id, ...)
WriteStep(c) == stepHash' = [stepHash EXCEPT ![StepOf(c).id] = chosen[c]]

QueueItem(c) == [wf |-> c, step |-> StepOf(c).id]

\* Mutant: the queue is picked again from the current definition.
WriteQueueReread(c) ==
    LET w == workflows[StepOf(c).key]
        i == IF Assignable(w)
             THEN w.workers[CHOOSE n \in LeastLoaded(w.workers) : TRUE].instance
             ELSE chosen[c]
    IN  queues' = [queues EXCEPT ![i] = Append(@, QueueItem(c))]

\* Mutant: rpush instead of lpush.
WriteQueueRight(c) ==
    queues' = [queues EXCEPT ![chosen[c]] = <<QueueItem(c)>> \o @]

\* lpush(worker_instance:<chosen>:queue, ...)
WriteQueue(c) == queues' = [queues EXCEPT ![chosen[c]] = Append(@, QueueItem(c))]

\* Mutant: the saved definition lacks the last step.
WriteInstanceShort(c) ==
    instances' = [instances EXCEPT ![c] =
        [steps |-> [n \in 1..(pos[c] - 2) |-> steps[c][n].id],
         current |-> current[c]]]

\* Mutant: current_step is taken for the event's name.
WriteInstanceMistyped(c) ==
    instances' = [instances EXCEPT ![c] =
        [steps |-> [n \in DOMAIN steps[c] |-> steps[c][n].id],
         current |-> event[c]]]

\* Mutant: current_step is read after the steps have been named.
WriteInstanceNamed(c) ==
    instances' = [instances EXCEPT ![c] =
        [steps |-> [n \in DOMAIN steps[c] |-> steps[c][n].id],
         current |-> IF steps[c] = <<>> THEN None ELSE steps[c][1].id]]

\* hset(workflow_instance_id, ...)
WriteInstance(c) ==
    instances' = [instances EXCEPT ![c] =
        [steps |-> [n \in DOMAIN steps[c] |-> steps[c][n].id],
         current |-> current[c]]]

CountPush(c) == sent' = [sent EXCEPT ![c][pos[c]] = @ + 1]
-----------------------------------------------------------------------------
(***************************************************************************)
(* The steps of a call.                                                    *)
(***************************************************************************)

Goto(c, to) == pc' = [pc EXCEPT ![c] = to]

\* Mutant: the loop stops before its last step.
LoopHeadEarly(c, n, len) == Goto(c, IF n >= len THEN "saveInstance" ELSE "getStepDef")

\* for (const step of workflowTemplate.definition.steps)
LoopHead(c, n, len) == Goto(c, IF n > len THEN "saveInstance" ELSE "getStepDef")

\* A caller (gateway, REST or Kafka handler) calls routeEvent(e).
Receive(c, e) ==
    /\ pc[c] = "idle"
    /\ event' = [event EXCEPT ![c] = e]
    /\ Goto(c, "logRequest")
    /\ UNCHANGED <<store, steps, pos, current, chosen, history>>

LogRequest(c) ==
    /\ pc[c] = "logRequest"
    /\ Goto(c, "getTemplate")
    /\ UNCHANGED <<store, locals, history>>

\* No value under workflow:<event>.
GetTemplateMissing(c) ==
    /\ pc[c] = "getTemplate"
    /\ workflows[event[c]] = None
    /\ Goto(c, "logMissing")
    /\ UNCHANGED <<store, locals, history>>

\* A value without definition.steps: reading steps[0] throws.
GetTemplateMalformed(c) ==
    /\ pc[c] = "getTemplate"
    /\ workflows[event[c]] # None
    /\ workflows[event[c]].steps = None
    /\ Goto(c, "rejected")
    /\ UNCHANGED <<store, locals, history>>

\* current_step is read before the loop gives the steps their ids.
GetTemplate(c) ==
    /\ pc[c] = "getTemplate"
    /\ workflows[event[c]] # None
    /\ workflows[event[c]].steps # None
    /\ LET template == workflows[event[c]].steps IN
         /\ steps' = [steps EXCEPT ![c] = template]
         /\ current' = [current EXCEPT ![c] =
                            IF template = <<>> THEN None ELSE template[1].id]
         /\ LoopHead(c, 1, Len(template))
    /\ UNCHANGED <<store, event, pos, chosen, history>>

\* Mutant: the template is asked for again until somebody stores it.
LogMissingRetried(c) ==
    /\ pc[c] = "logMissing"
    /\ Goto(c, "getTemplate")
    /\ UNCHANGED <<store, locals, history>>

LogMissing(c) ==
    /\ pc[c] = "logMissing"
    /\ Goto(c, "rejected")
    /\ UNCHANGED <<store, locals, history>>

\* step.definition is undefined: reading its workflow_key throws.
StepWithoutDefinition(c) ==
    /\ pc[c] = "getStepDef"
    /\ StepOf(c).key = None
    /\ Goto(c, "rejected")
    /\ UNCHANGED <<store, locals, history>>

\* step.step_instance_id = step.step_instance_id || uuid
NewId(c) == IF StepOf(c).id = None THEN <<c, pos[c]>> ELSE StepOf(c).id
NameStep(c) ==
    steps' = [steps EXCEPT ![c][pos[c]] = [id |-> NewId(c), key |-> StepOf(c).key]]

\* No definition or no workers for the step: a warning and continue.
SkipStep(c) ==
    /\ pc[c] = "getStepDef"
    /\ StepOf(c).key # None
    /\ ~Assignable(workflows[StepOf(c).key])
    /\ NameStep(c)
    /\ skipped' = [skipped EXCEPT ![c] = @ \cup {pos[c]}]
    /\ pos' = [pos EXCEPT ![c] = @ + 1]
    /\ LoopHead(c, pos[c] + 1, Len(steps[c]))
    /\ UNCHANGED <<store, event, current, chosen, lost, sent>>

AssignStep(c) ==
    /\ pc[c] = "getStepDef"
    /\ StepOf(c).key # None
    /\ Assignable(workflows[StepOf(c).key])
    /\ NameStep(c)
    /\ LET ws == workflows[StepOf(c).key].workers IN
         \E n \in LeastLoaded(ws) :
            chosen' = [chosen EXCEPT ![c] = ws[n].instance]
    /\ Goto(c, "saveStep")
    /\ UNCHANGED <<store, event, pos, current, history>>

SaveStep(c) ==
    /\ pc[c] = "saveStep"
    /\ WriteStep(c)
    /\ Goto(c, "pushStep")
    /\ UNCHANGED <<workflows, queues, instances, locals, history>>

\* Mutant: a push that was answered is issued a second time.
PushStepTwice(c) ==
    /\ pc[c] = "pushStep"
    /\ WriteQueue(c)
    /\ CountPush(c)
    /\ \/ /\ sent[c][pos[c]] = 0
          /\ UNCHANGED <<pc, pos>>
       \/ /\ pos' = [pos EXCEPT ![c] = @ + 1]
          /\ LoopHead(c, pos[c] + 1, Len(steps[c]))
    /\ UNCHANGED <<workflows, stepHash, instances, event, steps, current, chosen,
                   lost, skipped>>

PushStep(c) ==
    /\ pc[c] = "pushStep"
    /\ WriteQueue(c)
    /\ CountPush(c)
    /\ pos' = [pos EXCEPT ![c] = @ + 1]
    /\ LoopHead(c, pos[c] + 1, Len(steps[c]))
    /\ UNCHANGED <<workflows, stepHash, instances, event, steps, current, chosen,
                   lost, skipped>>

SaveInstance(c) ==
    /\ pc[c] = "saveInstance"
    /\ WriteInstance(c)
    /\ Goto(c, "logResponse")
    /\ UNCHANGED <<workflows, stepHash, queues, locals, history>>

\* The answer { status: 'workflow_started', ... } follows the last log entry.
LogResponse(c) ==
    /\ pc[c] = "logResponse"
    /\ Goto(c, "started")
    /\ UNCHANGED <<store, locals, history>>
-----------------------------------------------------------------------------
(***************************************************************************)
(* Failures, and the other users of Redis.                                 *)
(***************************************************************************)

\* The awaited command rejects; routeEvent has no try block of its own.
RedisFail(c) ==
    /\ pc[c] \in Awaiting
    /\ Goto(c, "rejected")
    /\ UNCHANGED <<store, locals, history>>

\* The write is executed but the connection drops before its reply arrives:
\* the client sends the command again, or gives up (RedisFail).
LostReply(c) ==
    /\ lost < MaxLostReplies
    /\ lost' = lost + 1
    /\ \/ /\ pc[c] = "saveStep"
          /\ WriteStep(c)
          /\ UNCHANGED <<queues, instances, sent>>
       \/ /\ pc[c] = "pushStep"
          /\ WriteQueue(c)
          /\ CountPush(c)
          /\ UNCHANGED <<stepHash, instances>>
       \/ /\ pc[c] = "saveInstance"
          /\ WriteInstance(c)
          /\ UNCHANGED <<stepHash, queues, sent>>
    /\ UNCHANGED <<workflows, pc, locals, skipped>>

\* A server process dies with the calls it is running.
Crash ==
    /\ \E F \in SUBSET {c \in Calls : pc[c] \in Awaiting} :
          /\ F # {}
          /\ pc' = [c \in Calls |-> IF c \in F THEN "crashed" ELSE pc[c]]
    /\ UNCHANGED <<store, locals, history>>

\* Definitions and thread counts are rewritten by others.
Configure(k) ==
    /\ \E w \in Catalog[k] : workflows' = [workflows EXCEPT ![k] = w]
    /\ UNCHANGED <<stepHash, queues, instances, pc, locals, history>>

\* A worker instance pops its next item.
WorkerPop(i) ==
    /\ queues[i] # <<>>
    /\ queues' = [queues EXCEPT ![i] = Tail(@)]
    /\ UNCHANGED <<workflows, stepHash, instances, pc, locals, history>>

CallStep(c) ==
    \/ LogRequest(c) \/ GetTemplateMissing(c) \/ GetTemplateMalformed(c)
    \/ GetTemplate(c) \/ LogMissing(c) \/ StepWithoutDefinition(c)
    \/ SkipStep(c) \/ AssignStep(c) \/ SaveStep(c) \/ PushStep(c)
    \/ SaveInstance(c) \/ LogResponse(c)

Next ==
    \/ \E c \in Calls : \/ \E e \in Keys : Receive(c, e)
                        \/ CallStep(c)
                        \/ RedisFail(c)
                        \/ LostReply(c)
    \/ Crash
    \/ \E k \in Keys : Configure(k)
    \/ \E i \in Instances : WorkerPop(i)

Spec == Init /\ [][Next]_vars

\* Redis answers or rejects every command and the event loop runs the
\* continuation: no call waits forever at an await.
FairSpec == Spec /\ \A c \in Calls : WF_vars(CallStep(c) \/ RedisFail(c))
-----------------------------------------------------------------------------
(***************************************************************************)
(* Properties.                                                             *)
(***************************************************************************)

Item == [wf : Calls, step : Ids]
\* An entry of steps: a template step whose id may have been generated.
NamedStep == [id : Ids \cup {None}, key : Keys \cup {None}]
StoredInstance == [steps : Seq(Ids), current : StepIds \cup {None}]

\* Every variable has its type; a saved instance has an id for every step.
TypeOK ==
    /\ workflows \in Definitions
    /\ stepHash \in [Ids -> Instances \cup {None}]
    /\ queues \in [Instances -> Seq(Item)]
    /\ instances \in [Calls -> StoredInstance \cup {None}]
    /\ pc \in [Calls -> Awaiting \cup Ended \cup {"idle"}]
    /\ event \in [Calls -> Keys \cup {None}]
    /\ steps \in [Calls -> Seq(NamedStep)]
    /\ pos \in [Calls -> 1..(MaxSteps + 1)]
    /\ current \in [Calls -> StepIds \cup {None}]
    /\ chosen \in [Calls -> Instances \cup {None}]
    /\ lost \in 0..MaxLostReplies
    /\ sent \in [Calls -> [Positions -> Nat]]
    /\ skipped \in [Calls -> SUBSET Positions]

Queued(i) == {queues[i][n] : n \in DOMAIN queues[i]}

\* A worker that pops an item finds the step's hash in Redis, however calls,
\* crashes, lost replies and failing commands interleave: hset precedes lpush.
QueuedStepsAreSaved ==
    \A i \in Instances : \A q \in Queued(i) : stepHash[q.step] # None

\* A step whose id routeEvent generated is queued at the very worker its hash
\* names ("for traceability"), even if the definition changes in between, and
\* belongs to the workflow instance of the call that generated the id.
FreshStepsAreTraceable ==
    \A i \in Instances : \A q \in Queued(i) :
        q.step \in FreshIds => stepHash[q.step] = i /\ q.step[1] = q.wf

\* The steps of one workflow instance leave a worker's queue in template order.
QueueFollowsTemplate ==
    \A i \in Instances : \A m, n \in DOMAIN queues[i] :
        LET c == queues[i][m].wf IN
        m < n /\ queues[i][n].wf = c =>
            \E p, q \in DOMAIN steps[c] :
                /\ p <= q
                /\ steps[c][p].id = queues[i][m].step
                /\ steps[c][q].id = queues[i][n].step

\* A stored workflow instance names every step that is queued for it, and each
\* step it names was pushed to a worker or skipped for want of one; current_step,
\* read before the steps were named, is the id the template has for the first of
\* them, and empty if routeEvent had to generate one or there is no step.
StoredInstanceIsComplete ==
    \A c \in Calls : instances[c] # None =>
        LET saved == instances[c].steps IN
        /\ \A i \in Instances : \A q \in Queued(i) :
              q.wf = c => \E n \in DOMAIN saved : saved[n] = q.step
        /\ \A n \in DOMAIN saved : sent[c][n] > 0 \/ n \in skipped[c]
        /\ Len(saved) = Len(steps[c])
        /\ instances[c].current =
              IF saved = <<>> \/ saved[1] \in FreshIds THEN None ELSE saved[1]

\* A worker is given a step twice only if a reply was lost: the call itself
\* pushes every step once.
PushesAreBounded ==
    \A c \in Calls : \A n \in Positions : sent[c][n] <= 1 + lost

\* What a worker reads under an id that routeEvent generated never changes while
\* it works on it: the hash of the step and the workflow instance are final once
\* written, though definitions change and lost replies make a call write again.
GeneratedKeysAreFinal ==
    [][/\ \A s \in FreshIds : stepHash[s] # None => stepHash'[s] = stepHash[s]
       /\ \A c \in Calls : instances[c] # None => instances'[c] = instances[c]]_vars

\* What the dispatch of a workflow shows of the calls.
Phase ==
    [c \in Calls |->
        CASE pc[c] \in {"idle", "logRequest", "getTemplate", "logMissing"} -> "new"
          [] pc[c] \in {"rejected", "crashed"} -> "failed"
          [] pc[c] = "started" -> "started"
          [] OTHER -> "routing"]
PlannedSteps == [c \in Calls |-> Len(steps[c])]
HandledSteps == [c \in Calls |-> pos[c] - 1]
SentSteps == [c \in Calls |-> {n \in Positions : sent[c][n] > 0}]
IsStored == [c \in Calls |-> instances[c] # None]

\* routeEvent implements the dispatch of a workflow.
Dispatch == INSTANCE WorkflowDispatch WITH
    phase <- Phase, plan <- PlannedSteps, handled <- HandledSteps, sent <- SentSteps,
    stored <- IsStored
ImplementsDispatch == Dispatch!Spec

\* Every call that was received ends, whatever happens to its commands and to
\* the definitions it reads.
EveryCallEnds == \A c \in Calls : pc[c] \in Awaiting ~> pc[c] \in Ended
-----------------------------------------------------------------------------
(***************************************************************************)
(* What the repository says of routeEvent and the code does not keep.      *)
(***************************************************************************)

\* README.md:15, "Fault-tolerant design: Redis-based persistence and message
\* queue": the queue holds no step of a workflow that will never be stored.
NoOrphanedSteps ==
    \A i \in Instances : \A q \in Queued(i) :
        pc[q.wf] \in Ended => instances[q.wf] # None

\* router.service.ts:424, "Save the chosen worker in the step data for
\* traceability": a queued step's hash names the worker it is queued at.
QueuedStepsAreTraceable ==
    \A i \in Instances : \A q \in Queued(i) : stepHash[q.step] = i

=============================================================================
