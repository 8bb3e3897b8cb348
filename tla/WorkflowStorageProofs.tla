------------------------ MODULE WorkflowStorageProofs ------------------------
(***************************************************************************)
(* More theorems of WorkflowRouter: how often a step is pushed, in which   *)
(* order a worker finds the steps of a workflow, what a stored workflow    *)
(* instance says, and that routeEvent implements WorkflowDispatch.         *)
(***************************************************************************)
EXTENDS WorkflowRouterProofs

(***************************************************************************)
(* The strengthening of IInv.  What a call has pushed, skipped and stored  *)
(* depends on how far it is; current_step is the id the first step had     *)
(* before it was named.                                                    *)
(***************************************************************************)
CurrentInv(c) ==
    /\ steps[c] = <<>> => current[c] = None
    /\ steps[c] # <<>> =>
          \/ current[c] = steps[c][1].id
          \/ current[c] = None /\ steps[c][1].id \in FreshIds

CopyInv(c) ==
    /\ pc[c] \in Early => steps[c] = <<>>
    /\ CurrentInv(c)
    /\ \A n \in DOMAIN steps[c] : n < pos[c] => sent[c][n] > 0 \/ n \in skipped[c]
    /\ \A n \in Positions : sent[c][n] <= lost + (IF n < pos[c] THEN 1 ELSE 0)

StoredInv(c) ==
    /\ instances[c] # None =>
          /\ pc[c] \notin Early \cup InLoop
          /\ pos[c] = Len(steps[c]) + 1
          /\ instances[c] = [steps |-> [n \in DOMAIN steps[c] |-> steps[c][n].id],
                             current |-> current[c]]
    /\ pc[c] \in {"logResponse", "started"} => instances[c] # None

\* An item of a queue is a step that its call has come to.
Placed(q) ==
    \E p \in DOMAIN steps[q.wf] : p <= pos[q.wf] /\ steps[q.wf][p].id = q.step

\* Of two items of one call, b is no earlier step than a.
Follows(a, b) ==
    b.wf = a.wf =>
        \E p, q \in DOMAIN steps[a.wf] :
            p <= q /\ steps[a.wf][p].id = a.step /\ steps[a.wf][q].id = b.step

StorageInv ==
    /\ IInv
    /\ \A c \in Calls : CopyInv(c) /\ StoredInv(c)
    /\ \A i \in Instances : \A m \in DOMAIN queues[i] : Placed(queues[i][m])
    /\ QueueFollowsTemplate

-----------------------------------------------------------------------------
(***************************************************************************)
(* The forms of a step.                                                    *)
(***************************************************************************)

\* A call does not go back, and does not come to the end of the loop.
Onward(c) ==
    /\ pc'[c] \in Early => pc[c] \in Early
    /\ pc'[c] \in Early \cup InLoop => pc[c] \in Early \cup InLoop
    /\ pc'[c] \in {"logResponse", "started"} => pc[c] \in {"logResponse", "started"}

Failed == {"rejected", "crashed"}
Unplanned == {"idle", "logRequest", "getTemplate", "logMissing"}

\* A call moves on, or fails, between two commands.
Moves(c) ==
    \/ pc'[c] = pc[c]
    \/ pc[c] \in Awaiting /\ pc'[c] \in Failed
    \/ pc[c] \in Unplanned /\ pc'[c] \in Unplanned
    \/ pc[c] = "saveStep" /\ pc'[c] = "pushStep"

LostMore == lost' = lost \/ lost' = lost + 1

Quiet ==
    /\ UNCHANGED <<instances, steps, pos, current, sent, skipped>>
    /\ LostMore
    /\ \A c \in Calls : Onward(c)
    /\ \/ \A c \in Calls : Moves(c)
       \/ \E c \in Calls : pc[c] = "logResponse" /\ pc' = [pc EXCEPT ![c] = "started"]
    /\ \/ UNCHANGED queues
       \/ \E i \in Instances : queues[i] # <<>> /\ queues' = [queues EXCEPT ![i] = Tail(@)]

Pushes(c) ==
    /\ pc[c] = "pushStep" /\ WriteQueue(c) /\ CountPush(c)
    /\ UNCHANGED <<instances, steps, current, skipped>>
    /\ \/ /\ UNCHANGED lost
          /\ pos' = [pos EXCEPT ![c] = pos[c] + 1]
          /\ pc' = [pc EXCEPT ![c] = IF pos[c] + 1 > Len(steps[c])
                                     THEN "saveInstance" ELSE "getStepDef"]
       \/ lost' = lost + 1 /\ UNCHANGED <<pos, pc>>

Saves(c) ==
    /\ pc[c] = "saveInstance" /\ WriteInstance(c)
    /\ UNCHANGED <<queues, steps, pos, current, sent, skipped>>
    /\ LostMore
    /\ pc' = pc \/ pc' = [pc EXCEPT ![c] = "logResponse"]

Names(c) ==
    /\ pc[c] = "getStepDef" /\ NameStep(c)
    /\ UNCHANGED <<queues, instances, current, lost, sent>>
    /\ \/ /\ skipped' = [skipped EXCEPT ![c] = skipped[c] \cup {pos[c]}]
          /\ pos' = [pos EXCEPT ![c] = pos[c] + 1]
          /\ pc' = [pc EXCEPT ![c] = IF pos[c] + 1 > Len(steps[c])
                                     THEN "saveInstance" ELSE "getStepDef"]
       \/ /\ UNCHANGED <<skipped, pos>>
          /\ pc' = [pc EXCEPT ![c] = "saveStep"]

Loads(c) ==
    LET template == workflows[event[c]].steps IN
    /\ pc[c] = "getTemplate" /\ template # None /\ workflows[event[c]] # None
    /\ steps' = [steps EXCEPT ![c] = template]
    /\ current' = [current EXCEPT ![c] = IF template = <<>> THEN None ELSE template[1].id]
    /\ pc' = [pc EXCEPT ![c] = IF 1 > Len(template) THEN "saveInstance" ELSE "getStepDef"]
    /\ UNCHANGED <<queues, instances, pos, lost, sent, skipped>>

StepCases ==
    \/ Quiet
    \/ \E c \in Calls : Pushes(c) \/ Saves(c) \/ Names(c) \/ Loads(c)

LEMMA NextCases ==
    ASSUME TypeOK, [Next]_vars PROVE StepCases
<1> USE DEF store, locals, history, LostMore, Onward, Moves, Failed, Unplanned, Early, InLoop
<1>0. pc \in [Calls -> Awaiting \cup Ended \cup {"idle"}]
  BY DEF TypeOK
<1>1. CASE UNCHANGED vars
  BY <1>1 DEF vars, Quiet, StepCases
<1>2. ASSUME NEW c \in Calls, NEW e \in Keys, Receive(c, e) PROVE Quiet
  BY <1>0, <1>2 DEF Receive, Goto, Quiet
<1>3. ASSUME NEW c \in Calls,
             \/ LogRequest(c) \/ GetTemplateMissing(c) \/ GetTemplateMalformed(c)
             \/ LogMissing(c) \/ StepWithoutDefinition(c) \/ LogResponse(c) \/ RedisFail(c)
      PROVE  Quiet
  <2>1. UNCHANGED <<store, locals, history>>
    BY <1>3 DEF LogRequest, GetTemplateMissing, GetTemplateMalformed, LogMissing,
                StepWithoutDefinition, LogResponse, RedisFail
  <2>2. \A d \in Calls : Onward(d)
    BY <1>0, <1>3 DEF LogRequest, GetTemplateMissing, GetTemplateMalformed, LogMissing,
                StepWithoutDefinition, LogResponse, RedisFail, Goto, Awaiting
  <2>3. \/ \A d \in Calls : Moves(d)
        \/ pc[c] = "logResponse" /\ pc' = [pc EXCEPT ![c] = "started"]
    BY <1>0, <1>3 DEF LogRequest, GetTemplateMissing, GetTemplateMalformed, LogMissing,
                StepWithoutDefinition, LogResponse, RedisFail, Goto, Awaiting
  <2>4. QED
    BY <2>1, <2>2, <2>3 DEF Quiet
<1>4. ASSUME NEW c \in Calls, GetTemplate(c) PROVE Loads(c)
  BY <1>4 DEF GetTemplate, LoopHead, Goto, Loads
<1>5. ASSUME NEW c \in Calls, SkipStep(c) \/ AssignStep(c) PROVE Names(c)
  BY <1>5 DEF SkipStep, AssignStep, LoopHead, Goto, Names
<1>6. ASSUME NEW c \in Calls, SaveStep(c) PROVE Quiet
  BY <1>0, <1>6 DEF SaveStep, Goto, Quiet
<1>7. ASSUME NEW c \in Calls, PushStep(c) PROVE Pushes(c)
  BY <1>7 DEF PushStep, LoopHead, Goto, Pushes
<1>8. ASSUME NEW c \in Calls, SaveInstance(c) PROVE Saves(c)
  BY <1>8 DEF SaveInstance, Goto, Saves
<1>9. ASSUME NEW c \in Calls, LostReply(c) PROVE Quiet \/ Pushes(c) \/ Saves(c)
  BY <1>9 DEF LostReply, Quiet, Pushes, Saves
<1>10. CASE Crash
  BY <1>0, <1>10 DEF Crash, Quiet, StepCases
<1>11. ASSUME NEW k \in Keys, Configure(k) PROVE Quiet
  BY <1>11 DEF Configure, Quiet
<1>12. ASSUME NEW i \in Instances, WorkerPop(i) PROVE Quiet
  BY <1>12 DEF WorkerPop, Quiet
<1>13. QED
  BY <1>1, <1>2, <1>3, <1>4, <1>5, <1>6, <1>7, <1>8, <1>9, <1>10, <1>11, <1>12
     DEF Next, CallStep, StepCases

-----------------------------------------------------------------------------
(***************************************************************************)
(* What a call has pushed and stored.                                      *)
(***************************************************************************)
LEMMA CopyTypes ==
    ASSUME IInv, NEW c \in Calls
    PROVE  /\ pos[c] \in Nat /\ lost \in Nat /\ MaxSteps \in Nat /\ pos[c] >= 1
           /\ steps[c] \in Seq(NamedStep) /\ Len(steps[c]) \in Nat
           /\ DOMAIN steps[c] = 1..Len(steps[c]) /\ Len(steps[c]) <= MaxSteps
           /\ sent[c] \in [Positions -> Nat] /\ skipped[c] \subseteq Positions
           /\ \A n \in Positions : n \in Nat /\ sent[c][n] \in Nat
           /\ current[c] \in StepIds \cup {None}
           /\ pc[c] \in InLoop => pos[c] \in DOMAIN steps[c] /\ pos[c] \in Positions
<1>1. sent[c] \in [Positions -> Nat]
  BY DEF IInv, TypeOK
<1>2. \A n \in Positions : n \in Nat
  BY RouterAssumption DEF Positions
<1>3. \A n \in Positions : sent[c][n] \in Nat
  BY <1>1
<1>4. QED
  BY <1>1, <1>2, <1>3, RouterAssumption DEF IInv, TypeOK, CallInv, Positions

\* Naming a step keeps the ids that are there.
LEMMA NamesKept ==
    ASSUME IInv, NEW c \in Calls, pc[c] = "getStepDef", NameStep(c)
    PROVE  /\ \A d \in Calls : d # c => steps'[d] = steps[d]
           /\ Len(steps'[c]) = Len(steps[c]) /\ DOMAIN steps'[c] = DOMAIN steps[c]
           /\ steps[c] # <<>> => steps'[c] # <<>>
           /\ \A n \in DOMAIN steps[c] :
                 \/ steps'[c][n].id = steps[c][n].id
                 \/ steps[c][n].id = None /\ steps'[c][n].id \in FreshIds
<1>1. /\ steps[c] \in Seq(NamedStep) /\ pos[c] \in DOMAIN steps[c]
      /\ steps \in [Calls -> Seq(NamedStep)]
  BY CopyTypes DEF IInv, TypeOK, InLoop
<1>2. steps'[c] = [steps[c] EXCEPT ![pos[c]] = [id |-> NewId(c), key |-> StepOf(c).key]]
  BY <1>1 DEF NameStep
<1>3. \A n \in DOMAIN steps[c] : n # pos[c] => steps'[c][n] = steps[c][n]
  BY <1>2
<1>4. /\ steps[c][pos[c]].id # None => steps'[c][pos[c]].id = steps[c][pos[c]].id
      /\ steps[c][pos[c]].id = None => steps'[c][pos[c]].id = <<c, pos[c]>>
  BY <1>1, <1>2 DEF NewId, StepOf
<1>a. <<c, pos[c]>> \in FreshIds
  BY CopyTypes DEF InLoop, FreshIds
<1>5. \A n \in DOMAIN steps[c] :
          \/ steps'[c][n].id = steps[c][n].id
          \/ steps[c][n].id = None /\ steps'[c][n].id \in FreshIds
  BY <1>3, <1>4, <1>a
<1>6. steps[c] # <<>> => steps'[c] # <<>>
  BY <1>1, NameStepFacts
<1>7. QED
  BY <1>5, <1>6, NameStepFacts

\* A call that the step does not concern: it has not moved, and the count of
\* lost replies has not fallen.
LEMMA BystanderKept ==
    ASSUME IInv, NEW d \in Calls, CopyInv(d), StoredInv(d), LostMore, Onward(d),
           pos'[d] = pos[d], steps'[d] = steps[d], current'[d] = current[d],
           sent'[d] = sent[d], skipped'[d] = skipped[d], instances'[d] = instances[d]
    PROVE  CopyInv(d)' /\ StoredInv(d)'
<1>1. pos[d] \in Nat /\ lost \in Nat /\ \A n \in Positions : n \in Nat /\ sent[d][n] \in Nat
  BY CopyTypes
<1>2. \A n \in Positions : sent'[d][n] <= lost' + (IF n < pos'[d] THEN 1 ELSE 0)
  BY <1>1 DEF CopyInv, LostMore
<1>3. CopyInv(d)'
  BY <1>2 DEF CopyInv, CurrentInv, Onward
<1>4. StoredInv(d)'
  BY DEF StoredInv, Onward
<1>5. QED
  BY <1>3, <1>4

LEMMA PushesKept ==
    ASSUME IInv, NEW c \in Calls, CopyInv(c), StoredInv(c), Pushes(c)
    PROVE  CopyInv(c)' /\ StoredInv(c)'
<1>1. /\ pos[c] \in Positions /\ pos[c] \in Nat /\ lost \in Nat
      /\ sent[c] \in [Positions -> Nat] /\ pos[c] <= Len(steps[c])
      /\ DOMAIN steps[c] \subseteq Positions
      /\ instances[c] = None /\ instances'[c] = None
  BY CopyTypes, RouterAssumption DEF Pushes, InLoop, StoredInv, Positions
<1>2. /\ sent'[c][pos[c]] = sent[c][pos[c]] + 1
      /\ \A n \in Positions : n # pos[c] => sent'[c][n] = sent[c][n]
  BY <1>1 DEF Pushes, CountPush, IInv, TypeOK
<1>3. \/ lost' = lost /\ pos'[c] = pos[c] + 1
         /\ pc'[c] = IF pos[c] + 1 > Len(steps[c]) THEN "saveInstance" ELSE "getStepDef"
      \/ lost' = lost + 1 /\ pos'[c] = pos[c] /\ pc'[c] = pc[c]
  BY DEF Pushes, IInv, TypeOK
<1>4. \A n \in Positions : n \in Nat /\ sent[c][n] \in Nat
  BY CopyTypes
<1>5. \A n \in Positions : sent'[c][n] <= lost' + (IF n < pos'[c] THEN 1 ELSE 0)
  <2>1. CASE lost' = lost + 1 /\ pos'[c] = pos[c]
    BY <1>1, <1>2, <1>4, <2>1 DEF CopyInv
  <2>2. CASE lost' = lost /\ pos'[c] = pos[c] + 1
    BY <1>1, <1>2, <1>4, <2>2 DEF CopyInv
  <2>3. QED
    BY <1>3, <2>1, <2>2
<1>6. UNCHANGED <<steps, current, skipped>>
  BY DEF Pushes
<1>7. \A n \in DOMAIN steps'[c] : n < pos'[c] => sent'[c][n] > 0 \/ n \in skipped'[c]
  BY <1>1, <1>2, <1>3, <1>4, <1>6 DEF CopyInv
<1>8. pc'[c] \notin Early \cup {"logResponse", "started"}
  BY <1>3 DEF Pushes, Early
<1>9. QED
  BY <1>1, <1>5, <1>6, <1>7, <1>8 DEF CopyInv, CurrentInv, StoredInv

LEMMA NamesKeep ==
    ASSUME IInv, NEW c \in Calls, CopyInv(c), StoredInv(c), Names(c)
    PROVE  CopyInv(c)' /\ StoredInv(c)'
<1>1. /\ pos[c] \in Positions /\ pos[c] \in Nat /\ lost \in Nat
      /\ sent[c] \in [Positions -> Nat]
      /\ pos[c] \in DOMAIN steps[c] /\ DOMAIN steps[c] = 1..Len(steps[c])
      /\ steps[c] \in Seq(NamedStep)
      /\ instances[c] = None /\ instances'[c] = None
  BY CopyTypes DEF Names, InLoop, StoredInv
<1>2. /\ UNCHANGED <<current, lost, sent>>
      /\ \/ /\ skipped'[c] = skipped[c] \cup {pos[c]} /\ pos'[c] = pos[c] + 1
            /\ pc'[c] = IF pos[c] + 1 > Len(steps[c]) THEN "saveInstance" ELSE "getStepDef"
         \/ skipped'[c] = skipped[c] /\ pos'[c] = pos[c] /\ pc'[c] = "saveStep"
  BY DEF Names, IInv, TypeOK
<1>3. /\ DOMAIN steps'[c] = DOMAIN steps[c] /\ steps[c] # <<>>
      /\ steps'[c] # <<>>
      /\ \A n \in DOMAIN steps[c] :
            \/ steps'[c][n].id = steps[c][n].id
            \/ steps[c][n].id = None /\ steps'[c][n].id \in FreshIds
  BY <1>1, NamesKept DEF Names
<1>4. CurrentInv(c)'
  <2>1. 1 \in DOMAIN steps[c]
    BY <1>1
  <2>2. QED
    BY <1>2, <1>3, <2>1 DEF CopyInv, CurrentInv
<1>5. \A n \in DOMAIN steps'[c] : n < pos'[c] => sent'[c][n] > 0 \/ n \in skipped'[c]
  BY <1>1, <1>2, <1>3 DEF CopyInv
<1>6. \A n \in Positions : sent'[c][n] <= lost' + (IF n < pos'[c] THEN 1 ELSE 0)
  <2>1. \A n \in Positions : n \in Nat /\ sent[c][n] \in Nat
    BY CopyTypes
  <2>2. QED
    BY <1>1, <1>2, <2>1 DEF CopyInv
<1>7. pc'[c] \notin Early \cup {"logResponse", "started"}
  BY <1>2 DEF Early
<1>8. QED
  BY <1>1, <1>4, <1>5, <1>6, <1>7 DEF CopyInv, StoredInv

LEMMA LoadsKept ==
    ASSUME IInv, NEW c \in Calls, CopyInv(c), StoredInv(c), Loads(c)
    PROVE  CopyInv(c)' /\ StoredInv(c)'
<1> DEFINE template == workflows[event[c]].steps
<1>1. /\ pos[c] = 1 /\ pos'[c] = 1 /\ steps'[c] = template
      /\ instances[c] = None /\ instances'[c] = None
      /\ current'[c] = IF template = <<>> THEN None ELSE template[1].id
      /\ UNCHANGED <<lost, sent, skipped>>
      /\ pc'[c] = IF 1 > Len(template) THEN "saveInstance" ELSE "getStepDef"
  BY DEF Loads, StoredInv, IInv, TypeOK, CallInv, Early
<1>2. template \in Seq(Step)
  BY DefinitionType DEF IInv, TypeOK, CallInv, Loads
<1>3. pc'[c] \notin Early \cup {"logResponse", "started"}
  BY <1>1 DEF Early
<1>4. QED
  BY <1>1, <1>2, <1>3 DEF CopyInv, CurrentInv, StoredInv

LEMMA SavesKept ==
    ASSUME IInv, NEW c \in Calls, CopyInv(c), StoredInv(c), Saves(c)
    PROVE  CopyInv(c)' /\ StoredInv(c)'
<1>1. /\ pos[c] = Len(steps[c]) + 1
      /\ instances'[c] = [steps |-> [n \in DOMAIN steps[c] |-> steps[c][n].id],
                          current |-> current[c]]
      /\ UNCHANGED <<steps, pos, current, sent, skipped>>
      /\ LostMore
  BY DEF Saves, WriteInstance, IInv, TypeOK, CallInv, AfterLoop
<1>2. pc'[c] \in {"saveInstance", "logResponse"}
  BY DEF Saves, IInv, TypeOK
<1>3. instances'[c] # None
  <2>1. instances'[c] \in StoredInstance
    BY <1>1, StoredRecord DEF Saves
  <2>2. QED
    BY <2>1, RouterAssumption DEF StoredInstance
<1>4. StoredInv(c)'
  BY <1>1, <1>2, <1>3 DEF StoredInv, Early, InLoop
<1>5. \A n \in Positions : sent'[c][n] <= lost' + (IF n < pos'[c] THEN 1 ELSE 0)
  BY <1>1, CopyTypes DEF CopyInv, LostMore, Positions
<1>6. CopyInv(c)'
  BY <1>1, <1>2, <1>5 DEF CopyInv, CurrentInv, Early, Saves
<1>7. QED
  BY <1>4, <1>6

\* The calls that the step of call c does not concern.
LEMMA OthersKept ==
    ASSUME IInv, NEW c \in Calls, Pushes(c) \/ Saves(c) \/ Names(c) \/ Loads(c),
           NEW d \in Calls, d # c, CopyInv(d), StoredInv(d)
    PROVE  CopyInv(d)' /\ StoredInv(d)'
<1>1. LostMore /\ pc'[d] = pc[d] /\ pos'[d] = pos[d] /\ skipped'[d] = skipped[d]
  BY DEF Pushes, Saves, Names, Loads, LostMore, IInv, TypeOK
<1>2. steps'[d] = steps[d] /\ current'[d] = current[d]
  BY NamesKept DEF Pushes, Saves, Names, Loads, IInv, TypeOK
<1>3. sent'[d] = sent[d] /\ instances'[d] = instances[d]
  BY DEF Pushes, CountPush, Saves, WriteInstance, Names, Loads, IInv, TypeOK
<1>4. QED
  BY <1>1, <1>2, <1>3, BystanderKept DEF Onward

LEMMA CallsKept ==
    ASSUME IInv, StepCases, \A c \in Calls : CopyInv(c) /\ StoredInv(c)
    PROVE  \A c \in Calls : CopyInv(c)' /\ StoredInv(c)'
<1>1. CASE Quiet
  BY <1>1, BystanderKept DEF Quiet
<1>2. ASSUME NEW c \in Calls, Pushes(c) \/ Saves(c) \/ Names(c) \/ Loads(c), NEW d \in Calls
      PROVE  CopyInv(d)' /\ StoredInv(d)'
  BY <1>2, OthersKept, PushesKept, SavesKept, NamesKeep, LoadsKept
<1>3. QED
  BY <1>1, <1>2 DEF StepCases

-----------------------------------------------------------------------------
(***************************************************************************)
(* What a worker finds in its queue.                                       *)
(***************************************************************************)

\* A call with a template keeps its steps' ids.
LEMMA StepsKept ==
    ASSUME IInv, StepCases, NEW c \in Calls, CopyInv(c), steps[c] # <<>>
    PROVE  /\ DOMAIN steps'[c] = DOMAIN steps[c]
           /\ pos[c] <= pos'[c]
           /\ \A n \in DOMAIN steps[c] :
                 steps[c][n].id # None => steps'[c][n].id = steps[c][n].id
<1>1. \A d \in Calls : pos[d] \in Nat
  BY CopyTypes
<1>2. CASE Quiet
  BY <1>1, <1>2 DEF Quiet
<1>3. ASSUME NEW d \in Calls, Pushes(d) \/ Saves(d)
      PROVE  steps' = steps /\ pos[c] <= pos'[c]
  <2>1. /\ steps' = steps /\ pos \in [Calls -> 1..(MaxSteps + 1)]
        /\ pos' = pos \/ pos' = [pos EXCEPT ![d] = pos[d] + 1]
    BY <1>3 DEF Pushes, Saves, IInv, TypeOK
  <2>2. pos'[c] = pos[c] \/ pos'[c] = pos[c] + 1
    BY <2>1
  <2>3. QED
    BY <1>1, <2>1, <2>2
<1>4. ASSUME NEW d \in Calls, Names(d)
      PROVE  /\ DOMAIN steps'[c] = DOMAIN steps[c] /\ pos[c] <= pos'[c]
             /\ \A n \in DOMAIN steps[c] :
                   steps[c][n].id # None => steps'[c][n].id = steps[c][n].id
  <2>1. /\ pos \in [Calls -> 1..(MaxSteps + 1)]
        /\ pos' = pos \/ pos' = [pos EXCEPT ![d] = pos[d] + 1]
    BY <1>4 DEF Names, IInv, TypeOK
  <2>2. pos'[c] = pos[c] \/ pos'[c] = pos[c] + 1
    BY <2>1
  <2>3. QED
    BY <1>1, <1>4, <2>2, NamesKept DEF Names
<1>5. ASSUME NEW d \in Calls, Loads(d)
      PROVE  steps'[c] = steps[c] /\ pos[c] <= pos'[c]
  BY <1>1, <1>5 DEF Loads, CopyInv, Early
<1>6. QED
  BY <1>2, <1>3, <1>4, <1>5 DEF StepCases

\* The item stays where it is, one place nearer, or is the one just pushed.
LEMMA QueueKept ==
    ASSUME IInv, StepCases, NEW i \in Instances
    PROVE  \/ queues'[i] = queues[i]
           \/ queues[i] # <<>> /\ queues'[i] = Tail(queues[i])
           \/ \E c \in Calls : /\ pc[c] = "pushStep" /\ UNCHANGED steps
                                /\ queues'[i] = Append(queues[i], QueueItem(c))
<1>1. CASE Quiet
  BY <1>1 DEF Quiet, IInv, TypeOK
<1>2. ASSUME NEW c \in Calls, Pushes(c)
      PROVE  \/ queues'[i] = queues[i]
             \/ pc[c] = "pushStep" /\ UNCHANGED steps
                /\ queues'[i] = Append(queues[i], QueueItem(c))
  BY <1>2 DEF Pushes, WriteQueue, IInv, TypeOK
<1>3. ASSUME NEW c \in Calls, Saves(c) \/ Names(c) \/ Loads(c) PROVE queues' = queues
  BY <1>3 DEF Saves, Names, Loads
<1>4. QED
  BY <1>1, <1>2, <1>3 DEF StepCases

\* What is true of items stays true while the calls go on.
LEMMA ItemsKept ==
    ASSUME IInv, StepCases, \A c \in Calls : CopyInv(c), NEW a \in Item, Placed(a)
    PROVE  /\ Placed(a)'
           /\ \A b \in Item : Follows(a, b) => Follows(a, b)'
<1>1. /\ a.wf \in Calls /\ a.step # None /\ \A b \in Item : b.step # None
      /\ pos[a.wf] \in Nat /\ pos'[a.wf] \in Nat /\ DOMAIN steps[a.wf] \subseteq Nat
      /\ steps[a.wf] # <<>>
  <2>1. a.wf \in Calls
    BY DEF Item
  <2>2. \A x \in Ids : x # None
    BY RouterAssumption DEF Ids
  <2>3. a.step # None /\ \A b \in Item : b.step # None
    BY <2>2 DEF Item
  <2>4. pos[a.wf] \in Nat /\ DOMAIN steps[a.wf] \subseteq Nat
    BY <2>1, CopyTypes
  <2>5. pos'[a.wf] \in Nat
    BY <2>1, <2>4 DEF StepCases, Quiet, Pushes, Saves, Names, Loads, IInv, TypeOK
  <2>6. steps[a.wf] # <<>>
    BY DEF Placed
  <2>7. QED
    BY <2>1, <2>3, <2>4, <2>5, <2>6
<1>2. /\ DOMAIN steps'[a.wf] = DOMAIN steps[a.wf] /\ pos[a.wf] <= pos'[a.wf]
      /\ \A n \in DOMAIN steps[a.wf] :
            steps[a.wf][n].id # None => steps'[a.wf][n].id = steps[a.wf][n].id
  BY <1>1, StepsKept
<1>3. Placed(a)'
  BY <1>1, <1>2 DEF Placed
<1>4. ASSUME NEW b \in Item, Follows(a, b) PROVE Follows(a, b)'
  BY <1>1, <1>2, <1>4 DEF Follows
<1>5. QED
  BY <1>3, <1>4

LEMMA QueuesKept ==
    ASSUME IInv, StepCases, \A c \in Calls : CopyInv(c), NEW i \in Instances,
           \A m \in DOMAIN queues[i] : Placed(queues[i][m]),
           \A m, n \in DOMAIN queues[i] : m < n => Follows(queues[i][m], queues[i][n])
    PROVE  /\ \A m \in DOMAIN queues'[i] : Placed(queues[i][m])'
           /\ \A m, n \in DOMAIN queues'[i] :
                 m < n => Follows(queues[i][m], queues[i][n])'
<1>1. queues[i] \in Seq(Item) /\ \A n \in DOMAIN queues[i] : queues[i][n] \in Item
  BY DEF IInv, TypeOK
<1>2. /\ \A m \in DOMAIN queues[i] : Placed(queues[i][m])
      /\ \A a \in Item : Placed(a) => Placed(a)'
      /\ \A a, b \in Item : Placed(a) /\ Follows(a, b) => Follows(a, b)'
  BY ItemsKept
<1>3. CASE queues'[i] = queues[i]
  <2>1. ASSUME NEW m \in DOMAIN queues'[i] PROVE Placed(queues[i][m])'
    <3>1. Placed(queues'[i][m]) /\ queues'[i][m] \in Item
      BY <1>1, <1>2, <1>3, <2>1
    <3>2. QED
      BY <1>2, <3>1 DEF Placed
  <2>2. ASSUME NEW m \in DOMAIN queues'[i], NEW n \in DOMAIN queues'[i], m < n
        PROVE  Follows(queues[i][m], queues[i][n])'
    <3>1. /\ queues'[i][m] \in Item /\ queues'[i][n] \in Item /\ Placed(queues'[i][m])
          /\ Follows(queues'[i][m], queues'[i][n])
      BY <1>1, <1>2, <1>3, <2>2
    <3>2. QED
      BY <1>2, <3>1 DEF Follows
  <2>3. QED
    BY <2>1, <2>2
<1>4. CASE queues[i] # <<>> /\ queues'[i] = Tail(queues[i])
  <2>1. \A n \in DOMAIN queues'[i] :
            n \in Nat /\ n + 1 \in DOMAIN queues[i] /\ queues'[i][n] = queues[i][n + 1]
    BY <1>1, <1>4
  <2>2. ASSUME NEW m \in DOMAIN queues'[i] PROVE Placed(queues[i][m])'
    <3>1. Placed(queues'[i][m]) /\ queues'[i][m] \in Item
      BY <1>1, <1>2, <2>1, <2>2
    <3>2. QED
      BY <1>2, <3>1 DEF Placed
  <2>3. ASSUME NEW m \in DOMAIN queues'[i], NEW n \in DOMAIN queues'[i], m < n
        PROVE  Follows(queues[i][m], queues[i][n])'
    <3>1. /\ queues'[i][m] \in Item /\ queues'[i][n] \in Item /\ Placed(queues'[i][m])
          /\ Follows(queues'[i][m], queues'[i][n])
      BY <1>1, <1>2, <2>1, <2>3
    <3>2. QED
      BY <1>2, <3>1 DEF Follows
  <2>4. QED
    BY <2>2, <2>3
<1>5. ASSUME NEW c \in Calls, pc[c] = "pushStep", UNCHANGED steps,
             queues'[i] = Append(queues[i], QueueItem(c))
      PROVE  /\ \A m \in DOMAIN queues'[i] : Placed(queues[i][m])'
             /\ \A m, n \in DOMAIN queues'[i] :
                   m < n => Follows(queues[i][m], queues[i][n])'
  <2> DEFINE x == QueueItem(c)
             len == Len(queues[i])
  <2>1. /\ pos[c] \in DOMAIN steps[c] /\ pos[c] \in Nat /\ steps[c] # <<>>
        /\ DOMAIN steps[c] \subseteq Nat
    BY <1>5, CopyTypes DEF InLoop
  <2>2. x.wf = c /\ x.step = steps[c][pos[c]].id /\ x \in Item
    <3>1. StepOf(c) \in NamedStep /\ StepOf(c).id # None
      BY <1>5, <2>1 DEF IInv, TypeOK, CallInv, StepOf
    <3>2. QED
      BY <3>1 DEF QueueItem, Item, NamedStep, StepOf
  <2>3. /\ DOMAIN queues'[i] = 1..(len + 1) /\ DOMAIN queues[i] = 1..len /\ len \in Nat
        /\ queues'[i][len + 1] = x
        /\ \A n \in 1..len : queues'[i][n] = queues[i][n] /\ queues[i][n] \in Item
    BY <1>1, <1>5, <2>2
  <2> HIDE DEF x, len
  <2>4. Placed(x)
    BY <2>1, <2>2 DEF Placed
  <2>5. ASSUME NEW a \in Item, Placed(a) PROVE Follows(a, x)
    BY <2>1, <2>2, <2>5 DEF Placed, Follows
  <2>6. ASSUME NEW m \in DOMAIN queues'[i] PROVE Placed(queues[i][m])'
    <3>1. Placed(queues'[i][m]) /\ queues'[i][m] \in Item
      BY <1>2, <2>2, <2>3, <2>4, <2>6
    <3>2. QED
      BY <1>2, <3>1 DEF Placed
  <2>7. ASSUME NEW m \in DOMAIN queues'[i], NEW n \in DOMAIN queues'[i], m < n
        PROVE  Follows(queues[i][m], queues[i][n])'
    <3>1. m \in 1..len /\ (n \in 1..len \/ n = len + 1)
      BY <2>3, <2>7
    <3>2. /\ queues'[i][m] \in Item /\ queues'[i][n] \in Item /\ Placed(queues'[i][m])
          /\ Follows(queues'[i][m], queues'[i][n])
      BY <1>2, <2>2, <2>3, <2>5, <2>7, <3>1
    <3>3. QED
      BY <1>2, <3>2 DEF Follows
  <2>8. QED
    BY <2>6, <2>7
<1>6. QED
  BY <1>3, <1>4, <1>5, QueueKept

-----------------------------------------------------------------------------
(***************************************************************************)
(* The invariant, and the properties it implies.                           *)
(***************************************************************************)
LEMMA InitStorage ==
    ASSUME Init PROVE StorageInv
<1>1. IInv
  BY InitInv
<1>2. ASSUME NEW c \in Calls PROVE CopyInv(c) /\ StoredInv(c)
  <2>1. /\ steps[c] = <<>> /\ current[c] = None /\ pc[c] = "idle" /\ instances[c] = None /\ lost = 0 /\ pos[c] = 1
        /\ \A n \in Positions : sent[c][n] = 0
    BY DEF Init
  <2>2. \A n \in Positions : sent[c][n] <= lost + (IF n < pos[c] THEN 1 ELSE 0)
    BY <2>1
  <2>3. QED
    BY <2>1, <2>2 DEF CopyInv, CurrentInv, StoredInv
<1>3. \A i \in Instances : queues[i] = <<>>
  BY DEF Init
<1>4. QED
  BY <1>1, <1>2, <1>3 DEF StorageInv, QueueFollowsTemplate

\* QueueFollowsTemplate, item by item.
LEMMA QueueOrder ==
    QueueFollowsTemplate <=>
        \A i \in Instances : \A m, n \in DOMAIN queues[i] :
            m < n => Follows(queues[i][m], queues[i][n])
BY DEF QueueFollowsTemplate, Follows

LEMMA NextStorage ==
    ASSUME StorageInv, [Next]_vars PROVE StorageInv'
<1>1. IInv /\ IInv' /\ StepCases
  BY NextInv, NextCases DEF StorageInv, IInv
<1>2. \A c \in Calls : CopyInv(c)' /\ StoredInv(c)'
  BY <1>1, CallsKept DEF StorageInv
<1>3. ASSUME NEW i \in Instances
      PROVE  /\ \A m \in DOMAIN queues'[i] : Placed(queues[i][m])'
             /\ \A m, n \in DOMAIN queues'[i] :
                   m < n => Follows(queues[i][m], queues[i][n])'
  BY <1>1, QueuesKept, QueueOrder DEF StorageInv
<1>4. QueueFollowsTemplate'
  BY <1>3 DEF QueueFollowsTemplate, Follows
<1>5. QED
  BY <1>1, <1>2, <1>3, <1>4 DEF StorageInv

\* The inductive invariant holds in every state of every behaviour.
THEOREM StorageInvariant == Spec => []StorageInv
<1>1. Init => StorageInv
  BY InitStorage
<1>2. StorageInv /\ [Next]_vars => StorageInv'
  BY NextStorage
<1>3. QED
  BY <1>1, <1>2, PTL DEF Spec

\* However many calls share a worker, it finds the steps of each workflow in the
\* order of the template.
THEOREM QueueInOrder == Spec => []QueueFollowsTemplate
<1>1. StorageInv => QueueFollowsTemplate
  BY DEF StorageInv
<1>2. QED
  BY <1>1, StorageInvariant, PTL

\* A step is pushed more than once only if replies were lost.
THEOREM PushedOnce == Spec => []PushesAreBounded
<1>1. ASSUME StorageInv PROVE PushesAreBounded
  <2>1. SUFFICES ASSUME NEW c \in Calls, NEW n \in Positions PROVE sent[c][n] <= 1 + lost
    BY DEF PushesAreBounded
  <2>2. /\ sent[c][n] <= lost + (IF n < pos[c] THEN 1 ELSE 0)
        /\ sent[c][n] \in Nat /\ lost \in Nat
    BY <1>1, CopyTypes DEF StorageInv, CopyInv
  <2>3. QED
    BY <2>2
<1>2. QED
  BY <1>1, StorageInvariant, PTL

\* A stored workflow instance is complete: each of its steps was pushed or
\* skipped, and every step that a worker will pop for it is one of its steps.
THEOREM StoredComplete == Spec => []StoredInstanceIsComplete
<1>1. ASSUME StorageInv PROVE StoredInstanceIsComplete
  <2> SUFFICES ASSUME NEW c \in Calls, instances[c] # None
               PROVE  LET saved == instances[c].steps IN
                      /\ \A i \in Instances : \A q \in Queued(i) :
                            q.wf = c => \E n \in DOMAIN saved : saved[n] = q.step
                      /\ \A n \in DOMAIN saved : sent[c][n] > 0 \/ n \in skipped[c]
                      /\ Len(saved) = Len(steps[c])
                      /\ instances[c].current =
                            IF saved = <<>> \/ saved[1] \in FreshIds THEN None ELSE saved[1]
    BY DEF StoredInstanceIsComplete
  <2> DEFINE saved == instances[c].steps
  <2>1. /\ saved = [n \in DOMAIN steps[c] |-> steps[c][n].id]
        /\ instances[c].current = current[c]
        /\ pos[c] = Len(steps[c]) + 1
        /\ CopyInv(c)
    <3>1. CopyInv(c) /\ StoredInv(c)
      BY <1>1 DEF StorageInv
    <3>2. instances[c] = [steps |-> [n \in DOMAIN steps[c] |-> steps[c][n].id],
                          current |-> current[c]]
      BY <3>1 DEF StoredInv
    <3>3. QED
      BY <3>1, <3>2 DEF StoredInv
  <2>2. /\ DOMAIN steps[c] = 1..Len(steps[c]) /\ Len(steps[c]) \in Nat
        /\ steps[c] \in Seq(NamedStep)
    BY <1>1, CopyTypes DEF StorageInv
  <2>3. saved \in Seq(Ids)
    BY <1>1, RouterAssumption DEF StorageInv, IInv, TypeOK, StoredInstance
  <2> HIDE DEF saved
  <2>4. DOMAIN saved = 1..Len(steps[c]) /\ Len(saved) = Len(steps[c])
    BY <2>1, <2>2, <2>3
  <2>5. \A n \in DOMAIN saved : sent[c][n] > 0 \/ n \in skipped[c]
    BY <2>1, <2>2, <2>4 DEF CopyInv
  <2>6. current[c] = IF saved = <<>> \/ saved[1] \in FreshIds THEN None ELSE saved[1]
    <3>1. current[c] \notin FreshIds
      BY <1>1, CopyTypes, RouterAssumption DEF StorageInv
    <3>2. CASE saved = <<>>
      BY <2>1, <2>2, <2>4, <3>2 DEF CopyInv, CurrentInv
    <3>3. CASE saved # <<>>
      <4>1. 1 \in DOMAIN steps[c] /\ steps[c] # <<>> /\ saved[1] = steps[c][1].id
        BY <2>1, <2>2, <2>3, <2>4, <3>3
      <4>2. QED
        BY <2>1, <3>1, <3>3, <4>1 DEF CopyInv, CurrentInv
    <3>4. QED
      BY <3>2, <3>3
  <2>7. ASSUME NEW i \in Instances, NEW q \in Queued(i), q.wf = c
        PROVE  \E n \in DOMAIN saved : saved[n] = q.step
    <3>1. Placed(q)
      BY <1>1 DEF StorageInv, Queued
    <3>2. QED
      BY <2>1, <2>2, <2>4, <2>7, <3>1 DEF Placed
  <2>8. QED
    BY <2>1, <2>4, <2>5, <2>6, <2>7 DEF saved
<1>2. QED
  BY <1>1, StorageInvariant, PTL

-----------------------------------------------------------------------------
(***************************************************************************)
(* routeEvent implements WorkflowDispatch.                                 *)
(***************************************************************************)
LEMMA PhaseFacts ==
    ASSUME NEW c \in Calls
    PROVE  /\ pc[c] \in Unplanned => Phase[c] = "new"
           /\ pc[c] \in Failed => Phase[c] = "failed"
           /\ pc[c] = "started" => Phase[c] = "started"
           /\ pc[c] \notin Unplanned \cup Failed \cup {"started"} => Phase[c] = "routing"
BY DEF Phase, Unplanned, Failed

\* The same of the next state.
LEMMA PhaseFactsNext ==
    ASSUME NEW c \in Calls
    PROVE  /\ pc'[c] \in Unplanned => Phase'[c] = "new"
           /\ pc'[c] \in Failed => Phase'[c] = "failed"
           /\ pc'[c] = "started" => Phase'[c] = "started"
           /\ pc'[c] \notin Unplanned \cup Failed \cup {"started"} => Phase'[c] = "routing"
BY DEF Phase, Unplanned, Failed

LEMMA InitDispatch ==
    ASSUME Init PROVE Dispatch!Init
<1>1. \A c \in Calls : /\ pc[c] = "idle" /\ steps[c] = <<>> /\ pos[c] = 1 /\ instances[c] = None
                         /\ \A n \in Positions : sent[c][n] = 0
  BY DEF Init
<1>2. Phase = [c \in Calls |-> "new"]
  BY <1>1, PhaseFacts DEF Phase, Unplanned
<1>3. PlannedSteps = [c \in Calls |-> 0] /\ HandledSteps = [c \in Calls |-> 0]
  BY <1>1 DEF PlannedSteps, HandledSteps
<1>4. SentSteps = [c \in Calls |-> {}] /\ IsStored = [c \in Calls |-> FALSE]
  <2>1. \A c \in Calls, n \in Positions : ~(sent[c][n] > 0)
    BY <1>1
  <2>2. \A c \in Calls : {n \in Positions : sent[c][n] > 0} = {}
    BY <2>1, Zenon
  <2>3. QED
    BY <1>1, <2>2 DEF SentSteps, IsStored
<1>5. QED
  BY <1>2, <1>3, <1>4 DEF Dispatch!Init

LEMMA QuietDispatch ==
    ASSUME StorageInv, Quiet PROVE [Dispatch!Next]_(Dispatch!dispatchVars)
<1>1. UNCHANGED <<PlannedSteps, HandledSteps, SentSteps, IsStored>>
  BY DEF Quiet, PlannedSteps, HandledSteps, SentSteps, IsStored
<1>2. ASSUME \A c \in Calls : Moves(c) PROVE Dispatch!Fail
  <2> DEFINE F == {c \in Calls : pc[c] \in Awaiting /\ pc'[c] \in Failed}
  <2>1. F \subseteq {c \in Calls : Phase[c] \in {"new", "routing"}}
    BY PhaseFacts DEF Awaiting, Failed, Unplanned
  <2>2. ASSUME NEW c \in Calls PROVE Phase'[c] = IF c \in F THEN "failed" ELSE Phase[c]
    BY <1>2, <2>2, PhaseFacts, PhaseFactsNext DEF Moves, Failed, Unplanned
  <2>3. Phase' = [c \in Calls |-> IF c \in F THEN "failed" ELSE Phase[c]]
    BY <2>2 DEF Phase
  <2>4. QED
    BY <1>1, <2>1, <2>3 DEF Dispatch!Fail
<1>3. ASSUME NEW c \in Calls, pc[c] = "logResponse", pc' = [pc EXCEPT ![c] = "started"]
      PROVE  Dispatch!Start(c)
  <2>1. Phase[c] = "routing" /\ IsStored[c]
    BY <1>3, PhaseFacts DEF Unplanned, Failed, StorageInv, StoredInv, IsStored
  <2>2. ASSUME NEW d \in Calls PROVE Phase'[d] = [Phase EXCEPT ![c] = "started"][d]
    BY <1>3, <2>2, PhaseFactsNext DEF Phase, StorageInv, IInv, TypeOK
  <2>3. Phase' = [Phase EXCEPT ![c] = "started"]
    BY <2>2 DEF Phase
  <2>4. QED
    BY <1>1, <2>1, <2>3 DEF Dispatch!Start
<1>4. QED
  BY <1>2, <1>3 DEF Quiet, Dispatch!Next

\* A call that goes from one command of the loop to the next.
LEMMA SameRouting ==
    ASSUME TypeOK, NEW c \in Calls, NEW to,
           pc[c] \notin Unplanned \cup Failed \cup {"started"},
           to \notin Unplanned \cup Failed \cup {"started"},
           pc' = [pc EXCEPT ![c] = to]
    PROVE  Phase' = Phase
<1>1. ASSUME NEW d \in Calls PROVE Phase'[d] = Phase[d]
  <2>1. CASE d = c
    BY <2>1, PhaseFacts, PhaseFactsNext DEF TypeOK
  <2>2. CASE d # c
    BY <2>2 DEF Phase, TypeOK
  <2>3. QED
    BY <2>1, <2>2
<1>2. QED
  BY <1>1 DEF Phase

LEMMA PushesDispatch ==
    ASSUME StorageInv, NEW c \in Calls, Pushes(c) PROVE Dispatch!Send(c)
<1>1. /\ TypeOK /\ pos[c] \in Positions /\ pos[c] \in Nat /\ pos[c] <= Len(steps[c])
      /\ Len(steps[c]) \in Nat /\ pos[c] >= 1 /\ pc[c] = "pushStep"
  BY CopyTypes DEF StorageInv, IInv, Pushes, InLoop
<1>2. Phase[c] = "routing"
  BY <1>1, PhaseFacts DEF Unplanned, Failed
<1>3. UNCHANGED <<Phase, PlannedSteps, IsStored>>
  <2>1. Phase' = Phase
    <3>1. CASE pc' = pc
      BY <3>1 DEF Phase
    <3>2. CASE pc' = [pc EXCEPT ![c] = IF pos[c] + 1 > Len(steps[c])
                                       THEN "saveInstance" ELSE "getStepDef"]
      BY <1>1, <3>2, SameRouting DEF Unplanned, Failed
    <3>3. QED
      BY <3>1, <3>2 DEF Pushes
  <2>2. QED
    BY <2>1 DEF Pushes, PlannedSteps, IsStored
<1>4. HandledSteps[c] = pos[c] - 1 /\ PlannedSteps[c] = Len(steps[c])
  BY DEF HandledSteps, PlannedSteps
<1>5. SentSteps' = [SentSteps EXCEPT ![c] = @ \cup {HandledSteps[c] + 1}]
  <2>1. sent' = [sent EXCEPT ![c] = [sent[c] EXCEPT ![pos[c]] = sent[c][pos[c]] + 1]]
    BY DEF Pushes, CountPush
  <2>2. /\ sent'[c][pos[c]] = sent[c][pos[c]] + 1
        /\ \A n \in Positions : n # pos[c] => sent'[c][n] = sent[c][n]
        /\ \A d \in Calls : d # c => sent'[d] = sent[d]
    BY <1>1, <2>1 DEF TypeOK
  <2>3. sent[c][pos[c]] \in Nat
    BY <1>1 DEF TypeOK
  <2>4. SentSteps'[c] = SentSteps[c] \cup {pos[c]}
    BY <1>1, <2>2, <2>3 DEF SentSteps
  <2>5. \A d \in Calls : d # c => SentSteps'[d] = SentSteps[d]
    BY <2>2 DEF SentSteps
  <2>6. HandledSteps[c] + 1 = pos[c]
    BY <1>1, <1>4
  <2>7. QED
    BY <2>4, <2>5, <2>6 DEF SentSteps
<1>6. HandledSteps' \in {HandledSteps, [HandledSteps EXCEPT ![c] = @ + 1]}
  <2>1. CASE pos' = pos
    BY <2>1 DEF HandledSteps
  <2>2. CASE pos' = [pos EXCEPT ![c] = pos[c] + 1]
    <3>1. HandledSteps'[c] = HandledSteps[c] + 1
      BY <1>1, <2>2 DEF HandledSteps, TypeOK
    <3>2. \A d \in Calls : d # c => HandledSteps'[d] = HandledSteps[d]
      BY <2>2 DEF HandledSteps, TypeOK
    <3>3. HandledSteps' = [HandledSteps EXCEPT ![c] = HandledSteps[c] + 1]
      BY <3>1, <3>2 DEF HandledSteps
    <3>4. QED
      BY <3>3
  <2>3. QED
    BY <2>1, <2>2 DEF Pushes
<1>7. HandledSteps[c] < PlannedSteps[c]
  BY <1>1, <1>4
<1>8. QED
  BY <1>2, <1>3, <1>5, <1>6, <1>7 DEF Dispatch!Send

LEMMA SavesDispatch ==
    ASSUME StorageInv, NEW c \in Calls, Saves(c) PROVE Dispatch!Store(c)
<1>1. /\ TypeOK /\ IInv /\ pc[c] = "saveInstance" /\ pos[c] = Len(steps[c]) + 1
      /\ Len(steps[c]) \in Nat
  BY CopyTypes DEF StorageInv, IInv, Saves, CallInv, AfterLoop
<1>2. Phase[c] = "routing" /\ HandledSteps[c] = PlannedSteps[c]
  BY <1>1, PhaseFacts DEF Unplanned, Failed, HandledSteps, PlannedSteps
<1>3. Phase' = Phase
  <2>1. CASE pc' = pc
    BY <2>1 DEF Phase
  <2>2. CASE pc' = [pc EXCEPT ![c] = "logResponse"]
    BY <1>1, <2>2, SameRouting DEF Unplanned, Failed
  <2>3. QED
    BY <2>1, <2>2 DEF Saves
<1>4. instances'[c] # None
  <2>1. instances'[c] \in StoredInstance
    BY <1>1, StoredRecord DEF Saves, WriteInstance, TypeOK
  <2>2. QED
    BY <2>1, RouterAssumption DEF StoredInstance
<1>5. \A d \in Calls : d # c => instances'[d] = instances[d]
  BY <1>1 DEF Saves, WriteInstance, TypeOK
<1>6. IsStored' = [IsStored EXCEPT ![c] = TRUE]
  BY <1>4, <1>5 DEF IsStored
<1>7. UNCHANGED <<PlannedSteps, HandledSteps, SentSteps>>
  BY DEF Saves, PlannedSteps, HandledSteps, SentSteps
<1>8. QED
  BY <1>2, <1>3, <1>6, <1>7 DEF Dispatch!Store

LEMMA NamesDispatch ==
    ASSUME StorageInv, NEW c \in Calls, Names(c)
    PROVE  Dispatch!Skip(c) \/ UNCHANGED Dispatch!dispatchVars
<1>1. /\ TypeOK /\ IInv /\ pos[c] \in Nat /\ pos[c] <= Len(steps[c])
      /\ Len(steps[c]) \in Nat /\ pos[c] >= 1 /\ pc[c] = "getStepDef"
  BY CopyTypes DEF StorageInv, IInv, Names, InLoop
<1>2. Phase[c] = "routing" /\ HandledSteps[c] < PlannedSteps[c]
  BY <1>1, PhaseFacts DEF Unplanned, Failed, HandledSteps, PlannedSteps
<1>3. PlannedSteps' = PlannedSteps
  <2>1. \A d \in Calls : Len(steps'[d]) = Len(steps[d])
    BY <1>1, NamesKept DEF Names
  <2>2. QED
    BY <2>1 DEF PlannedSteps
<1>4. UNCHANGED <<SentSteps, IsStored>>
  BY DEF Names, SentSteps, IsStored
<1>5. Phase' = Phase
  <2>1. PICK to \in {"saveInstance", "getStepDef", "saveStep"} : pc' = [pc EXCEPT ![c] = to]
    BY DEF Names
  <2>2. QED
    BY <1>1, <2>1, SameRouting DEF Unplanned, Failed
<1>6. CASE pos' = pos
  BY <1>3, <1>4, <1>5, <1>6 DEF HandledSteps, Dispatch!dispatchVars
<1>7. CASE pos' = [pos EXCEPT ![c] = pos[c] + 1]
  <2>1. HandledSteps'[c] = HandledSteps[c] + 1
    BY <1>1, <1>7 DEF HandledSteps, TypeOK
  <2>2. \A d \in Calls : d # c => HandledSteps'[d] = HandledSteps[d]
    BY <1>1, <1>7 DEF HandledSteps, TypeOK
  <2>3. HandledSteps' = [HandledSteps EXCEPT ![c] = HandledSteps[c] + 1]
    BY <2>1, <2>2 DEF HandledSteps
  <2>4. QED
    BY <1>2, <1>3, <1>4, <1>5, <2>3 DEF Dispatch!Skip
<1>8. QED
  BY <1>6, <1>7 DEF Names

LEMMA LoadsDispatch ==
    ASSUME StorageInv, NEW c \in Calls, Loads(c) PROVE Dispatch!Plan(c)
<1> DEFINE template == workflows[event[c]].steps
<1>1. /\ TypeOK /\ pc[c] = "getTemplate" /\ steps' = [steps EXCEPT ![c] = template]
      /\ template \in Seq(Step) /\ Len(template) <= MaxSteps
      /\ pc' = [pc EXCEPT ![c] = IF 1 > Len(template) THEN "saveInstance" ELSE "getStepDef"]
      /\ UNCHANGED <<instances, pos, sent>>
  BY DefinitionType DEF StorageInv, IInv, TypeOK, CallInv, Loads
<1> HIDE DEF template
<1>2. Len(template) \in 0..MaxSteps
  BY <1>1, RouterAssumption
<1>3. PlannedSteps' = [PlannedSteps EXCEPT ![c] = Len(template)]
  <2>1. PlannedSteps'[c] = Len(template)
    BY <1>1 DEF PlannedSteps, TypeOK
  <2>2. \A d \in Calls : d # c => PlannedSteps'[d] = PlannedSteps[d]
    BY <1>1 DEF PlannedSteps, TypeOK
  <2>3. QED
    BY <2>1, <2>2 DEF PlannedSteps
<1>4. Phase[c] = "new" /\ Phase' = [Phase EXCEPT ![c] = "routing"]
  <2>1. Phase[c] = "new"
    BY <1>1, PhaseFacts DEF Unplanned
  <2>2. pc'[c] \in {"saveInstance", "getStepDef"}
    BY <1>1 DEF TypeOK
  <2>3. Phase'[c] = "routing"
    BY <2>2, PhaseFactsNext DEF Unplanned, Failed
  <2>4. \A d \in Calls : d # c => Phase'[d] = Phase[d]
    BY <1>1 DEF Phase, TypeOK
  <2>5. QED
    BY <2>1, <2>3, <2>4 DEF Phase
<1>5. UNCHANGED <<HandledSteps, SentSteps, IsStored>>
  BY <1>1 DEF HandledSteps, SentSteps, IsStored
<1>6. QED
  BY <1>2, <1>3, <1>4, <1>5 DEF Dispatch!Plan

\* routeEvent, with every Redis command, every failure and every other call,
\* implements the dispatch of a workflow: the initial states of the one are
\* initial states of the other, and every step is a step of it or a stutter.
THEOREM RouterImplementsDispatch == Spec => ImplementsDispatch
<1>1. Init => Dispatch!Init
  BY InitDispatch
<1>2. StorageInv /\ [Next]_vars => [Dispatch!Next]_(Dispatch!dispatchVars)
  <2> SUFFICES ASSUME StorageInv, [Next]_vars
               PROVE  [Dispatch!Next]_(Dispatch!dispatchVars)
    OBVIOUS
  <2>1. StepCases
    BY NextCases DEF StorageInv, IInv
  <2>2. ASSUME NEW c \in Calls, Pushes(c) \/ Saves(c) \/ Names(c) \/ Loads(c)
        PROVE  [Dispatch!Next]_(Dispatch!dispatchVars)
    BY <2>2, PushesDispatch, SavesDispatch, NamesDispatch, LoadsDispatch DEF Dispatch!Next
  <2>3. QED
    BY <2>1, <2>2, QuietDispatch DEF StepCases
<1>3. QED
  BY <1>1, <1>2, StorageInvariant, PTL DEF Spec, ImplementsDispatch, Dispatch!Spec

-----------------------------------------------------------------------------
(***************************************************************************)
(* The keys whose ids a call generated are written once and for all.  That *)
(* a call comes to the write of a step with its hash still missing, or     *)
(* with what it is about to write in it, depends on how far it is.         *)
(***************************************************************************)

\* The step at pos[c] has not been written.
Unsaved == Early \cup {"getStepDef"}

HashInv(c) ==
    \A n \in Positions : stepHash[<<c, n>>] # None =>
        /\ n <= pos[c]
        /\ pc[c] \in Unsaved => n < pos[c]
        /\ pc[c] = "saveStep" /\ n = pos[c] => stepHash[<<c, n>>] = chosen[c]

\* What a step does to the hashes, and to how far the calls are.
Stays(c) ==
    /\ pos'[c] = pos[c] /\ chosen'[c] = chosen[c]
    /\ pc'[c] \in Unsaved => pc[c] \in Unsaved
    /\ pc'[c] = "saveStep" => pc[c] = "saveStep"

Advances(c) ==
    /\ pos' = [pos EXCEPT ![c] = pos[c] + 1] /\ UNCHANGED <<stepHash, chosen>>
    /\ \E to \in {"saveInstance", "getStepDef"} : pc' = [pc EXCEPT ![c] = to]

Chooses(c) ==
    /\ pc[c] = "getStepDef" /\ pc' = [pc EXCEPT ![c] = "saveStep"]
    /\ UNCHANGED <<stepHash, pos>>
    /\ \A d \in Calls : d # c => chosen'[d] = chosen[d]

Writes(c) ==
    /\ pc[c] = "saveStep" /\ WriteStep(c) /\ UNCHANGED <<pos, chosen, instances>>
    /\ pc' = pc \/ pc' = [pc EXCEPT ![c] = "pushStep"]

HashCases ==
    \/ UNCHANGED stepHash /\ \A c \in Calls : Stays(c)
    \/ \E c \in Calls : Advances(c) \/ Chooses(c) \/ Writes(c)

LEMMA NextHashCases ==
    ASSUME TypeOK, [Next]_vars PROVE HashCases
<1> USE DEF store, locals, history, Stays, Unsaved, Early
<1>0. pc \in [Calls -> Awaiting \cup Ended \cup {"idle"}]
  BY DEF TypeOK
<1>1. CASE UNCHANGED vars
  BY <1>1 DEF vars, HashCases
<1>2. ASSUME NEW c \in Calls, NEW e \in Keys, Receive(c, e) PROVE HashCases
  BY <1>0, <1>2 DEF Receive, Goto, HashCases
<1>3. ASSUME NEW c \in Calls,
             \/ LogRequest(c) \/ GetTemplateMissing(c) \/ GetTemplateMalformed(c)
             \/ LogMissing(c) \/ StepWithoutDefinition(c) \/ LogResponse(c) \/ RedisFail(c)
             \/ SaveInstance(c)
      PROVE  HashCases
  <2>1. UNCHANGED <<stepHash, locals>>
    BY <1>3 DEF LogRequest, GetTemplateMissing, GetTemplateMalformed, LogMissing,
                StepWithoutDefinition, LogResponse, RedisFail, SaveInstance
  <2>2. \A d \in Calls : Stays(d)
    BY <1>0, <1>3, <2>1 DEF LogRequest, GetTemplateMissing, GetTemplateMalformed, LogMissing,
                StepWithoutDefinition, LogResponse, RedisFail, SaveInstance, Goto, Awaiting
  <2>3. QED
    BY <2>1, <2>2 DEF HashCases
<1>4. ASSUME NEW c \in Calls, GetTemplate(c) PROVE HashCases
  BY <1>0, <1>4 DEF GetTemplate, LoopHead, Goto, HashCases
<1>5. ASSUME NEW c \in Calls, SkipStep(c) \/ PushStep(c) PROVE Advances(c)
  BY <1>5 DEF SkipStep, PushStep, LoopHead, Goto, Advances
<1>6. ASSUME NEW c \in Calls, AssignStep(c) PROVE Chooses(c)
  <2>1. PICK i : chosen' = [chosen EXCEPT ![c] = i]
    BY <1>6 DEF AssignStep
  <2>2. \A d \in Calls : d # c => chosen'[d] = chosen[d]
    BY <2>1 DEF TypeOK
  <2>3. QED
    BY <1>6, <2>2 DEF AssignStep, Goto, Chooses
<1>7. ASSUME NEW c \in Calls, SaveStep(c) PROVE Writes(c)
  BY <1>7 DEF SaveStep, Goto, Writes
<1>8. ASSUME NEW c \in Calls, LostReply(c) PROVE HashCases
  BY <1>8 DEF LostReply, Writes, HashCases
<1>9. CASE Crash
  BY <1>0, <1>9 DEF Crash, HashCases
<1>10. CASE \/ \E k \in Keys : Configure(k)
            \/ \E i \in Instances : WorkerPop(i)
  BY <1>10 DEF Configure, WorkerPop, HashCases
<1>11. QED
  BY <1>1, <1>2, <1>3, <1>4, <1>5, <1>6, <1>7, <1>8, <1>9, <1>10 DEF Next, CallStep, HashCases

\* What a write of a step does to the keys with generated ids.
LEMMA WriteFacts ==
    ASSUME IInv, NEW c \in Calls, Writes(c)
    PROVE  /\ chosen[c] # None
           /\ \A s \in FreshIds :
                 \/ stepHash'[s] = stepHash[s]
                 \/ s = <<c, pos[c]>> /\ stepHash'[s] = chosen[c]
<1>1. pos[c] \in DOMAIN steps[c] /\ chosen[c] \in Instances
  BY CopyTypes DEF Writes, InLoop, IInv, CallInv
<1>2. StepOf(c).id \in StepIds \cup {<<c, pos[c]>>}
  BY <1>1 DEF Writes, IInv, CallInv, StepOf
<1>3. /\ stepHash' = [stepHash EXCEPT ![StepOf(c).id] = chosen[c]]
      /\ FreshIds \subseteq DOMAIN stepHash
  BY DEF Writes, WriteStep, IInv, TypeOK, Ids
<1>4. \A s \in FreshIds : s = StepOf(c).id => s = <<c, pos[c]>>
  BY <1>2, RouterAssumption
<1>5. QED
  BY <1>1, <1>3, <1>4, RouterAssumption

LEMMA HashKept ==
    ASSUME IInv, HashCases, NEW c \in Calls, HashInv(c) PROVE HashInv(c)'
<1>1. /\ pos[c] \in Nat /\ pos \in [Calls -> 1..(MaxSteps + 1)] /\ Positions \subseteq Nat
      /\ pc \in [Calls -> Awaiting \cup Ended \cup {"idle"}]
      /\ \A n \in Positions : <<c, n>> \in FreshIds
  BY CopyTypes DEF IInv, TypeOK, FreshIds, Positions
<1>2. ASSUME UNCHANGED stepHash, Stays(c) PROVE HashInv(c)'
  BY <1>2 DEF Stays, HashInv
<1>3. ASSUME NEW d \in Calls, Advances(d) PROVE HashInv(c)'
  <2>1. CASE d = c
    <3>1. pos'[c] = pos[c] + 1 /\ pc'[c] \in {"saveInstance", "getStepDef"}
      BY <1>1, <1>3, <2>1 DEF Advances
    <3>2. QED
      BY <1>1, <1>3, <3>1 DEF Advances, HashInv
  <2>2. CASE d # c
    BY <1>1, <1>2, <1>3, <2>2 DEF Advances, Stays
  <2>3. QED
    BY <2>1, <2>2
<1>4. ASSUME NEW d \in Calls, Chooses(d) PROVE HashInv(c)'
  <2>1. CASE d = c
    BY <1>1, <1>4, <2>1 DEF Chooses, HashInv, Unsaved
  <2>2. CASE d # c
    BY <1>1, <1>2, <1>4, <2>2 DEF Chooses, Stays
  <2>3. QED
    BY <2>1, <2>2
<1>5. ASSUME NEW d \in Calls, Writes(d) PROVE HashInv(c)'
  <2>1. /\ \A n \in Positions :
              \/ stepHash'[<<c, n>>] = stepHash[<<c, n>>]
              \/ d = c /\ n = pos[c] /\ stepHash'[<<c, n>>] = chosen[c]
        /\ UNCHANGED <<pos, chosen>>
    BY <1>1, <1>5, WriteFacts DEF Writes
  <2>2. /\ pc'[c] \in Unsaved => pc[c] \in Unsaved /\ d # c
        /\ pc'[c] = "saveStep" => pc[c] = "saveStep"
    BY <1>1, <1>5 DEF Writes, Unsaved, Early
  <2>3. QED
    BY <1>1, <2>1, <2>2 DEF HashInv
<1>6. QED
  BY <1>2, <1>3, <1>4, <1>5 DEF HashCases

FinalInv == StorageInv /\ \A c \in Calls : HashInv(c)

\* The hash of a step that routeEvent named, and a stored workflow instance, are
\* never written with another value, whatever happens to replies and definitions.
THEOREM GeneratedKeysFinal == Spec => GeneratedKeysAreFinal
<1>1. Init => FinalInv
  <2>1. ASSUME Init, NEW c \in Calls PROVE HashInv(c)
    <3>1. \A n \in Positions : <<c, n>> \in Ids
      BY DEF Ids, FreshIds
    <3>2. QED
      BY <2>1, <3>1 DEF Init, HashInv
  <2>2. QED
    BY <2>1, InitStorage DEF FinalInv
<1>2. FinalInv /\ [Next]_vars => FinalInv'
  <2>1. ASSUME FinalInv, [Next]_vars PROVE IInv /\ HashCases /\ StorageInv'
    BY <2>1, NextStorage, NextHashCases DEF FinalInv, StorageInv, IInv
  <2>2. QED
    BY <2>1, HashKept DEF FinalInv
<1>3. ASSUME FinalInv, [Next]_vars
      PROVE  /\ \A s \in FreshIds : stepHash[s] # None => stepHash'[s] = stepHash[s]
             /\ \A c \in Calls : instances[c] # None => instances'[c] = instances[c]
  <2>1. IInv /\ StepCases /\ HashCases
    BY <1>3, NextCases, NextHashCases DEF FinalInv, StorageInv, IInv
  <2>2. ASSUME NEW s \in FreshIds, stepHash[s] # None PROVE stepHash'[s] = stepHash[s]
    <3>1. ASSUME NEW c \in Calls, Writes(c), s = <<c, pos[c]>>
          PROVE  stepHash[s] = chosen[c]
      <4>1. pos[c] \in Positions
        BY <2>1, <3>1, CopyTypes DEF Writes, InLoop
      <4>2. QED
        BY <1>3, <2>2, <3>1, <4>1 DEF FinalInv, HashInv, Writes
    <3>2. ASSUME NEW c \in Calls, Writes(c) PROVE stepHash'[s] = stepHash[s]
      BY <2>1, <3>1, <3>2, WriteFacts
    <3>3. QED
      BY <2>1, <3>2 DEF HashCases, Advances, Chooses
  <2>3. ASSUME NEW c \in Calls, instances[c] # None PROVE instances'[c] = instances[c]
    <3>1. ASSUME NEW d \in Calls, Saves(d) PROVE instances'[c] = instances[c]
      BY <1>3, <2>1, <2>3, <3>1 DEF Saves, WriteInstance, FinalInv, StorageInv, StoredInv, IInv, TypeOK
    <3>2. QED
      BY <2>1, <3>1 DEF StepCases, Quiet, Pushes, Names, Loads
  <2>4. QED
    BY <2>2, <2>3
<1>4. QED
  BY <1>1, <1>2, <1>3, PTL DEF Spec, GeneratedKeysAreFinal

=============================================================================
