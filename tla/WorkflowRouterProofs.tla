------------------------ MODULE WorkflowRouterProofs ------------------------
(***************************************************************************)
(* Theorems of WorkflowRouter, for any calls, workers, templates and       *)
(* histories of the definitions, and any number of lost replies.           *)
(***************************************************************************)
EXTENDS WorkflowRouter, TLAPS

(***************************************************************************)
(* The inductive invariant.  TypeOK is not inductive by itself: that a     *)
(* stored instance has an id for every step depends on how far the loop    *)
(* is, and so does the range of pos.                                       *)
(***************************************************************************)
Early == {"idle", "logRequest", "getTemplate"}
InLoop == {"getStepDef", "saveStep", "pushStep"}
\* The step at pos[c] has not been pushed.
BeforePush == Early \cup {"getStepDef", "saveStep"}
AfterLoop == {"saveInstance", "logResponse", "started"}

\* Where a call is, and what its copy of the template looks like there.
CallInv(c) ==
    /\ pc[c] # "idle" => event[c] \in Keys
    /\ pc[c] \in Early => pos[c] = 1
    /\ Len(steps[c]) <= MaxSteps
    /\ pc[c] \in InLoop => pos[c] <= Len(steps[c])
    /\ pc[c] \in AfterLoop => pos[c] = Len(steps[c]) + 1
    /\ \A n \in DOMAIN steps[c] :
          /\ n < pos[c] => steps[c][n].id # None
          /\ steps[c][n].id \in StepIds \cup {None, <<c, n>>}
    /\ pc[c] \in {"saveStep", "pushStep"} =>
          /\ chosen[c] \in Instances
          /\ StepOf(c).id # None
    /\ pc[c] = "pushStep" =>
          /\ stepHash[StepOf(c).id] # None
          /\ StepOf(c).id \in FreshIds => stepHash[StepOf(c).id] = chosen[c]

\* What an item of the queue of worker i says.  A step named <<c, n>> is queued
\* only after call c saved it, and c saves its n-th step only before that.
ItemInv(i, q) ==
    /\ stepHash[q.step] # None
    /\ q.step \in FreshIds =>
          LET c == q.step[1]
              n == q.step[2] IN
          /\ q.wf = c
          /\ stepHash[q.step] = i
          /\ n <= pos[c]
          /\ pc[c] \in BeforePush => n < pos[c]

IInv ==
    /\ TypeOK
    /\ \A c \in Calls : CallInv(c)
    /\ \A i \in Instances : \A n \in DOMAIN queues[i] : ItemInv(i, queues[i][n])
-----------------------------------------------------------------------------
(***************************************************************************)
(* Lemmas on queues and on a call's copy of the template.                  *)
(***************************************************************************)

\* lpush adds one item and keeps the others where a consumer finds them.
LEMMA AppendItems ==
    ASSUME NEW S, NEW s \in Seq(S), NEW x \in S
    PROVE  /\ Append(s, x) \in Seq(S)
           /\ \A n \in DOMAIN Append(s, x) :
                 \/ n \in DOMAIN s /\ Append(s, x)[n] = s[n]
                 \/ Append(s, x)[n] = x
  OBVIOUS

\* rpop removes one item and adds none.
LEMMA TailItems ==
    ASSUME NEW S, NEW s \in Seq(S), s # <<>>
    PROVE  /\ Tail(s) \in Seq(S)
           /\ \A n \in DOMAIN Tail(s) : n + 1 \in DOMAIN s /\ Tail(s)[n] = s[n + 1]
  OBVIOUS

\* Naming a step replaces that step only.
LEMMA NamedSteps ==
    ASSUME NEW s \in Seq(NamedStep), NEW p \in DOMAIN s, NEW st \in NamedStep
    PROVE  LET t == [s EXCEPT ![p] = st] IN
           /\ t \in Seq(NamedStep)
           /\ Len(t) = Len(s) /\ DOMAIN t = DOMAIN s
           /\ t[p] = st
           /\ \A n \in DOMAIN s : n # p => t[n] = s[n]
  OBVIOUS

-----------------------------------------------------------------------------
(***************************************************************************)
(* Steps that change nothing but how far some calls are.                   *)
(***************************************************************************)

\* A call that waits for no store of the loop may go on, or end, at any time.
MovesOn(c) ==
    \/ pc'[c] = pc[c]
    \/ pc[c] # "idle" /\ pc'[c] \in {"rejected", "crashed", "logMissing"}
    \/ pc[c] = "logRequest" /\ pc'[c] = "getTemplate"
    \/ pc[c] = "logResponse" /\ pc'[c] = "started"

LEMMA MovesPreserve ==
    ASSUME IInv, UNCHANGED <<store, locals, history>>,
           pc' \in [Calls -> Awaiting \cup Ended \cup {"idle"}],
           \A c \in Calls : MovesOn(c)
    PROVE  IInv'
<1>1. TypeOK'
  BY DEF IInv, TypeOK, store, locals, history
<1>2. ASSUME NEW c \in Calls PROVE CallInv(c)'
  <2>1. CallInv(c) /\ MovesOn(c)
    BY DEF IInv
  <2>2. QED
    BY <2>1 DEF CallInv, MovesOn, StepOf, Early, InLoop, AfterLoop, store, locals
<1>3. ASSUME NEW i \in Instances, NEW n \in DOMAIN queues'[i]
      PROVE  ItemInv(i, queues[i][n])'
  <2>1. ItemInv(i, queues[i][n]) /\ queues' = queues /\ queues[i][n] \in Item
    BY <1>3 DEF IInv, TypeOK, store
  <2> DEFINE q == queues[i][n]
  <2>2. q.step \in FreshIds => q.step[1] \in Calls
    BY DEF FreshIds
  <2>3. QED
    BY <2>1, <2>2 DEF ItemInv, MovesOn, BeforePush, Early, store, locals
<1>4. QED
  BY <1>1, <1>2, <1>3 DEF IInv

-----------------------------------------------------------------------------
(***************************************************************************)
(* What the other calls and the queued items make of a step of one call.   *)
(***************************************************************************)

\* A call that does not move keeps its invariant while no hash is written.
LEMMA CallFrame ==
    ASSUME NEW d \in Calls, CallInv(d), pc'[d] = pc[d], event'[d] = event[d],
           steps'[d] = steps[d], pos'[d] = pos[d], chosen'[d] = chosen[d],
           stepHash' = stepHash
    PROVE  CallInv(d)'
  BY DEF CallInv, StepOf

\* The loops only move forward, and none comes back to a step it has pushed.
NoRewind ==
    \A d \in Calls :
        /\ pos'[d] >= pos[d]
        /\ pc'[d] \in BeforePush => pc[d] \in BeforePush \/ pos'[d] > pos[d]

LEMMA ItemFrame ==
    ASSUME TypeOK, NoRewind, NEW i \in Instances, NEW q \in Item, ItemInv(i, q),
           pos' \in [Calls -> 1..(MaxSteps + 1)], stepHash' = stepHash
    PROVE  ItemInv(i, q)'
<1>1. q.step \in FreshIds => q.step[1] \in Calls /\ q.step[2] \in Nat
  BY DEF FreshIds, Positions
<1>2. \A d \in Calls : pos[d] \in Nat /\ pos'[d] \in Nat
  BY DEF TypeOK
<1>3. QED
  BY <1>1, <1>2 DEF NoRewind, ItemInv

\* A step that writes neither a queue nor a hash keeps every item's invariant.
LEMMA ItemsFrame ==
    ASSUME IInv, NoRewind, pos' \in [Calls -> 1..(MaxSteps + 1)],
           stepHash' = stepHash, queues' = queues
    PROVE  \A i \in Instances : \A n \in DOMAIN queues'[i] : ItemInv(i, queues[i][n])'
<1> SUFFICES ASSUME NEW i \in Instances, NEW n \in DOMAIN queues'[i]
             PROVE  ItemInv(i, queues[i][n])'
  OBVIOUS
<1> DEFINE q == queues[i][n]
<1>1. TypeOK /\ q \in Item /\ ItemInv(i, q)
  BY DEF IInv, TypeOK
<1>2. ItemInv(i, q)'
  BY <1>1, ItemFrame
<1>3. QED
  BY <1>2

-----------------------------------------------------------------------------
(***************************************************************************)
(* Init and the steps of a call.                                           *)
(***************************************************************************)

LEMMA InitInv ==
    ASSUME Init PROVE IInv
<1> USE RouterAssumption
<1>1. TypeOK
  BY DEF Init, TypeOK, Awaiting, Ended, NamedStep, Positions
<1>2. ASSUME NEW c \in Calls PROVE CallInv(c)
  BY DEF Init, CallInv, InLoop, AfterLoop, Early
<1>3. QED
  BY <1>1, <1>2 DEF IInv, Init

LEMMA ReceiveInv ==
    ASSUME IInv, NEW c \in Calls, NEW e \in Keys, Receive(c, e)
    PROVE  IInv'
<1>1. TypeOK'
  BY DEF IInv, TypeOK, Receive, Goto, store, history, Awaiting, Ended
<1>2. ASSUME NEW d \in Calls PROVE CallInv(d)'
  <2>1. CallInv(d) /\ pc' = [pc EXCEPT ![c] = "logRequest"] /\ pc[c] = "idle"
    BY DEF IInv, Receive, Goto
  <2>2. CASE d = c
    BY <2>1, <2>2 DEF IInv, TypeOK, CallInv, Receive, StepOf, Early, InLoop, AfterLoop, store
  <2>3. CASE d # c
    BY <2>1, <2>3, CallFrame DEF IInv, TypeOK, Receive, store
  <2>4. QED
    BY <2>2, <2>3
<1>3. NoRewind /\ pos' \in [Calls -> 1..(MaxSteps + 1)] /\ stepHash' = stepHash /\ queues' = queues
  BY RouterAssumption DEF IInv, TypeOK, Receive, Goto, NoRewind, BeforePush, Early, store
<1>4. QED
  BY <1>1, <1>2, <1>3, ItemsFrame DEF IInv

\* What workflow:k holds, once it is neither missing nor malformed.
LEMMA DefinitionType ==
    ASSUME workflows \in Definitions, NEW k \in Keys, workflows[k] # None
    PROVE  /\ workflows[k].workers \in Seq(Worker)
           /\ workflows[k].steps # None => /\ workflows[k].steps \in Seq(Step)
                                           /\ Len(workflows[k].steps) <= MaxSteps
  BY RouterAssumption DEF Definitions, Workflow

LEMMA GetTemplateInv ==
    ASSUME IInv, NEW c \in Calls, GetTemplate(c)
    PROVE  IInv'
<1> DEFINE t == workflows[event[c]].steps
<1>1. /\ event[c] \in Keys /\ pos[c] = 1 /\ pc[c] = "getTemplate"
      /\ t \in Seq(Step) /\ Len(t) <= MaxSteps
  BY DefinitionType DEF IInv, TypeOK, CallInv, GetTemplate, Early
<1>2. t \in Seq(NamedStep) /\ \A n \in DOMAIN t : t[n].id \in StepIds \cup {None}
  <2>1. \A st \in Step : st \in NamedStep /\ st.id \in StepIds \cup {None}
    BY DEF Step, NamedStep, Ids
  <2>2. \A n \in 1..Len(t) : t[n] \in Step
    BY <1>1
  <2>3. t \in [1..Len(t) -> NamedStep]
    BY <1>1, <2>1, <2>2
  <2>4. QED
    BY <1>1, <2>1, <2>2, <2>3
<1>3. steps' = [steps EXCEPT ![c] = t] /\ current'[c] \in StepIds \cup {None}
  BY <1>1, <1>2 DEF GetTemplate, IInv, TypeOK
<1>4. TypeOK'
  BY <1>1, <1>2, <1>3
     DEF IInv, TypeOK, GetTemplate, LoopHead, Goto, store, history, Awaiting
<1>5. ASSUME NEW d \in Calls PROVE CallInv(d)'
  <2>1. CallInv(d)
    BY DEF IInv
  <2>2. CASE d = c
    <3>1. pc'[c] = IF 1 > Len(t) THEN "saveInstance" ELSE "getStepDef"
      BY DEF GetTemplate, LoopHead, Goto, IInv, TypeOK
    <3>2. steps'[c] = t /\ pos'[c] = 1 /\ event'[c] = event[c]
      BY <1>1, <1>3 DEF GetTemplate, IInv, TypeOK
    <3>3. QED
      BY <1>1, <1>2, <2>2, <3>1, <3>2 DEF CallInv, Early, InLoop, AfterLoop
  <2>3. CASE d # c
    BY <2>1, <2>3, CallFrame
       DEF IInv, TypeOK, GetTemplate, LoopHead, Goto, store
  <2>4. QED
    BY <2>2, <2>3
<1>6. /\ NoRewind /\ pos' \in [Calls -> 1..(MaxSteps + 1)]
      /\ stepHash' = stepHash /\ queues' = queues
  BY <1>1 DEF IInv, TypeOK, GetTemplate, LoopHead, Goto, NoRewind, BeforePush, Early, store
<1>7. QED
  BY <1>4, <1>5, <1>6, ItemsFrame DEF IInv

\* step.step_instance_id = step_instance_id: the steps up to this one have ids.
LEMMA NameStepFacts ==
    ASSUME IInv, NEW c \in Calls, pc[c] = "getStepDef", NameStep(c)
    PROVE  /\ steps' \in [Calls -> Seq(NamedStep)]
           /\ \A d \in Calls : d # c => steps'[d] = steps[d]
           /\ Len(steps'[c]) = Len(steps[c]) /\ DOMAIN steps'[c] = DOMAIN steps[c]
           /\ \A n \in DOMAIN steps[c] :
                 /\ n <= pos[c] => steps'[c][n].id # None
                 /\ steps'[c][n].id \in StepIds \cup {None, <<c, n>>}
<1> DEFINE st == [id |-> NewId(c), key |-> StepOf(c).key]
<1>1. /\ steps \in [Calls -> Seq(NamedStep)]
      /\ pos[c] \in DOMAIN steps[c] /\ pos[c] \in Positions
  BY RouterAssumption DEF IInv, TypeOK, CallInv, InLoop, Positions
<1>2. StepOf(c) \in NamedStep /\ StepOf(c).id \in StepIds \cup {None, <<c, pos[c]>>}
  BY <1>1 DEF IInv, CallInv, StepOf
<1>3. <<c, pos[c]>> \in FreshIds /\ <<c, pos[c]>> # None
  BY <1>1, RouterAssumption DEF FreshIds
<1>4. /\ st \in NamedStep /\ st.id # None
      /\ st.id \in StepIds \cup {<<c, pos[c]>>}
  BY <1>2, <1>3 DEF NewId, NamedStep, Ids
<1>5. steps' = [steps EXCEPT ![c] = [steps[c] EXCEPT ![pos[c]] = st]]
  BY <1>1 DEF NameStep
<1> HIDE DEF st
<1>6. steps'[c] = [steps[c] EXCEPT ![pos[c]] = st] /\ steps[c] \in Seq(NamedStep)
  BY <1>1, <1>5
<1>7. /\ steps'[c] \in Seq(NamedStep)
      /\ Len(steps'[c]) = Len(steps[c]) /\ DOMAIN steps'[c] = DOMAIN steps[c]
      /\ steps'[c][pos[c]] = st
      /\ \A n \in DOMAIN steps[c] : n # pos[c] => steps'[c][n] = steps[c][n]
  BY <1>1, <1>4, <1>6, NamedSteps
<1>8. \A n \in DOMAIN steps[c] : /\ n < pos[c] => steps[c][n].id # None
                                /\ steps[c][n].id \in StepIds \cup {None, <<c, n>>}
  BY DEF IInv, CallInv
<1>9. \A n \in DOMAIN steps[c] : n <= pos[c] => n < pos[c] \/ n = pos[c]
  BY <1>1 DEF Positions
<1>10. QED
  BY <1>1, <1>4, <1>5, <1>7, <1>8, <1>9

LEMMA SkipStepInv ==
    ASSUME IInv, NEW c \in Calls, SkipStep(c)
    PROVE  IInv'
<1>1. /\ pc[c] = "getStepDef" /\ pos[c] \in Positions
      /\ pos[c] <= Len(steps[c]) /\ Len(steps[c]) <= MaxSteps
  BY RouterAssumption DEF SkipStep, IInv, TypeOK, CallInv, InLoop, Positions
<1>2. /\ pos' = [pos EXCEPT ![c] = pos[c] + 1]
      /\ pc' = [pc EXCEPT ![c] = IF pos[c] + 1 > Len(steps[c])
                                 THEN "saveInstance" ELSE "getStepDef"]
  BY DEF SkipStep, LoopHead, Goto
<1>3. TypeOK'
  <2>1. pos' \in [Calls -> 1..(MaxSteps + 1)]
    BY <1>1, <1>2, RouterAssumption DEF IInv, TypeOK, Positions
  <2>2. pc' \in [Calls -> Awaiting \cup Ended \cup {"idle"}]
    BY <1>2 DEF IInv, TypeOK, Awaiting
  <2>3. skipped' \in [Calls -> SUBSET Positions]
    <3>1. skipped' = [skipped EXCEPT ![c] = skipped[c] \cup {pos[c]}]
      BY DEF SkipStep
    <3>2. skipped[c] \cup {pos[c]} \in SUBSET Positions
      BY <1>1 DEF IInv, TypeOK
    <3>3. QED
      BY <3>1, <3>2 DEF IInv, TypeOK
  <2>4. steps' \in [Calls -> Seq(NamedStep)]
    BY NameStepFacts DEF SkipStep
  <2>5. QED
    BY <2>1, <2>2, <2>3, <2>4 DEF IInv, TypeOK, SkipStep, store
<1>4. ASSUME NEW d \in Calls PROVE CallInv(d)'
  <2>1. CallInv(d)
    BY DEF IInv
  <2>2. CASE d = c
    <3>1. /\ pc'[c] = IF pos[c] + 1 > Len(steps[c]) THEN "saveInstance" ELSE "getStepDef"
          /\ pos'[c] = pos[c] + 1 /\ event'[c] = event[c]
      BY <1>2 DEF SkipStep, IInv, TypeOK
    <3>2. steps'[c] \in Seq(NamedStep) /\ Len(steps[c]) \in Nat
      BY <1>1, NameStepFacts DEF SkipStep, IInv, TypeOK
    <3>3. QED
      BY <1>1, <2>1, <2>2, <3>1, <3>2, NameStepFacts
         DEF SkipStep, CallInv, Positions, Early, InLoop, AfterLoop
  <2>3. CASE d # c
    BY <1>1, <1>2, <2>1, <2>3, NameStepFacts, CallFrame DEF IInv, TypeOK, SkipStep, store
  <2>4. QED
    BY <2>2, <2>3
<1>5. /\ NoRewind /\ pos' \in [Calls -> 1..(MaxSteps + 1)]
      /\ stepHash' = stepHash /\ queues' = queues
  BY <1>1, <1>2, <1>3 DEF IInv, TypeOK, SkipStep, NoRewind, BeforePush, Early, store
<1>6. QED
  BY <1>3, <1>4, <1>5, ItemsFrame DEF IInv

LEMMA AssignStepInv ==
    ASSUME IInv, NEW c \in Calls, AssignStep(c)
    PROVE  IInv'
<1> DEFINE ws == workflows[StepOf(c).key].workers
<1>1. /\ pc[c] = "getStepDef" /\ pos[c] \in Positions /\ pos[c] \in DOMAIN steps[c]
      /\ pc' = [pc EXCEPT ![c] = "saveStep"]
  BY RouterAssumption DEF AssignStep, Goto, IInv, TypeOK, CallInv, InLoop, Positions
<1>2. StepOf(c).key \in Keys /\ ws \in Seq(Worker)
  <2>1. StepOf(c) \in NamedStep
    BY <1>1 DEF StepOf, IInv, TypeOK
  <2>2. StepOf(c).key \in Keys /\ workflows[StepOf(c).key] # None
    BY <2>1 DEF AssignStep, Assignable, NamedStep
  <2>3. workflows \in Definitions
    BY DEF IInv, TypeOK
  <2>4. QED
    BY <2>2, <2>3, DefinitionType
<1>3. PICK n \in LeastLoaded(ws) : chosen' = [chosen EXCEPT ![c] = ws[n].instance]
  BY DEF AssignStep
<1>4. ws[n].instance \in Instances
  <2>1. n \in DOMAIN ws
    BY <1>3 DEF LeastLoaded
  <2>2. ws[n] \in Worker
    BY <1>2, <2>1
  <2>3. QED
    BY <2>2 DEF Worker
<1> HIDE DEF ws
<1>5. TypeOK'
  BY <1>1, <1>3, <1>4, NameStepFacts
     DEF IInv, TypeOK, AssignStep, store, history, Awaiting
<1>6. ASSUME NEW d \in Calls PROVE CallInv(d)'
  <2>1. CallInv(d)
    BY DEF IInv
  <2>2. CASE d = c
    <3>1. /\ pc'[c] = "saveStep" /\ pos'[c] = pos[c] /\ event'[c] = event[c]
          /\ chosen'[c] \in Instances
      BY <1>1, <1>3, <1>4 DEF AssignStep, IInv, TypeOK
    <3>2. /\ Len(steps'[c]) = Len(steps[c]) /\ DOMAIN steps'[c] = DOMAIN steps[c]
          /\ \A m \in DOMAIN steps[c] :
                 /\ m <= pos[c] => steps'[c][m].id # None
                 /\ steps'[c][m].id \in StepIds \cup {None, <<c, m>>}
      BY <1>1, NameStepFacts DEF AssignStep
    <3>3. steps'[c][pos'[c]].id # None
      BY <1>1, <3>1, <3>2 DEF Positions
    <3>4. \A m \in DOMAIN steps[c] : m < pos'[c] => m <= pos[c]
      BY <1>1, <3>1 DEF IInv, TypeOK, Positions
    <3>5. QED
      BY <1>1, <2>1, <2>2, <3>1, <3>2, <3>3, <3>4
         DEF CallInv, StepOf, Early, InLoop, AfterLoop
  <2>3. CASE d # c
    BY <1>1, <1>3, <2>1, <2>3, NameStepFacts, CallFrame
       DEF IInv, TypeOK, AssignStep, store
  <2>4. QED
    BY <2>2, <2>3
<1>7. /\ NoRewind /\ pos' \in [Calls -> 1..(MaxSteps + 1)]
      /\ stepHash' = stepHash /\ queues' = queues
  BY <1>1, <1>5 DEF IInv, TypeOK, AssignStep, NoRewind, BeforePush, Early, store
<1>8. QED
  BY <1>5, <1>6, <1>7, ItemsFrame DEF IInv

-----------------------------------------------------------------------------
(***************************************************************************)
(* The three writes, each with the reply received or lost.                 *)
(***************************************************************************)

\* hset(step_instance_id): two calls share only ids of the template, so no call
\* ever overwrites the hash of a step that another has named.
LEMMA SaveStepInv ==
    ASSUME IInv, NEW c \in Calls, pc[c] = "saveStep", WriteStep(c),
           pc' \in {pc, [pc EXCEPT ![c] = "pushStep"]},
           lost' \in 0..MaxLostReplies,
           UNCHANGED <<workflows, queues, instances, locals, sent, skipped>>
    PROVE  IInv'
<1> DEFINE id == StepOf(c).id
<1>1. /\ chosen[c] \in Instances /\ chosen[c] # None
      /\ pos[c] \in DOMAIN steps[c]
      /\ id \in StepIds \cup {<<c, pos[c]>>} /\ id \in Ids
  <2>1. pos[c] \in DOMAIN steps[c] /\ StepOf(c) \in NamedStep
    BY DEF IInv, TypeOK, CallInv, InLoop, StepOf
  <2>2. QED
    BY <2>1, RouterAssumption DEF IInv, CallInv, StepOf, NamedStep
<1>2. stepHash' = [stepHash EXCEPT ![id] = chosen[c]] /\ stepHash \in [Ids -> Instances \cup {None}]
  BY DEF WriteStep, IInv, TypeOK
<1> HIDE DEF id
<1>3. TypeOK'
  BY <1>1, <1>2 DEF IInv, TypeOK, locals, Awaiting
<1>4. ASSUME NEW d \in Calls PROVE CallInv(d)'
  <2>1. CallInv(d) /\ StepOf(d)' = StepOf(d)
    BY DEF IInv, StepOf, locals
  <2>2. CASE d = c
    <3>1. stepHash'[StepOf(c).id] = chosen[c]
      BY <1>1, <1>2 DEF id
    <3>2. pc'[c] \in {"saveStep", "pushStep"}
      BY DEF IInv, TypeOK
    <3>3. QED
      BY <1>1, <2>1, <2>2, <3>1, <3>2
         DEF CallInv, InLoop, AfterLoop, Early, locals
  <2>3. CASE d # c
    <3>1. pc'[d] = pc[d]
      BY <2>3 DEF IInv, TypeOK
    <3>2. ASSUME pc[d] = "pushStep"
          PROVE  /\ stepHash'[StepOf(d).id] # None
                 /\ StepOf(d).id \in FreshIds => stepHash'[StepOf(d).id] = chosen[d]
      <4>1. /\ StepOf(d).id \in StepIds \cup {<<d, pos[d]>>}
            /\ stepHash[StepOf(d).id] # None
            /\ StepOf(d).id \in FreshIds => stepHash[StepOf(d).id] = chosen[d]
        BY <2>1, <3>2 DEF CallInv, StepOf, InLoop, IInv, TypeOK
      <4>2. StepOf(d).id \in Ids
        <5>1. pos[d] \in DOMAIN steps[d] /\ StepOf(d) \in NamedStep
          BY <2>1, <3>2 DEF IInv, TypeOK, CallInv, InLoop, StepOf
        <5>2. QED
          BY <2>1, <3>2, <5>1 DEF CallInv, NamedStep
      <4>3. StepOf(d).id \in FreshIds => StepOf(d).id # id
        BY <1>1, <2>3, <4>1, RouterAssumption
      <4>4. QED
        BY <1>1, <1>2, <4>1, <4>2, <4>3
    <3>3. QED
      BY <2>1, <3>1, <3>2 DEF CallInv, locals
  <2>4. QED
    BY <2>2, <2>3
<1>5. ASSUME NEW i \in Instances, NEW n \in DOMAIN queues'[i]
      PROVE  ItemInv(i, queues[i][n])'
  <2> DEFINE q == queues[i][n]
  <2>1. q \in Item /\ ItemInv(i, q) /\ queues' = queues
    BY DEF IInv, TypeOK
  <2>2. q.step \in Ids /\ (q.step \in FreshIds => q.step = <<q.step[1], q.step[2]>>
                                                 /\ q.step[1] \in Calls /\ q.step[2] \in Nat)
    BY <2>1 DEF Item, FreshIds, Positions
  <2>3. q.step \in FreshIds => q.step # id
    \* The step at pos[c] is not queued yet.
    <3>1. SUFFICES ASSUME q.step \in FreshIds, q.step = id PROVE FALSE
      OBVIOUS
    <3>2. q.step = <<c, pos[c]>>
      BY <1>1, <3>1, RouterAssumption
    <3>3. pos[c] < pos[c]
      BY <2>1, <3>1, <3>2 DEF ItemInv, BeforePush
    <3>4. QED
      BY <3>3 DEF IInv, TypeOK
  <2>4. stepHash'[q.step] # None /\ (q.step \in FreshIds => stepHash'[q.step] = stepHash[q.step])
    BY <1>1, <1>2, <2>1, <2>2, <2>3 DEF ItemInv
  <2>5. q.step \in FreshIds /\ pc'[q.step[1]] \in BeforePush => pc[q.step[1]] \in BeforePush
    BY <2>2 DEF BeforePush, Early, IInv, TypeOK
  <2>6. QED
    BY <2>1, <2>2, <2>4, <2>5 DEF ItemInv, locals
<1>6. QED
  BY <1>3, <1>4, <1>5 DEF IInv

\* Naming what a push does to the loop: it goes on, or waits for the reply.
LoopsOrWaits(c) ==
    \/ UNCHANGED <<pc, pos>>
    \/ pos' = [pos EXCEPT ![c] = @ + 1] /\ LoopHead(c, pos[c] + 1, Len(steps[c]))

\* lpush(queue of the chosen worker): the item names a saved step.
LEMMA PushStepInv ==
    ASSUME IInv, NEW c \in Calls, pc[c] = "pushStep", WriteQueue(c), CountPush(c),
           LoopsOrWaits(c), lost' \in 0..MaxLostReplies,
           UNCHANGED <<workflows, stepHash, instances, event, steps, current, chosen, skipped>>
    PROVE  IInv'
<1> DEFINE item == QueueItem(c)
           i0 == chosen[c]
<1>1. /\ i0 \in Instances /\ pos[c] \in Positions
      /\ pos[c] <= Len(steps[c]) /\ Len(steps[c]) <= MaxSteps
      /\ StepOf(c).id \in StepIds \cup {<<c, pos[c]>>}
      /\ item \in Item /\ item.wf = c /\ item.step = StepOf(c).id
  <2>1. pos[c] \in DOMAIN steps[c] /\ StepOf(c) \in NamedStep /\ pos[c] \in Positions
    BY RouterAssumption DEF IInv, TypeOK, CallInv, InLoop, StepOf, Positions
  <2>2. QED
    BY <2>1 DEF IInv, TypeOK, CallInv, InLoop, StepOf, NamedStep, QueueItem, Item
<1>2. queues' = [queues EXCEPT ![i0] = Append(queues[i0], item)] /\ queues \in [Instances -> Seq(Item)]
  BY DEF WriteQueue, IInv, TypeOK
<1>3. \/ pc' = pc /\ pos' = pos
      \/ /\ pos' = [pos EXCEPT ![c] = pos[c] + 1]
         /\ pc' = [pc EXCEPT ![c] = IF pos[c] + 1 > Len(steps[c])
                                    THEN "saveInstance" ELSE "getStepDef"]
  BY DEF LoopsOrWaits, LoopHead, Goto
<1>4. ItemInv(i0, item)
  BY <1>1, RouterAssumption DEF IInv, TypeOK, CallInv, ItemInv, BeforePush, Early, Positions
<1> HIDE DEF item, i0
<1>5. TypeOK'
  <2>1. queues' \in [Instances -> Seq(Item)]
    BY <1>1, <1>2, AppendItems
  <2>2. pos' \in [Calls -> 1..(MaxSteps + 1)]
    <3>1. pos \in [Calls -> 1..(MaxSteps + 1)] /\ pos[c] + 1 \in 1..(MaxSteps + 1)
      BY <1>1, RouterAssumption DEF IInv, TypeOK, Positions
    <3>2. QED
      BY <1>3, <3>1
  <2>3. pc' \in [Calls -> Awaiting \cup Ended \cup {"idle"}]
    BY <1>3 DEF IInv, TypeOK, Awaiting
  <2>4. sent' \in [Calls -> [Positions -> Nat]]
    BY <1>1 DEF IInv, TypeOK, CountPush
  <2>5. QED
    BY <2>1, <2>2, <2>3, <2>4 DEF IInv, TypeOK
<1>6. ASSUME NEW d \in Calls PROVE CallInv(d)'
  <2>1. CallInv(d)
    BY DEF IInv
  <2>2. CASE pc'[d] = pc[d] /\ pos'[d] = pos[d]
    BY <2>1, <2>2, CallFrame
  <2>3. CASE d = c /\ pos'[c] = pos[c] + 1
             /\ pc'[c] = IF pos[c] + 1 > Len(steps[c]) THEN "saveInstance" ELSE "getStepDef"
    <3>1. steps[c] \in Seq(NamedStep) /\ pos[c] \in 1..Len(steps[c])
      BY <1>1 DEF IInv, TypeOK, Positions
    <3>2. steps[c][pos[c]].id # None
      BY <2>1, <2>3 DEF CallInv, StepOf
    <3>3. \A m \in DOMAIN steps[c] : m < pos[c] + 1 => m < pos[c] \/ m = pos[c]
      BY <3>1
    <3>4. QED
      BY <1>1, <2>1, <2>3, <3>1, <3>2, <3>3 DEF CallInv, Early, InLoop, AfterLoop
  <2>4. QED
    BY <1>3, <2>2, <2>3 DEF IInv, TypeOK
<1>7. NoRewind
  BY <1>1, <1>3 DEF IInv, TypeOK, NoRewind, BeforePush, Early
<1>8. ASSUME NEW i \in Instances, NEW n \in DOMAIN queues'[i]
      PROVE  ItemInv(i, queues[i][n])'
  <2>1. \/ n \in DOMAIN queues[i] /\ queues'[i][n] = queues[i][n]
        \/ i = i0 /\ queues'[i][n] = item
    BY <1>1, <1>2, AppendItems
  <2>2. ItemInv(i, queues'[i][n]) /\ queues'[i][n] \in Item
    BY <1>1, <1>2, <1>4, <2>1 DEF IInv
  <2>3. pos' \in [Calls -> 1..(MaxSteps + 1)]
    BY <1>5 DEF TypeOK
  <2> DEFINE q == queues'[i][n]
  <2>4. q \in Item /\ ItemInv(i, q)
    BY <2>2
  <2>5. q.step \in FreshIds => q.step[1] \in Calls /\ q.step[2] \in Nat
    BY DEF FreshIds, Positions
  <2>6. \A d \in Calls : pos[d] \in Nat /\ pos'[d] \in Nat
    BY <2>3 DEF IInv, TypeOK
  <2> HIDE DEF q
  <2>7. /\ stepHash'[q.step] # None
        /\ q.step \in FreshIds =>
              /\ q.wf = q.step[1] /\ stepHash'[q.step] = i
              /\ q.step[2] <= pos'[q.step[1]]
              /\ pc'[q.step[1]] \in BeforePush => q.step[2] < pos'[q.step[1]]
    BY <1>7, <2>4, <2>5, <2>6 DEF ItemInv, NoRewind
  <2>8. QED
    BY <2>7 DEF ItemInv, q
<1>9. QED
  BY <1>5, <1>6, <1>8 DEF IInv

\* What is stored is a workflow instance: the loop is over, so every step has an
\* id.
LEMMA StoredRecord ==
    ASSUME IInv, NEW c \in Calls, pc[c] = "saveInstance"
    PROVE  [steps |-> [n \in DOMAIN steps[c] |-> steps[c][n].id], current |-> current[c]]
               \in StoredInstance
<1> DEFINE ids == [n \in DOMAIN steps[c] |-> steps[c][n].id]
<1>1. steps[c] \in Seq(NamedStep) /\ current[c] \in StepIds \cup {None}
  BY DEF IInv, TypeOK
<1>2. \A n \in 1..Len(steps[c]) : steps[c][n] \in NamedStep /\ steps[c][n].id # None
  BY <1>1 DEF IInv, CallInv, AfterLoop
<1>3. \A n \in 1..Len(steps[c]) : steps[c][n].id \in Ids
  BY <1>2 DEF NamedStep
<1>4. ids \in [1..Len(steps[c]) -> Ids]
  BY <1>1, <1>3
<1>5. ids \in Seq(Ids)
  BY <1>1, <1>4
<1>6. QED
  BY <1>1, <1>5 DEF StoredInstance

\* hset(workflow_instance_id).
LEMMA SaveInstanceInv ==
    ASSUME IInv, NEW c \in Calls, pc[c] = "saveInstance", WriteInstance(c),
           pc' \in {pc, [pc EXCEPT ![c] = "logResponse"]}, lost' \in 0..MaxLostReplies,
           UNCHANGED <<workflows, stepHash, queues, locals, sent, skipped>>
    PROVE  IInv'
<1> DEFINE ids == [n \in DOMAIN steps[c] |-> steps[c][n].id]
           saved == [steps |-> ids, current |-> current[c]]
<1>1. instances' = [instances EXCEPT ![c] = saved]
  BY DEF WriteInstance
<1>2. saved \in StoredInstance
  BY StoredRecord
<1> HIDE DEF saved
<1>3. TypeOK'
  BY <1>1, <1>2 DEF IInv, TypeOK, locals, Awaiting
<1>4. ASSUME NEW d \in Calls PROVE CallInv(d)'
  <2>1. CallInv(d)
    BY DEF IInv
  <2>2. CASE pc'[d] = pc[d]
    BY <2>1, <2>2, CallFrame DEF locals
  <2>3. CASE d = c /\ pc'[c] = "logResponse"
    BY <2>1, <2>3 DEF CallInv, Early, InLoop, AfterLoop, locals
  <2>4. QED
    BY <2>2, <2>3 DEF IInv, TypeOK
<1>5. /\ NoRewind /\ pos' \in [Calls -> 1..(MaxSteps + 1)]
      /\ stepHash' = stepHash /\ queues' = queues
  BY DEF IInv, TypeOK, NoRewind, BeforePush, Early, locals
<1>6. QED
  BY <1>3, <1>4, <1>5, ItemsFrame DEF IInv

-----------------------------------------------------------------------------
(***************************************************************************)
(* The other users of Redis.                                               *)
(***************************************************************************)

LEMMA ConfigureInv ==
    ASSUME IInv, NEW k \in Keys, Configure(k)
    PROVE  IInv'
<1>1. PICK w \in Catalog[k] : workflows' = [workflows EXCEPT ![k] = w]
  BY DEF Configure
<1>2. workflows' \in Definitions
  BY <1>1 DEF IInv, TypeOK, Definitions
<1>3. TypeOK'
  BY <1>2 DEF IInv, TypeOK, Configure, locals, history
<1>4. ASSUME NEW d \in Calls PROVE CallInv(d)'
  BY CallFrame DEF IInv, Configure, locals
<1>5. /\ NoRewind /\ pos' \in [Calls -> 1..(MaxSteps + 1)]
      /\ stepHash' = stepHash /\ queues' = queues
  BY DEF IInv, TypeOK, NoRewind, Configure, locals
<1>6. QED
  BY <1>3, <1>4, <1>5, ItemsFrame DEF IInv

LEMMA WorkerPopInv ==
    ASSUME IInv, NEW i \in Instances, WorkerPop(i)
    PROVE  IInv'
<1>1. /\ queues[i] # <<>> /\ queues' = [queues EXCEPT ![i] = Tail(queues[i])]
      /\ queues \in [Instances -> Seq(Item)]
  BY DEF WorkerPop, IInv, TypeOK
<1>2. TypeOK'
  <2>1. queues' \in [Instances -> Seq(Item)]
    BY <1>1, TailItems
  <2>2. QED
    BY <2>1 DEF IInv, TypeOK, WorkerPop, locals, history
<1>3. ASSUME NEW d \in Calls PROVE CallInv(d)'
  BY CallFrame DEF IInv, WorkerPop, locals
<1>4. ASSUME NEW j \in Instances, NEW n \in DOMAIN queues'[j]
      PROVE  ItemInv(j, queues[j][n])'
  <2>1. \E m \in DOMAIN queues[j] : queues'[j][n] = queues[j][m]
    BY <1>1, TailItems
  <2>2. ItemInv(j, queues'[j][n])
    BY <2>1 DEF IInv
  <2>3. QED
    BY <2>2 DEF ItemInv, WorkerPop, locals
<1>5. QED
  BY <1>2, <1>3, <1>4 DEF IInv

-----------------------------------------------------------------------------
(***************************************************************************)
(* The invariant, and the properties it implies.                           *)
(***************************************************************************)

\* Every step of the system keeps the inductive invariant.
LEMMA NextInv ==
    ASSUME IInv, [Next]_vars
    PROVE  IInv'
<1> USE DEF CallStep
<1>0. pc \in [Calls -> Awaiting \cup Ended \cup {"idle"}] /\ lost \in 0..MaxLostReplies
  BY DEF IInv, TypeOK
<1>1. CASE UNCHANGED vars
  BY <1>1, MovesPreserve, <1>0 DEF vars, MovesOn
<1>2. ASSUME NEW c \in Calls, NEW e \in Keys, Receive(c, e) PROVE IInv'
  BY <1>2, ReceiveInv
<1>3. ASSUME NEW c \in Calls,
             \/ LogRequest(c) \/ GetTemplateMissing(c) \/ GetTemplateMalformed(c)
             \/ LogMissing(c) \/ StepWithoutDefinition(c) \/ LogResponse(c) \/ RedisFail(c)
      PROVE  IInv'
  <2>1. UNCHANGED <<store, locals, history>>
    BY <1>3 DEF LogRequest, GetTemplateMissing, GetTemplateMalformed, LogMissing,
                StepWithoutDefinition, LogResponse, RedisFail
  <2>2. PICK to \in Awaiting \cup Ended : pc' = [pc EXCEPT ![c] = to]
    BY <1>3 DEF LogRequest, GetTemplateMissing, GetTemplateMalformed, LogMissing,
                StepWithoutDefinition, LogResponse, RedisFail, Goto, Awaiting, Ended
  <2>3. \A d \in Calls : MovesOn(d)
    BY <1>0, <1>3 DEF LogRequest, GetTemplateMissing, GetTemplateMalformed, LogMissing,
                StepWithoutDefinition, LogResponse, RedisFail, Goto, MovesOn, Awaiting
  <2>4. pc' \in [Calls -> Awaiting \cup Ended \cup {"idle"}]
    BY <1>0, <2>2
  <2>5. QED
    BY <2>1, <2>3, <2>4, MovesPreserve
<1>4. ASSUME NEW c \in Calls, GetTemplate(c) PROVE IInv'
  BY <1>4, GetTemplateInv
<1>5. ASSUME NEW c \in Calls, SkipStep(c) PROVE IInv'
  BY <1>5, SkipStepInv
<1>6. ASSUME NEW c \in Calls, AssignStep(c) PROVE IInv'
  BY <1>6, AssignStepInv
<1>7. ASSUME NEW c \in Calls, SaveStep(c) PROVE IInv'
  BY <1>0, <1>7, SaveStepInv DEF SaveStep, Goto, history
<1>8. ASSUME NEW c \in Calls, PushStep(c) PROVE IInv'
  BY <1>0, <1>8, PushStepInv DEF PushStep, LoopsOrWaits
<1>9. ASSUME NEW c \in Calls, SaveInstance(c) PROVE IInv'
  BY <1>0, <1>9, SaveInstanceInv DEF SaveInstance, Goto, history
<1>10. ASSUME NEW c \in Calls, LostReply(c) PROVE IInv'
  <2>1. lost' \in 0..MaxLostReplies
    BY <1>0, <1>10, RouterAssumption DEF LostReply
  <2>2. CASE pc[c] = "saveStep" /\ WriteStep(c) /\ UNCHANGED <<queues, instances, sent>>
    BY <1>10, <2>1, <2>2, SaveStepInv DEF LostReply
  <2>3. CASE pc[c] = "pushStep" /\ WriteQueue(c) /\ CountPush(c) /\ UNCHANGED <<stepHash, instances>>
    BY <1>10, <2>1, <2>3, PushStepInv DEF LostReply, LoopsOrWaits, locals
  <2>4. CASE pc[c] = "saveInstance" /\ WriteInstance(c) /\ UNCHANGED <<stepHash, queues, sent>>
    BY <1>10, <2>1, <2>4, SaveInstanceInv DEF LostReply
  <2>5. QED
    BY <1>10, <2>2, <2>3, <2>4 DEF LostReply
<1>11. CASE Crash
  <2>1. PICK F \in SUBSET {c \in Calls : pc[c] \in Awaiting} :
            pc' = [c \in Calls |-> IF c \in F THEN "crashed" ELSE pc[c]]
    BY <1>11 DEF Crash
  <2>2. pc' \in [Calls -> Awaiting \cup Ended \cup {"idle"}]
    BY <1>0, <2>1 DEF Ended
  <2>3. \A d \in Calls : MovesOn(d)
    BY <2>1 DEF MovesOn, Awaiting
  <2>4. QED
    BY <1>11, <2>2, <2>3, MovesPreserve DEF Crash
<1>12. ASSUME NEW k \in Keys, Configure(k) PROVE IInv'
  BY <1>12, ConfigureInv
<1>13. ASSUME NEW i \in Instances, WorkerPop(i) PROVE IInv'
  BY <1>13, WorkerPopInv
<1>14. QED
  BY <1>1, <1>2, <1>3, <1>4, <1>5, <1>6, <1>7, <1>8, <1>9, <1>10, <1>11, <1>12, <1>13
     DEF Next

\* The inductive invariant holds in every state of every behaviour.
THEOREM InductiveInvariant == Spec => []IInv
<1>1. Init => IInv
  BY InitInv
<1>2. IInv /\ [Next]_vars => IInv'
  BY NextInv
<1>3. QED
  BY <1>1, <1>2, PTL DEF Spec

\* Every variable of routeEvent and of Redis keeps its type: in particular the
\* loop never runs past the template, and a stored workflow instance has an id
\* for each of its steps.
THEOREM TypeCorrect == Spec => []TypeOK
<1>1. IInv => TypeOK
  BY DEF IInv
<1>2. QED
  BY <1>1, InductiveInvariant, PTL

\* The hash of a step is in Redis before any worker can pop the step's item.
THEOREM SavedBeforeQueued == Spec => []QueuedStepsAreSaved
<1>1. IInv => QueuedStepsAreSaved
  BY DEF IInv, QueuedStepsAreSaved, Queued, ItemInv
<1>2. QED
  BY <1>1, InductiveInvariant, PTL

\* A step that routeEvent named is queued where its hash says, for the workflow
\* instance that it is a step of.
THEOREM FreshTraceable == Spec => []FreshStepsAreTraceable
<1>1. IInv => FreshStepsAreTraceable
  BY DEF IInv, FreshStepsAreTraceable, Queued, ItemInv
<1>2. QED
  BY <1>1, InductiveInvariant, PTL

=============================================================================
