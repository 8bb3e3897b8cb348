-------------------------- MODULE MCWorkflowRouter --------------------------
(***************************************************************************)
(* Small instances of WorkflowRouter.  The event "booking" has a template  *)
(* of two steps, the first with an id of its own (as in README.md), the    *)
(* second without; both are looked up under "notify", whose workers change *)
(* load, disappear and come back.                                          *)
(***************************************************************************)
EXTENDS WorkflowRouter, TLC

CONSTANTS s1, i1, i2    \* a step id of the template, two worker instances

MCKeys == {"booking", "notify"}
MCStepIds == {s1}
MCInstances == {i1, i2}

Template(st) == [steps |-> st, workers |-> <<>>]
Definition(ws) == [steps |-> None, workers |-> ws]

TwoSteps == Template(<<[id |-> s1, key |-> "notify"], [id |-> None, key |-> "notify"]>>)
\* Its second step has no definition object.
BadSecond == Template(<<[id |-> s1, key |-> "notify"], [id |-> None, key |-> None]>>)
\* Its first step has no id, and its second step no definition stored.
FreshFirst == Template(<<[id |-> None, key |-> "notify"], [id |-> s1, key |-> "booking"]>>)

\* The first worker is idler, both are equally loaded, the second is idler.
Loads(a, b) == Definition(<<[instance |-> i1, threads |-> a],
                            [instance |-> i2, threads |-> b]>>)

\* The workers' loads change, the workers vanish and come back.
MCCatalog ==
    [k \in MCKeys |->
        IF k = "booking" THEN {TwoSteps}
        ELSE {Loads(1, 2), Loads(2, 1), Definition(<<>>)}]

\* Templates of other shapes, and a definition that is stored late.
OtherCatalog ==
    [k \in MCKeys |->
        IF k = "booking" THEN {FreshFirst, BadSecond, Template(<<>>)}
        ELSE {None, Loads(1, 1)}]

Symmetric == Permutations(Calls)
=============================================================================
