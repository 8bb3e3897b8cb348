-------------------------- MODULE WorkflowDispatch --------------------------
(***************************************************************************)
(* What RouterService.routeEvent promises about one workflow, whatever the *)
(* Redis commands it uses: the steps of the workflow are handled one after *)
(* the other, in template order; a step that is handled was sent to a      *)
(* worker or deliberately skipped; the workflow instance is stored only    *)
(* when every step has been handled, and only a stored workflow is         *)
(* reported as started.  A call that fails leaves what it did behind and   *)
(* does nothing more.  WorkflowRouter is shown to implement this module.   *)
(***************************************************************************)
EXTENDS Naturals

CONSTANTS
    Calls,      \* calls of routeEvent
    MaxSteps    \* bound on the number of steps of a workflow

VARIABLES
    phase,      \* progress of each call, as its caller can tell
    plan,       \* number of steps of the workflow the call is routing
    handled,    \* how many of them have been handled, in template order
    sent,       \* positions of the steps a worker was given
    stored      \* is the workflow instance in Redis?

dispatchVars == <<phase, plan, handled, sent, stored>>

Init ==
    /\ phase = [c \in Calls |-> "new"]
    /\ plan = [c \in Calls |-> 0]
    /\ handled = [c \in Calls |-> 0]
    /\ sent = [c \in Calls |-> {}]
    /\ stored = [c \in Calls |-> FALSE]

\* The call learns which workflow it routes.
Plan(c) ==
    /\ phase[c] = "new"
    /\ phase' = [phase EXCEPT ![c] = "routing"]
    /\ \E n \in 0..MaxSteps : plan' = [plan EXCEPT ![c] = n]
    /\ UNCHANGED <<handled, sent, stored>>

\* The next step goes to a worker; the call may not know yet that it did.
Send(c) ==
    /\ phase[c] = "routing"
    /\ handled[c] < plan[c]
    /\ sent' = [sent EXCEPT ![c] = @ \cup {handled[c] + 1}]
    /\ handled' \in {handled, [handled EXCEPT ![c] = @ + 1]}
    /\ UNCHANGED <<phase, plan, stored>>

\* The next step has no worker and is left out.
Skip(c) ==
    /\ phase[c] = "routing"
    /\ handled[c] < plan[c]
    /\ handled' = [handled EXCEPT ![c] = @ + 1]
    /\ UNCHANGED <<phase, plan, sent, stored>>

Store(c) ==
    /\ phase[c] = "routing"
    /\ handled[c] = plan[c]
    /\ stored' = [stored EXCEPT ![c] = TRUE]
    /\ UNCHANGED <<phase, plan, handled, sent>>

Start(c) ==
    /\ phase[c] = "routing"
    /\ stored[c]
    /\ phase' = [phase EXCEPT ![c] = "started"]
    /\ UNCHANGED <<plan, handled, sent, stored>>

\* Some calls end without an answer, or with an error.
Fail ==
    /\ \E F \in SUBSET {c \in Calls : phase[c] \in {"new", "routing"}} :
          phase' = [c \in Calls |-> IF c \in F THEN "failed" ELSE phase[c]]
    /\ UNCHANGED <<plan, handled, sent, stored>>

Next ==
    \/ \E c \in Calls : Plan(c) \/ Send(c) \/ Skip(c) \/ Store(c) \/ Start(c)
    \/ Fail

Spec == Init /\ [][Next]_dispatchVars

=============================================================================
