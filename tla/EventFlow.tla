------------------------------ MODULE EventFlow ------------------------------
(***************************************************************************)
(* An incoming_event on its way through the gateways of a process to       *)
(* routeEvent and back.  Nest binds the handleEvent of every gateway to    *)
(* the socket, so each event is handled by all of them, one right after    *)
(* the other: up to the await of routeEvent nothing but the clock comes in *)
(* between.  Each has its own authenticatedClients and its own limiter     *)
(* (RateLimiter, whose clients are the pairs of a gateway and a socket),   *)
(* but they share the acknowledgement of the event: Socket.IO sends the    *)
(* first answer and drops the others.                                      *)
(*                                                                         *)
(* What routeEvent does is WorkflowRouter's; here it ends one way or       *)
(* another (WorkflowDispatch), at each gateway at a time of its own.       *)
(***************************************************************************)
EXTENDS RateLimiter

CONSTANTS
    Gateways,   \* the instances of WSGateway in a process
    Sockets,
    MaxEvents,  \* bound on the events that are sent
    Nameless    \* those without an event name

Events == 1..MaxEvents  \* in the order they reach the process

ASSUME FlowAssumption ==
    /\ Clients = Gateways \X Sockets /\ Gateways # {}
    /\ MaxEvents \in Nat
    /\ None \notin Sockets \cup Events
    /\ Nameless \subseteq Events

VARIABLES
    sock,       \* the socket an event came from, None before it came
    turn,       \* the event that is being handled, and the gateways still to come
    result,     \* what became of an event at a gateway
    told,       \* the answer the client got, "none" before it
    \* history
    steady,     \* the event in turn: all gateways know its socket or none does,
                \* and the clock has not moved since it came
    fresh,      \* the gateways that opened a window for the event in turn
    diverged,   \* sockets whose windows may differ from gateway to gateway
    split       \* events that found or left their socket diverged

flow == <<sock, turn, result, told, steady, fresh, diverged, split>>
flowVars == <<vars, flow>>

Refusals == {"unauthorized", "limited", "invalid"}
Ends == {"started", "failed"}
NoTurn == [event |-> None, left |-> {}]

FlowInit ==
    /\ Init
    /\ sock = [e \in Events |-> None]
    /\ turn = NoTurn
    /\ result = [e \in Events |-> [g \in Gateways |-> "none"]]
    /\ told = [e \in Events |-> "none"]
    /\ steady = TRUE
    /\ fresh = {}
    /\ diverged = {}
    /\ split = {}

KnownBy(s) == {g \in Gateways : <<g, s>> \in authenticated}

\* The event reaches the process.
Receive(e, s) ==
    /\ turn = NoTurn
    /\ sock[e] = None
    /\ \A f \in 1..(e - 1) : sock[f] # None
    /\ sock' = [sock EXCEPT ![e] = s]
    /\ turn' = [event |-> e, left |-> Gateways]
    /\ steady' = (KnownBy(s) \in {{}, Gateways})
    /\ fresh' = {}
    /\ UNCHANGED <<vars, result, told, diverged, split>>

\* Mutant: an event that could not be routed is answered like one without a name.
AnswerAlike(e, r) ==
    told' = [told EXCEPT ![e] = IF r = "routing" \/ @ # "none" THEN @
                                ELSE IF r = "failed" THEN "invalid" ELSE r]

\* Mutant: the error of routeEvent is not caught.
AnswerUncaught(e, r) ==
    told' = [told EXCEPT ![e] = IF r \notin {"routing", "failed"} /\ @ = "none" THEN r ELSE @]

\* The handler's result is the acknowledgement, if it is the first.
Answer(e, r) == told' = [told EXCEPT ![e] = IF r # "routing" /\ @ = "none" THEN r ELSE @]

\* The gateway has come to r, its answer or "routing", and the next one follows.
Handled(g, e, r) ==
    LET last == turn.left = {g} IN
    /\ result' = [result EXCEPT ![e][g] = r]
    /\ Answer(e, r)
    /\ turn' = IF last THEN NoTurn ELSE [turn EXCEPT !.left = @ \ {g}]
    /\ diverged' = IF ~last THEN diverged
                   ELSE IF ~steady THEN diverged \cup {sock[e]}
                   ELSE IF fresh' = Gateways THEN diverged \ {sock[e]} ELSE diverged
    /\ split' = IF last /\ sock[e] \in diverged' THEN split \cup {e} ELSE split
    /\ UNCHANGED <<sock, steady>>

Turn(g, e) == turn.event = e /\ g \in turn.left

\* !this.authenticatedClients.has(client.id)
Unauthorized(g, e) ==
    /\ Turn(g, e)
    /\ <<g, sock[e]>> \notin authenticated
    /\ UNCHANGED <<vars, fresh>>
    /\ Handled(g, e, "unauthorized")

Limited(g, e) ==
    /\ Turn(g, e)
    /\ Refuse(<<g, sock[e]>>)
    /\ UNCHANGED fresh
    /\ Handled(g, e, "limited")

\* Past the limiter; an event without a name is refused only now.
Passed(g, e) ==
    /\ Turn(g, e)
    /\ \/ NewWindow(<<g, sock[e]>>) /\ fresh' = fresh \cup {g}
       \/ CountEvent(<<g, sock[e]>>) /\ UNCHANGED fresh
    /\ Handled(g, e, IF e \in Nameless THEN "invalid" ELSE "routing")

HandleEvent(g, e) == Unauthorized(g, e) \/ Limited(g, e) \/ Passed(g, e)

\* routeEvent is over: the workflow was started, or its error is caught.
RouteEnds(g, e) ==
    /\ result[e][g] = "routing"
    /\ \E end \in Ends :
          /\ result' = [result EXCEPT ![e][g] = end]
          /\ Answer(e, end)
    /\ UNCHANGED <<vars, sock, turn, steady, fresh, diverged, split>>

\* A gateway has validated the token of a socket.
Authenticated(g, s) ==
    /\ turn = NoTurn
    /\ Authenticate(<<g, s>>)
    /\ UNCHANGED flow

\* Date.now() can move while an event is handled.
ClockMoves ==
    /\ Tick
    /\ steady' = FALSE
    /\ UNCHANGED <<sock, turn, result, told, fresh, diverged, split>>

FlowNext ==
    \/ ClockMoves
    \/ \E s \in Sockets :
          \/ \E e \in Events : Receive(e, s)
          \/ \E g \in Gateways : Authenticated(g, s)
    \/ \E g \in Gateways, e \in Events : HandleEvent(g, e) \/ RouteEnds(g, e)

FlowSpec == FlowInit /\ [][FlowNext]_flowVars

\* The event loop runs every handler, and every call of routeEvent ends
\* (EveryCallEnds of WorkflowRouter).
FairFlowSpec ==
    /\ FlowSpec
    /\ \A g \in Gateways, e \in Events :
          WF_flowVars(HandleEvent(g, e)) /\ WF_flowVars(RouteEnds(g, e))
-----------------------------------------------------------------------------
(***************************************************************************)
(* Properties.                                                             *)
(***************************************************************************)

FlowTypeOK ==
    /\ TypeOK
    /\ sock \in [Events -> Sockets \cup {None}]
    /\ turn \in [event : Events, left : (SUBSET Gateways) \ {{}}] \cup {NoTurn}
    /\ result \in [Events -> [Gateways -> Refusals \cup Ends \cup {"none", "routing"}]]
    /\ told \in [Events -> Refusals \cup Ends \cup {"none"}]
    /\ steady \in BOOLEAN
    /\ fresh \in SUBSET Gateways
    /\ diverged \in SUBSET Sockets
    /\ split \in SUBSET Events

\* Between events the limiters of all gateways hold the same window for a
\* socket, unless only some of them knew it when it sent an event, or the clock
\* moved between two handlers of one event; the next event that opens a window
\* at every gateway ends the difference.
TwinWindows ==
    \A s \in Sockets \ diverged : turn.event = None \/ sock[turn.event] # s =>
        \A g, h \in Gateways : rateLimiter[<<g, s>>] = rateLimiter[<<h, s>>]

\* An event whose client is told that it was refused starts no workflow at any
\* gateway, unless the windows of its socket differed.
RefusedMeansNotRouted ==
    \A e \in Events : told[e] \in Refusals /\ turn.event # e /\ e \notin split =>
        \A g \in Gateways : result[e][g] \in Refusals

\* Every event that reaches the process is answered.
EventsAreAnswered == \A e \in Events : sock[e] # None ~> told[e] # "none"

=============================================================================
