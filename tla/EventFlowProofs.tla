--------------------------- MODULE EventFlowProofs ---------------------------
(***************************************************************************)
(* Theorems of EventFlow, for any gateways, sockets and events, any Limit  *)
(* and Window: the gateways' limiters are those of RateLimiter, they keep  *)
(* in step, and so a client that is told no started nothing.               *)
(***************************************************************************)
EXTENDS EventFlow, RateLimiterProofs

\* The socket of the event in turn is known, and no gateway still to come has a
\* result.
TurnInv ==
    /\ turn.event # None => sock[turn.event] # None
    /\ \A e \in Events :
          /\ sock[e] = None => \A g \in Gateways : result[e][g] = "none"
          /\ sock[e] # None => \A g \in Gateways :
                result[e][g] = "none" <=> turn.event = e /\ g \in turn.left

FreshWindow == [count |-> 1, resetTime |-> now + Window]

\* Whether an event finds the window over, and whether it is refused.
Over(w) == w # None => now > w.resetTime
Closed(w) == ~Over(w) /\ w.count >= Limit

\* The window an event of socket s leaves where it finds w.
After(s, w) ==
    IF KnownBy(s) = {} \/ Closed(w) THEN w
    ELSE IF Over(w) THEN FreshWindow
    ELSE [count |-> w.count + 1, resetTime |-> w.resetTime]

Same(s, gates) == \A g, h \in gates : rateLimiter[<<g, s>>] = rateLimiter[<<h, s>>]

Waiting(s) == turn.event = None \/ sock[turn.event] # s

(***************************************************************************)
(* While an event is handled by one gateway after the other, the windows   *)
(* of those that are done differ from those of the others by just this     *)
(* event.                                                                  *)
(***************************************************************************)
TwinInv ==
    /\ \A s \in Sockets \ diverged : Waiting(s) => Same(s, Gateways)
    /\ turn.event # None /\ steady =>
          LET s == sock[turn.event] IN
          /\ KnownBy(s) \in {{}, Gateways}
          /\ fresh \subseteq Gateways \ turn.left
          /\ \A g \in fresh : rateLimiter[<<g, s>>] = FreshWindow
          /\ s \notin diverged =>
                /\ Same(s, turn.left)
                /\ \A g \in Gateways \ turn.left, h \in turn.left :
                      rateLimiter[<<g, s>>] = After(s, rateLimiter[<<h, s>>])

\* A socket whose window is w is told no.
ToldNo(s, e, w) == KnownBy(s) = {} \/ Closed(w) \/ e \in Nameless

(***************************************************************************)
(* The gateways agree on an event: of the event in turn, those that are    *)
(* done have done what the others are about to do.                         *)
(***************************************************************************)
AgreeInv ==
    /\ \A e \in Events : told[e] \in Refusals => \E g \in Gateways : result[e][g] \in Refusals
    /\ \A e \in Events \ split : turn.event # e =>
          \A g, h \in Gateways : result[e][g] \in Refusals => result[e][h] \in Refusals
    /\ turn.event # None /\ steady =>
          LET e == turn.event
              s == sock[e] IN
          /\ \A g \in fresh : result[e][g] \in Refusals <=> e \in Nameless
          /\ s \notin diverged =>
                \A g \in Gateways \ turn.left, h \in turn.left :
                    result[e][g] \in Refusals <=> ToldNo(s, e, rateLimiter[<<h, s>>])

FlowInv == LimiterInv /\ FlowTypeOK /\ TurnInv /\ TwinInv /\ AgreeInv

-----------------------------------------------------------------------------
LEMMA InitFlow ==
    ASSUME FlowInit PROVE FlowInv
<1>1. LimiterInv
  BY InitLimiter DEF FlowInit
<1>2. FlowTypeOK
  BY <1>1, FlowAssumption DEF FlowInit, FlowTypeOK, LimiterInv
<1>3. TurnInv
  BY FlowAssumption DEF FlowInit, TurnInv, NoTurn
<1>4. \A g \in Gateways, s \in Sockets : rateLimiter[<<g, s>>] = None
  BY FlowAssumption DEF FlowInit, Init
<1>5. TwinInv /\ AgreeInv
  BY <1>4, FlowAssumption DEF FlowInit, TwinInv, AgreeInv, Same, NoTurn, Refusals
<1>6. QED
  BY <1>1, <1>2, <1>3, <1>5 DEF FlowInv

\* What is in turn.
LEMMA TurnFacts ==
    ASSUME FlowTypeOK, TurnInv
    PROVE  \/ turn = NoTurn /\ turn.event = None /\ turn.left = {}
           \/ /\ turn.event \in Events /\ turn.event # None
              /\ turn.left \subseteq Gateways /\ turn.left # {}
              /\ sock[turn.event] \in Sockets
              /\ turn # NoTurn
<1>1. CASE turn = NoTurn
  BY <1>1 DEF NoTurn
<1>2. CASE turn \in [event : Events, left : (SUBSET Gateways) \ {{}}]
  <2>1. turn.event \in Events /\ turn.event # None
    BY <1>2, FlowAssumption
  <2>2. turn.left \subseteq Gateways /\ turn.left # {} /\ turn # NoTurn
    BY <1>2 DEF NoTurn
  <2>3. sock[turn.event] \in Sockets
    BY <2>1 DEF FlowTypeOK, TurnInv
  <2>4. QED
    BY <2>1, <2>2, <2>3
<1>3. QED
  BY <1>1, <1>2 DEF FlowTypeOK

(***************************************************************************)
(* A step of the flow is a step of the limiter, or leaves it alone.        *)
(***************************************************************************)
LEMMA FlowStep ==
    ASSUME FlowTypeOK, [FlowNext]_flowVars
    PROVE  [Next]_vars
<1>1. CASE UNCHANGED flowVars
  BY <1>1 DEF flowVars
<1>2. CASE ClockMoves
  BY <1>2 DEF ClockMoves, Next
<1>3. ASSUME NEW s \in Sockets, NEW e \in Events, Receive(e, s) PROVE [Next]_vars
  BY <1>3 DEF Receive
<1>4. ASSUME NEW s \in Sockets, NEW g \in Gateways, Authenticated(g, s) PROVE [Next]_vars
  BY <1>4, FlowAssumption DEF Authenticated, Next
<1>5. ASSUME NEW g \in Gateways, NEW e \in Events, RouteEnds(g, e) PROVE [Next]_vars
  BY <1>5 DEF RouteEnds
<1>6. ASSUME NEW g \in Gateways, NEW e \in Events, HandleEvent(g, e) PROVE [Next]_vars
  <2>1. CASE Unauthorized(g, e)
    BY <2>1 DEF Unauthorized
  <2>2. CASE Limited(g, e) \/ Passed(g, e)
    <3>1. <<g, sock[e]>> \in Clients
      BY <2>2 DEF Limited, Passed, Refuse, NewWindow, CountEvent, FlowTypeOK, TypeOK
    <3>2. QED
      BY <2>2, <3>1 DEF Limited, Passed, Next
  <2>3. QED
    BY <1>6, <2>1, <2>2 DEF HandleEvent
<1>7. QED
  BY <1>1, <1>2, <1>3, <1>4, <1>5, <1>6 DEF FlowNext

-----------------------------------------------------------------------------
(***************************************************************************)
(* What a gateway does with an event.                                      *)
(***************************************************************************)
LEMMA Handling ==
    ASSUME FlowTypeOK, TurnInv, NEW g \in Gateways, NEW e \in Events, HandleEvent(g, e)
    PROVE  /\ turn.event = e /\ g \in turn.left /\ turn.left \subseteq Gateways
           /\ sock[e] \in Sockets
           /\ UNCHANGED <<now, authenticated, sock, steady>>
           /\ \E r \in Refusals \cup {"routing"} : Handled(g, e, r)
<1>1. turn.event = e /\ g \in turn.left /\ e # None
  BY FlowAssumption DEF HandleEvent, Unauthorized, Limited, Passed, Turn
<1>2. \E r \in Refusals \cup {"routing"} : Handled(g, e, r)
  BY DEF HandleEvent, Unauthorized, Limited, Passed, Refusals
<1>3. UNCHANGED <<sock, steady>>
  BY <1>2 DEF Handled
<1>4. UNCHANGED <<now, authenticated>>
  BY DEF HandleEvent, Unauthorized, Limited, Passed, Refuse, NewWindow, CountEvent, vars
<1>5. QED
  BY <1>1, <1>2, <1>3, <1>4, TurnFacts

\* The window it leaves, and what it answers, depend on the window it finds.
LEMMA HandlingWindow ==
    ASSUME FlowTypeOK, TurnInv, NEW g \in Gateways, NEW e \in Events, HandleEvent(g, e),
           KnownBy(sock[e]) \in {{}, Gateways}
    PROVE  LET s == sock[e]
               w == rateLimiter[<<g, s>>] IN
           /\ rateLimiter'[<<g, s>>] = After(s, w)
           /\ \A h \in Gateways, t \in Sockets :
                 h # g \/ t # s => rateLimiter'[<<h, t>>] = rateLimiter[<<h, t>>]
           /\ \/ fresh' = fresh
              \/ fresh' = fresh \cup {g} /\ rateLimiter'[<<g, s>>] = FreshWindow
           /\ \E r \in Refusals \cup {"routing"} :
                 /\ Handled(g, e, r)
                 /\ r \in Refusals <=> ToldNo(s, e, w)
                 /\ fresh' # fresh => (r \in Refusals <=> e \in Nameless)
<1> DEFINE s == sock[e]
           w == rateLimiter[<<g, s>>]
<1>1. s \in Sockets /\ <<g, s>> \in Clients
  BY Handling, FlowAssumption
<1>2. \A h \in Gateways, t \in Sockets :
          <<h, t>> \in Clients /\ (h # g \/ t # s => <<h, t>> # <<g, s>>)
  BY FlowAssumption
<1>3. rateLimiter \in [Clients -> WindowRecord \cup {None}]
  BY DEF FlowTypeOK, TypeOK
<1>4. <<g, s>> \in authenticated <=> KnownBy(s) # {}
  BY <1>1 DEF KnownBy
<1>5. Expired(<<g, s>>) <=> Over(w)
  BY DEF Expired, Over
<1>6. Full(<<g, s>>) <=> w.count >= Limit
  BY DEF Full
<1> HIDE DEF w
<1>7. CASE Unauthorized(g, e)
  <2>1. KnownBy(s) = {} /\ UNCHANGED <<rateLimiter, fresh>> /\ Handled(g, e, "unauthorized")
    BY <1>4, <1>7 DEF Unauthorized, vars
  <2>2. QED
    BY <2>1 DEF After, ToldNo, Refusals, w
<1>8. CASE Limited(g, e)
  <2>1. /\ Closed(w) /\ UNCHANGED <<rateLimiter, fresh>> /\ Handled(g, e, "limited")
    BY <1>5, <1>6, <1>8 DEF Limited, Refuse, Closed
  <2>2. QED
    BY <2>1 DEF After, ToldNo, Refusals, w
<1>9. CASE Passed(g, e)
  <2>1. KnownBy(s) # {} /\ Handled(g, e, IF e \in Nameless THEN "invalid" ELSE "routing")
    BY <1>4, <1>9 DEF Passed, NewWindow, CountEvent
  <2>2. CASE NewWindow(<<g, s>>) /\ fresh' = fresh \cup {g}
    <3>1. Over(w) /\ ~Closed(w)
      BY <1>5, <2>2 DEF NewWindow, Closed
    <3>2. rateLimiter' = [rateLimiter EXCEPT ![<<g, s>>] = FreshWindow]
      BY <2>2 DEF NewWindow, OpenWindow, FreshWindow
    <3>3. /\ rateLimiter'[<<g, s>>] = FreshWindow
          /\ \A h \in Gateways, t \in Sockets :
                h # g \/ t # s => rateLimiter'[<<h, t>>] = rateLimiter[<<h, t>>]
      BY <1>1, <1>2, <1>3, <3>2
    <3>4. QED
      BY <2>1, <2>2, <3>1, <3>3 DEF After, ToldNo, Refusals, w
  <2>3. CASE CountEvent(<<g, s>>) /\ UNCHANGED fresh
    <3>1. ~Over(w) /\ ~Closed(w)
      BY <1>5, <1>6, <2>3 DEF CountEvent, Closed
    <3>2. rateLimiter' = [rateLimiter EXCEPT ![<<g, s>>] =
                              [count |-> w.count + 1, resetTime |-> w.resetTime]]
      BY <2>3 DEF CountEvent, w
    <3>3. /\ rateLimiter'[<<g, s>>] = [count |-> w.count + 1, resetTime |-> w.resetTime]
          /\ \A h \in Gateways, t \in Sockets :
                h # g \/ t # s => rateLimiter'[<<h, t>>] = rateLimiter[<<h, t>>]
      BY <1>1, <1>2, <1>3, <3>2
    <3>4. QED
      BY <2>1, <2>3, <3>1, <3>3 DEF After, ToldNo, Refusals, w
  <2>4. QED
    BY <1>9, <2>2, <2>3 DEF Passed
<1>10. QED
  BY <1>7, <1>8, <1>9 DEF HandleEvent

-----------------------------------------------------------------------------
(***************************************************************************)
(* Types and turns.                                                        *)
(***************************************************************************)
FlowSteps ==
    \/ UNCHANGED flowVars
    \/ ClockMoves
    \/ \E s \in Sockets, e \in Events : Receive(e, s)
    \/ \E s \in Sockets, g \in Gateways : Authenticated(g, s)
    \/ \E g \in Gateways, e \in Events : HandleEvent(g, e)
    \/ \E g \in Gateways, e \in Events : RouteEnds(g, e)

LEMMA StepForms ==
    ASSUME [FlowNext]_flowVars PROVE FlowSteps
BY DEF FlowNext, FlowSteps

LEMMA NextFlowTypes ==
    ASSUME FlowTypeOK, TurnInv, TypeOK', FlowSteps
    PROVE  FlowTypeOK'
<1>1. CASE UNCHANGED flow
  BY <1>1 DEF flow, FlowTypeOK
<1>2. CASE ClockMoves
  BY <1>2 DEF ClockMoves, FlowTypeOK
<1>3. ASSUME NEW s \in Sockets, NEW e \in Events, Receive(e, s) PROVE FlowTypeOK'
  <2>1. turn' \in [event : Events, left : (SUBSET Gateways) \ {{}}]
    BY <1>3, FlowAssumption DEF Receive
  <2>2. QED
    BY <1>3, <2>1 DEF Receive, FlowTypeOK
<1>4. ASSUME NEW g \in Gateways, NEW e \in Events, HandleEvent(g, e) PROVE FlowTypeOK'
  <2>1. PICK r \in Refusals \cup {"routing"} : Handled(g, e, r)
    BY <1>4, Handling
  <2>2. turn.event = e /\ g \in turn.left /\ turn.left \subseteq Gateways /\ sock[e] \in Sockets
    BY <1>4, Handling
  <2>3. turn' \in [event : Events, left : (SUBSET Gateways) \ {{}}] \cup {NoTurn}
    <3>1. CASE turn.left = {g}
      BY <2>1, <3>1 DEF Handled
    <3>2. CASE turn.left # {g}
      <4>1. turn \in [event : Events, left : (SUBSET Gateways) \ {{}}]
        BY <2>2 DEF FlowTypeOK, NoTurn
      <4>2. turn.left \ {g} \in (SUBSET Gateways) \ {{}}
        BY <2>2, <3>2
      <4>3. turn' = [turn EXCEPT !.left = turn.left \ {g}]
        BY <2>1, <3>2 DEF Handled
      <4>4. QED
        BY <4>1, <4>2, <4>3
    <3>3. QED
      BY <3>1, <3>2
  <2>4. result' \in [Events -> [Gateways -> Refusals \cup Ends \cup {"none", "routing"}]]
    BY <2>1 DEF Handled, FlowTypeOK
  <2>5. told' \in [Events -> Refusals \cup Ends \cup {"none"}]
    BY <2>1 DEF Handled, Answer, FlowTypeOK, Refusals
  <2>6. diverged' \in SUBSET Sockets /\ split' \in SUBSET Events
    <3>1. diverged' \in SUBSET Sockets
      BY <2>1, <2>2 DEF Handled, FlowTypeOK
    <3>2. split' = split \/ split' = split \cup {e}
      BY <2>1 DEF Handled
    <3>3. QED
      BY <3>1, <3>2 DEF FlowTypeOK
  <2>7. fresh' \in SUBSET Gateways
    BY <1>4 DEF HandleEvent, Unauthorized, Limited, Passed, FlowTypeOK
  <2>8. UNCHANGED <<sock, steady>>
    BY <2>1 DEF Handled
  <2>9. QED
    BY <2>3, <2>4, <2>5, <2>6, <2>7, <2>8 DEF FlowTypeOK
<1>5. ASSUME NEW g \in Gateways, NEW e \in Events, RouteEnds(g, e) PROVE FlowTypeOK'
  <2>1. PICK end \in Ends :
            /\ result' = [result EXCEPT ![e][g] = end]
            /\ Answer(e, end)
    BY <1>5 DEF RouteEnds
  <2>2. result' \in [Events -> [Gateways -> Refusals \cup Ends \cup {"none", "routing"}]]
    BY <2>1 DEF FlowTypeOK
  <2>3. told' \in [Events -> Refusals \cup Ends \cup {"none"}]
    BY <2>1 DEF Answer, FlowTypeOK, Ends
  <2>4. QED
    BY <1>5, <2>2, <2>3 DEF RouteEnds, FlowTypeOK
<1>6. QED
  BY <1>1, <1>2, <1>3, <1>4, <1>5 DEF FlowSteps, Authenticated, flowVars

\* A result is set once; after "routing" it is an end.
LEMMA HandledResult ==
    ASSUME FlowTypeOK, NEW g \in Gateways, NEW e \in Events,
           NEW r \in Refusals \cup {"routing"}, Handled(g, e, r)
    PROVE  /\ result'[e][g] = r
           /\ \A f \in Events, h \in Gateways :
                 f # e \/ h # g => result'[f][h] = result[f][h]
           /\ told'[e] = told[e] \/ told'[e] = r
           /\ \A f \in Events : f # e => told'[f] = told[f]
BY DEF Handled, Answer, FlowTypeOK

LEMMA RoutedResult ==
    ASSUME FlowTypeOK, NEW g \in Gateways, NEW e \in Events, RouteEnds(g, e)
    PROVE  /\ \A f \in Events, h \in Gateways :
                 /\ result'[f][h] \in Refusals <=> result[f][h] \in Refusals
                 /\ result'[f][h] = "none" <=> result[f][h] = "none"
           /\ \A f \in Events : told'[f] \in Refusals => told[f] \in Refusals
           /\ UNCHANGED <<vars, sock, turn, steady, fresh, diverged, split>>
<1>1. PICK end \in Ends :
          /\ result' = [result EXCEPT ![e][g] = end]
          /\ Answer(e, end)
  BY DEF RouteEnds
<1>2. result[e][g] = "routing" /\ UNCHANGED <<vars, sock, turn, steady, fresh, diverged, split>>
  BY DEF RouteEnds
<1>3. end \notin Refusals /\ end # "none" /\ "routing" \notin Refusals
  BY DEF Refusals, Ends
<1>4. result'[e][g] = end /\ \A f \in Events, h \in Gateways :
          f # e \/ h # g => result'[f][h] = result[f][h]
  BY <1>1 DEF FlowTypeOK
<1>5. \A f \in Events : told'[f] \in Refusals => told[f] \in Refusals
  BY <1>1, <1>3 DEF Answer, FlowTypeOK
<1>6. QED
  BY <1>2, <1>3, <1>4, <1>5

\* After a gateway's turn it is the next one's, or the event is over.
LEMMA HandledTurn ==
    ASSUME FlowTypeOK, TurnInv, NEW g \in Gateways, NEW e \in Events, HandleEvent(g, e)
    PROVE  \/ turn.left = {g} /\ turn' = NoTurn
           \/ turn.left # {g} /\ turn'.event = e /\ turn'.left = turn.left \ {g}
<1>1. PICK r \in Refusals \cup {"routing"} : Handled(g, e, r)
  BY Handling
<1>2. turn.event = e /\ g \in turn.left
  BY Handling
<1>3. turn \in [event : Events, left : (SUBSET Gateways) \ {{}}]
  BY <1>2 DEF FlowTypeOK, NoTurn
<1>4. QED
  BY <1>1, <1>2, <1>3 DEF Handled

LEMMA NextTurn ==
    ASSUME FlowTypeOK, TurnInv, FlowSteps
    PROVE  TurnInv'
<1>1. CASE UNCHANGED flow
  BY <1>1 DEF flow, TurnInv
<1>2. CASE ClockMoves
  BY <1>2 DEF ClockMoves, TurnInv
<1>3. ASSUME NEW s \in Sockets, NEW e \in Events, Receive(e, s) PROVE TurnInv'
  <2>1. /\ turn = NoTurn /\ turn.event = None /\ turn'.event = e /\ turn'.left = Gateways
        /\ sock[e] = None /\ sock'[e] = s /\ s # None
        /\ \A f \in Events : f # e => sock'[f] = sock[f]
        /\ result' = result
    BY <1>3, FlowAssumption DEF Receive, NoTurn, FlowTypeOK
  <2>2. \A f \in Events : f # None
    BY FlowAssumption
  <2>3. QED
    BY <2>1, <2>2 DEF TurnInv
<1>4. ASSUME NEW g \in Gateways, NEW e \in Events, HandleEvent(g, e) PROVE TurnInv'
  <2>1. PICK r \in Refusals \cup {"routing"} : Handled(g, e, r)
    BY <1>4, Handling
  <2>2. /\ turn.event = e /\ g \in turn.left /\ sock' = sock /\ sock[e] # None /\ r # "none"
        /\ turn.left \subseteq Gateways
    BY <1>4, Handling, FlowAssumption DEF Refusals
  <2>3. /\ result'[e][g] = r
        /\ \A f \in Events, h \in Gateways : f # e \/ h # g => result'[f][h] = result[f][h]
    BY <2>1, HandledResult
  <2>4. CASE turn.left = {g} /\ turn' = NoTurn
    <3>1. turn'.event = None
      BY <2>4 DEF NoTurn
    <3>2. \A f \in Events : f # None
      BY FlowAssumption
    <3>3. QED
      BY <2>2, <2>3, <2>4, <3>1, <3>2 DEF TurnInv
  <2>5. CASE turn.left # {g} /\ turn'.event = e /\ turn'.left = turn.left \ {g}
    BY <2>2, <2>3, <2>5 DEF TurnInv
  <2>6. QED
    BY <1>4, <2>4, <2>5, HandledTurn
<1>5. ASSUME NEW g \in Gateways, NEW e \in Events, RouteEnds(g, e) PROVE TurnInv'
  BY <1>5, RoutedResult DEF TurnInv
<1>6. QED
  BY <1>1, <1>2, <1>3, <1>4, <1>5 DEF FlowSteps, Authenticated, flowVars

-----------------------------------------------------------------------------
(***************************************************************************)
(* The windows of a socket.                                                *)
(***************************************************************************)
LEMMA TwinFrame ==
    ASSUME TwinInv,
           UNCHANGED <<now, authenticated, rateLimiter, sock, turn, steady, fresh, diverged>>
    PROVE  TwinInv'
<1>1. FreshWindow' = FreshWindow /\ \A s : KnownBy(s)' = KnownBy(s)
  BY DEF FreshWindow, KnownBy
<1>2. \A s, w : After(s, w)' = After(s, w)
  BY <1>1 DEF After, Over, Closed
<1>3. QED
  BY <1>1, <1>2 DEF TwinInv, Waiting, Same

\* The last gateway has handled the event: the windows of its socket are the
\* same at all of them, or the socket is diverged.
LEMMA LastTwin ==
    ASSUME FlowTypeOK, TurnInv, TwinInv, NEW g \in Gateways, NEW e \in Events,
           HandleEvent(g, e), turn.left = {g}, sock[e] \notin diverged'
    PROVE  /\ Same(sock[e], Gateways)'
           /\ steady
           /\ sock[e] \in diverged => fresh' = Gateways
<1> DEFINE s == sock[e]
<1>1. /\ turn.event = e /\ s \in Sockets /\ e # None
      /\ UNCHANGED <<now, authenticated, sock, steady>>
  BY Handling, FlowAssumption
<1>2. PICK q \in Refusals \cup {"routing"} : Handled(g, e, q)
  BY Handling
<1>3. steady
  BY <1>1, <1>2 DEF Handled
<1>4. KnownBy(s) \in {{}, Gateways} /\ turn.event # None
  BY <1>1, <1>3 DEF TwinInv
<1>5. s \in diverged => fresh' = Gateways
  BY <1>2, <1>3 DEF Handled
<1>6. /\ rateLimiter'[<<g, s>>] = After(s, rateLimiter[<<g, s>>])
      /\ \A h \in Gateways : h # g => rateLimiter'[<<h, s>>] = rateLimiter[<<h, s>>]
      /\ \/ fresh' = fresh
         \/ fresh' = fresh \cup {g} /\ rateLimiter'[<<g, s>>] = FreshWindow
  BY <1>1, <1>4, HandlingWindow
<1>7. CASE s \notin diverged
  <2>1. \A h \in Gateways : h # g => rateLimiter[<<h, s>>] = After(s, rateLimiter[<<g, s>>])
    BY <1>1, <1>3, <1>4, <1>7 DEF TwinInv
  <2>2. \A h \in Gateways : rateLimiter'[<<h, s>>] = After(s, rateLimiter[<<g, s>>])
    BY <1>6, <2>1
  <2>3. QED
    BY <1>1, <1>3, <1>7, <2>2 DEF Same
<1>8. CASE s \in diverged
  <2>1. fresh' = Gateways /\ fresh \subseteq Gateways \ turn.left
    BY <1>1, <1>3, <1>4, <1>5, <1>8 DEF TwinInv
  <2>2. fresh' = fresh \cup {g} /\ rateLimiter'[<<g, s>>] = FreshWindow
    BY <1>6, <2>1
  <2>3. \A h \in Gateways : h # g => rateLimiter'[<<h, s>>] = FreshWindow
    BY <1>1, <1>3, <1>4, <1>6, <2>1, <2>2 DEF TwinInv
  <2>4. QED
    BY <1>1, <1>3, <1>5, <2>2, <2>3 DEF Same
<1>9. QED
  BY <1>7, <1>8

LEMMA HandleTwin ==
    ASSUME FlowTypeOK, TurnInv, TwinInv, NEW g \in Gateways, NEW e \in Events,
           HandleEvent(g, e)
    PROVE  TwinInv'
<1> DEFINE s == sock[e]
<1>1. /\ turn.event = e /\ g \in turn.left /\ turn.left \subseteq Gateways /\ s \in Sockets
      /\ UNCHANGED <<now, authenticated, sock, steady>>
      /\ e # None
  BY Handling, FlowAssumption
<1>2. PICK r \in Refusals \cup {"routing"} : Handled(g, e, r)
  BY Handling
<1>3. \A t \in Sockets \ {s}, h \in Gateways :
          rateLimiter'[<<h, t>>] = rateLimiter[<<h, t>>]
  <2>1. CASE Unauthorized(g, e)
    BY <2>1 DEF Unauthorized, vars
  <2>2. CASE Limited(g, e)
    BY <2>2 DEF Limited, Refuse
  <2>3. CASE Passed(g, e)
    BY <2>3, FlowAssumption
       DEF Passed, NewWindow, OpenWindow, CountEvent, FlowTypeOK, TypeOK
  <2>4. QED
    BY <2>1, <2>2, <2>3 DEF HandleEvent
<1>4. ASSUME NEW t \in Sockets \ diverged', t # s PROVE Same(t, Gateways)'
  <2>1. t \notin diverged
    BY <1>1, <1>2, <1>4 DEF Handled
  <2>2. Same(t, Gateways)
    BY <1>1, <1>4, <2>1 DEF TwinInv, Waiting
  <2>3. QED
    BY <1>3, <1>4, <2>2 DEF Same
<1>5. CASE turn.left = {g} /\ turn' = NoTurn
  <2>1. turn'.event = None
    BY <1>5 DEF NoTurn
  <2>2. s \in Sockets \ diverged' => Same(s, Gateways)'
    BY <1>5, LastTwin
  <2>3. ASSUME NEW t \in Sockets \ diverged' PROVE Same(t, Gateways)'
    <3>1. CASE t = s
      BY <1>1, <2>2, <2>3, <3>1 DEF Same
    <3>2. CASE t # s
      BY <1>4, <2>3, <3>2
    <3>3. QED
      BY <3>1, <3>2
  <2>4. QED
    BY <2>1, <2>3 DEF TwinInv
<1>6. CASE turn.left # {g} /\ turn'.event = e /\ turn'.left = turn.left \ {g}
  <2>1. diverged' = diverged
    BY <1>2, <1>6 DEF Handled
  <2>2. ~Waiting(s)'
    BY <1>1, <1>6 DEF Waiting
  <2>3. SUFFICES ASSUME steady
                 PROVE  /\ KnownBy(s)' \in {{}, Gateways}
                        /\ fresh' \subseteq Gateways \ turn'.left
                        /\ \A h \in fresh' : rateLimiter'[<<h, s>>] = FreshWindow'
                        /\ s \notin diverged =>
                              /\ Same(s, turn.left)'
                              /\ \A h \in Gateways \ turn'.left, i \in turn'.left :
                                    rateLimiter'[<<h, s>>] = After(s, rateLimiter[<<i, s>>])'
    BY <1>1, <1>4, <1>6, <2>1, <2>2 DEF TwinInv, Waiting, Same
  <2>4. /\ KnownBy(s) \in {{}, Gateways} /\ fresh \subseteq Gateways \ turn.left
        /\ \A h \in fresh : rateLimiter[<<h, s>>] = FreshWindow
    BY <1>1, <2>3 DEF TwinInv
  <2>5. /\ rateLimiter'[<<g, s>>] = After(s, rateLimiter[<<g, s>>])
        /\ \A h \in Gateways : h # g => rateLimiter'[<<h, s>>] = rateLimiter[<<h, s>>]
        /\ \/ fresh' = fresh
           \/ fresh' = fresh \cup {g} /\ rateLimiter'[<<g, s>>] = FreshWindow
    BY <1>1, <2>4, HandlingWindow
  <2>6. KnownBy(s)' = KnownBy(s) /\ FreshWindow' = FreshWindow
    BY <1>1 DEF KnownBy, FreshWindow
  <2>7. fresh' \subseteq Gateways \ turn'.left
    BY <1>1, <1>6, <2>4, <2>5
  <2>8. \A h \in fresh' : rateLimiter'[<<h, s>>] = FreshWindow'
    BY <1>1, <2>4, <2>5, <2>6
  <2>9. ASSUME s \notin diverged
        PROVE  /\ Same(s, turn.left)'
               /\ \A h \in Gateways \ turn'.left, i \in turn'.left :
                     rateLimiter'[<<h, s>>] = After(s, rateLimiter[<<i, s>>])'
    <3>1. /\ Same(s, turn.left)
          /\ \A h \in Gateways \ turn.left, i \in turn.left :
                rateLimiter[<<h, s>>] = After(s, rateLimiter[<<i, s>>])
      BY <1>1, <2>3, <2>9 DEF TwinInv
    <3>2. \A h, i \in turn.left \ {g} : rateLimiter'[<<h, s>>] = rateLimiter'[<<i, s>>]
      BY <1>1, <2>5, <3>1 DEF Same
    <3>3. ASSUME NEW h \in Gateways \ turn'.left, NEW i \in turn'.left
          PROVE  rateLimiter'[<<h, s>>] = After(s, rateLimiter[<<i, s>>])'
      <4>1. i \in turn.left /\ i # g /\ (h = g \/ (h # g /\ h \notin turn.left))
        BY <1>6, <3>3
      <4>2. rateLimiter'[<<i, s>>] = rateLimiter[<<i, s>>]
        BY <1>1, <2>5, <4>1
      <4>3. After(s, rateLimiter[<<i, s>>])' = After(s, rateLimiter[<<i, s>>])
        BY <1>1, <2>6, <4>2 DEF After, Over, Closed
      <4>4. rateLimiter[<<g, s>>] = rateLimiter[<<i, s>>]
        BY <1>1, <3>1, <4>1 DEF Same
      <4>5. QED
        BY <2>5, <3>1, <3>3, <4>1, <4>3, <4>4
    <3>4. Same(s, turn.left)'
      BY <1>1, <1>6, <3>2 DEF Same
    <3>5. QED
      BY <3>3, <3>4
  <2>10. QED
    BY <2>4, <2>6, <2>7, <2>8, <2>9
<1>7. QED
  BY <1>5, <1>6, HandledTurn

LEMMA NextTwin ==
    ASSUME FlowTypeOK, TurnInv, TwinInv, FlowSteps
    PROVE  TwinInv'
<1>1. CASE UNCHANGED flowVars
  BY <1>1, TwinFrame DEF flowVars, flow, vars
<1>2. CASE ClockMoves
  BY <1>2 DEF ClockMoves, Tick, TwinInv, Waiting, Same
<1>3. ASSUME NEW s \in Sockets, NEW e \in Events, Receive(e, s) PROVE TwinInv'
  <2>1. /\ turn.event = None /\ turn'.event = e /\ turn'.left = Gateways /\ e # None
        /\ sock'[e] = s /\ fresh' = {} /\ steady' = (KnownBy(s) \in {{}, Gateways})
        /\ UNCHANGED <<now, authenticated, rateLimiter, diverged>>
    BY <1>3, FlowAssumption DEF Receive, NoTurn, FlowTypeOK, vars
  <2>2. \A t \in Sockets \ diverged : Same(t, Gateways)
    BY <2>1 DEF TwinInv, Waiting
  <2>3. KnownBy(s)' = KnownBy(s)
    BY <2>1 DEF KnownBy
  <2>4. \A t \in Sockets \ diverged : Same(t, Gateways)'
    BY <2>1, <2>2 DEF Same
  <2>5. QED
    BY <2>1, <2>3, <2>4 DEF TwinInv, Same
<1>4. ASSUME NEW s \in Sockets, NEW g \in Gateways, Authenticated(g, s) PROVE TwinInv'
  <2>1. turn.event = None /\ turn'.event = None /\ UNCHANGED <<rateLimiter, sock, diverged>>
    BY <1>4 DEF Authenticated, Authenticate, NoTurn, flow
  <2>2. QED
    BY <2>1 DEF TwinInv, Waiting, Same
<1>5. ASSUME NEW g \in Gateways, NEW e \in Events, RouteEnds(g, e) PROVE TwinInv'
  BY <1>5, TwinFrame DEF RouteEnds, vars
<1>6. QED
  BY <1>1, <1>2, <1>3, <1>4, <1>5, HandleTwin DEF FlowSteps

-----------------------------------------------------------------------------
(***************************************************************************)
(* The results of an event.                                                *)
(***************************************************************************)
LEMMA AgreeFrame ==
    ASSUME AgreeInv, FlowTypeOK,
           UNCHANGED <<now, authenticated, rateLimiter, sock, turn, steady, fresh, diverged, split>>,
           \A f \in Events : told'[f] \in Refusals => told[f] \in Refusals,
           \A f \in Events, h \in Gateways :
               result'[f][h] \in Refusals <=> result[f][h] \in Refusals
    PROVE  AgreeInv'
<1>1. \A s : KnownBy(s)' = KnownBy(s)
  BY DEF KnownBy
<1>2. \A s, e, w : ToldNo(s, e, w)' <=> ToldNo(s, e, w)
  BY <1>1 DEF ToldNo, Over, Closed
<1>3. turn.event # None => turn.event \in Events /\ turn.left \subseteq Gateways
  BY FlowAssumption DEF FlowTypeOK, NoTurn
<1>4. fresh \subseteq Gateways
  BY DEF FlowTypeOK
<1>5. QED
  BY <1>1, <1>2, <1>3, <1>4 DEF AgreeInv

LEMMA HandleAgree ==
    ASSUME FlowTypeOK, TurnInv, TwinInv, AgreeInv, NEW g \in Gateways, NEW e \in Events,
           HandleEvent(g, e)
    PROVE  AgreeInv'
<1> DEFINE s == sock[e]
<1>1. /\ turn.event = e /\ g \in turn.left /\ turn.left \subseteq Gateways /\ s \in Sockets
      /\ UNCHANGED <<now, authenticated, sock, steady>>
      /\ e # None
  BY Handling, FlowAssumption
<1>2. PICK q \in Refusals \cup {"routing"} : Handled(g, e, q)
  BY Handling
<1>3. ASSUME NEW f \in Events, told'[f] \in Refusals
      PROVE  \E h \in Gateways : result'[f][h] \in Refusals
  <2>1. told'[f] = told[f] \/ (f = e /\ told'[e] = result'[e][g])
    BY <1>2, HandledResult
  <2>2. CASE told'[f] = told[f]
    <3>1. PICK h \in Gateways : result[f][h] \in Refusals
      BY <1>3, <2>2 DEF AgreeInv
    <3>2. ~(f = e /\ h = g)
      BY <1>1, <3>1 DEF TurnInv, Refusals
    <3>3. QED
      BY <1>2, <3>1, <3>2, HandledResult
  <2>3. QED
    BY <1>3, <2>1, <2>2
\* What steadiness says of the event in turn, before the step and after it.
<1>4. ASSUME steady
      PROVE  /\ fresh \subseteq Gateways \ turn.left
             /\ \A h \in fresh' : result'[e][h] \in Refusals <=> e \in Nameless
             /\ s \notin diverged =>
                   \A h \in (Gateways \ turn.left) \cup {g} :
                       result'[e][h] \in Refusals <=> ToldNo(s, e, rateLimiter[<<g, s>>])
  <2>1. KnownBy(s) \in {{}, Gateways} /\ fresh \subseteq Gateways \ turn.left
    BY <1>1, <1>4 DEF TwinInv
  <2>2. /\ fresh' = fresh \/ fresh' = fresh \cup {g}
        /\ \E r \in Refusals \cup {"routing"} :
              /\ Handled(g, e, r)
              /\ r \in Refusals <=> ToldNo(s, e, rateLimiter[<<g, s>>])
              /\ fresh' # fresh => (r \in Refusals <=> e \in Nameless)
    BY <2>1, HandlingWindow
  <2>3. PICK r \in Refusals \cup {"routing"} :
              /\ Handled(g, e, r)
              /\ r \in Refusals <=> ToldNo(s, e, rateLimiter[<<g, s>>])
              /\ fresh' # fresh => (r \in Refusals <=> e \in Nameless)
    BY <2>2
  <2>4. /\ result'[e][g] = r
        /\ \A h \in Gateways : h # g => result'[e][h] = result[e][h]
    BY <2>3, HandledResult
  <2>5. /\ \A h \in fresh : result[e][h] \in Refusals <=> e \in Nameless
        /\ s \notin diverged =>
              \A h \in Gateways \ turn.left :
                  result[e][h] \in Refusals <=> ToldNo(s, e, rateLimiter[<<g, s>>])
    BY <1>1, <1>4 DEF AgreeInv
  <2>6. \A h \in fresh' : result'[e][h] \in Refusals <=> e \in Nameless
    BY <1>1, <2>1, <2>2, <2>3, <2>4, <2>5
  <2>7. QED
    BY <1>1, <2>1, <2>3, <2>4, <2>5, <2>6
<1>5. CASE turn.left = {g} /\ turn' = NoTurn
  <2>1. turn'.event = None
    BY <1>5 DEF NoTurn
  <2>2. split' = IF s \in diverged' THEN split \cup {e} ELSE split
    BY <1>2, <1>5 DEF Handled
  <2>3. ASSUME NEW f \in Events \ split', NEW h \in Gateways, NEW i \in Gateways,
               result'[f][h] \in Refusals
        PROVE  result'[f][i] \in Refusals
    <3>1. f \notin split
      BY <2>2, <2>3
    <3>2. CASE f # e
      <4>1. result'[f][h] = result[f][h] /\ result'[f][i] = result[f][i]
        BY <1>2, <3>2, HandledResult
      <4>2. QED
        BY <1>1, <2>3, <3>1, <3>2, <4>1 DEF AgreeInv
    <3>3. CASE f = e
      <4>1. s \notin diverged'
        BY <2>2, <2>3, <3>3
      <4>2. steady /\ (s \in diverged => fresh' = Gateways)
        BY <1>5, <4>1, LastTwin
      <4>3. QED
        BY <1>4, <1>5, <2>3, <3>3, <4>2
    <3>4. QED
      BY <3>2, <3>3
  <2>4. QED
    BY <1>3, <2>1, <2>3 DEF AgreeInv
<1>6. CASE turn.left # {g} /\ turn'.event = e /\ turn'.left = turn.left \ {g}
  <2>1. diverged' = diverged /\ split' = split
    BY <1>2, <1>6 DEF Handled
  <2>2. ASSUME NEW f \in Events \ split', turn'.event # f, NEW h \in Gateways, NEW i \in Gateways,
               result'[f][h] \in Refusals
        PROVE  result'[f][i] \in Refusals
    <3>1. result'[f][h] = result[f][h] /\ result'[f][i] = result[f][i]
      BY <1>2, <1>6, <2>2, HandledResult
    <3>2. QED
      BY <1>1, <1>6, <2>1, <2>2, <3>1 DEF AgreeInv
  <2>3. ASSUME steady, s \notin diverged, NEW h \in Gateways \ turn'.left, NEW i \in turn'.left
        PROVE  result'[e][h] \in Refusals <=> ToldNo(s, e, rateLimiter[<<i, s>>])'
    <3>1. i \in turn.left /\ i # g /\ i \in Gateways /\ h \in (Gateways \ turn.left) \cup {g}
      BY <1>1, <1>6, <2>3
    <3>2. KnownBy(s) \in {{}, Gateways} /\ rateLimiter[<<i, s>>] = rateLimiter[<<g, s>>]
      BY <1>1, <2>3, <3>1 DEF TwinInv, Same
    <3>3. rateLimiter'[<<i, s>>] = rateLimiter[<<i, s>>]
      BY <1>1, <3>1, <3>2, HandlingWindow
    <3>4. KnownBy(s)' = KnownBy(s)
      BY <1>1 DEF KnownBy
    <3>5. ToldNo(s, e, rateLimiter[<<i, s>>])' <=> ToldNo(s, e, rateLimiter[<<g, s>>])
      BY <1>1, <3>2, <3>3, <3>4 DEF ToldNo, Over, Closed
    <3>6. QED
      BY <1>4, <2>3, <3>1, <3>5
  <2>4. QED
    BY <1>1, <1>3, <1>4, <1>6, <2>1, <2>2, <2>3 DEF AgreeInv
<1>7. QED
  BY <1>5, <1>6, HandledTurn

LEMMA NextAgree ==
    ASSUME FlowTypeOK, TurnInv, TwinInv, AgreeInv, FlowSteps
    PROVE  AgreeInv'
<1>1. CASE UNCHANGED flowVars
  BY <1>1, AgreeFrame DEF flowVars, flow, vars
<1>2. CASE ClockMoves
  BY <1>2 DEF ClockMoves, AgreeInv
<1>3. ASSUME NEW s \in Sockets, NEW e \in Events, Receive(e, s) PROVE AgreeInv'
  <2>1. /\ turn.event = None /\ turn'.event = e /\ turn'.left = Gateways /\ fresh' = {}
        /\ UNCHANGED <<result, told, split>>
        /\ \A f \in Events : f # None
    BY <1>3, FlowAssumption DEF Receive, NoTurn
  <2>2. QED
    BY <2>1 DEF AgreeInv
<1>4. ASSUME NEW s \in Sockets, NEW g \in Gateways, Authenticated(g, s) PROVE AgreeInv'
  <2>1. turn.event = None /\ turn'.event = None /\ UNCHANGED <<result, told, split>>
    BY <1>4 DEF Authenticated, NoTurn, flow
  <2>2. QED
    BY <2>1 DEF AgreeInv
<1>5. ASSUME NEW g \in Gateways, NEW e \in Events, RouteEnds(g, e) PROVE AgreeInv'
  BY <1>5, AgreeFrame, RoutedResult DEF vars
<1>6. QED
  BY <1>1, <1>2, <1>3, <1>4, <1>5, HandleAgree DEF FlowSteps

-----------------------------------------------------------------------------
(***************************************************************************)
(* The theorems.                                                           *)
(***************************************************************************)
LEMMA NextFlow ==
    ASSUME FlowInv, [FlowNext]_flowVars PROVE FlowInv'
<1>1. FlowTypeOK /\ TurnInv /\ TwinInv /\ AgreeInv /\ FlowSteps
  BY StepForms DEF FlowInv
<1>2. LimiterInv'
  BY <1>1, FlowStep, NextLimiter DEF FlowInv
<1>3. TypeOK'
  BY <1>2 DEF LimiterInv
<1>4. QED
  BY <1>1, <1>2, <1>3, NextFlowTypes, NextTurn, NextTwin, NextAgree DEF FlowInv

\* The inductive invariant.
THEOREM FlowInvariant == FlowSpec => []FlowInv
<1>1. FlowInit => FlowInv
  BY InitFlow
<1>2. FlowInv /\ [FlowNext]_flowVars => FlowInv'
  BY NextFlow
<1>3. QED
  BY <1>1, <1>2, PTL DEF FlowSpec

\* Every variable keeps its type.
THEOREM FlowTypes == FlowSpec => []FlowTypeOK
<1>1. FlowInv => FlowTypeOK
  BY DEF FlowInv
<1>2. QED
  BY <1>1, FlowInvariant, PTL

\* Each gateway bounds the rate of each socket: at most Limit * (k + 1) - 1 of
\* its events pass the limiter in any time of k windows, whatever the other
\* gateways do and however often the client authenticates again.
THEOREM EveryGatewayLimits ==
    ASSUME NEW k \in Nat \ {0}
    PROVE  FlowSpec => []RateBound(k)
<1>1. FlowInv => RateBound(k)
  BY DEF FlowInv, LimiterInv
<1>2. QED
  BY <1>1, FlowInvariant, PTL

\* The limiters of the gateways keep in step.
THEOREM GatewaysKeepInStep == FlowSpec => []TwinWindows
<1>1. FlowInv => TwinWindows
  BY DEF FlowInv, TwinInv, TwinWindows, Same, Waiting
<1>2. QED
  BY <1>1, FlowInvariant, PTL

\* A client that is told that its event was refused started no workflow.
THEOREM RefusalsAreTrue == FlowSpec => []RefusedMeansNotRouted
<1>1. FlowInv => RefusedMeansNotRouted
  BY DEF FlowInv, AgreeInv, RefusedMeansNotRouted
<1>2. QED
  BY <1>1, FlowInvariant, PTL

=============================================================================
