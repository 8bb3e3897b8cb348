--------------------------- MODULE WSGatewayProofs ---------------------------
(***************************************************************************)
(* Theorems of WSGateway, for any number of gateways, sockets and tokens.  *)
(***************************************************************************)
EXTENDS WSGateway, TLAPS

(***************************************************************************)
(* The inductive invariant: what each gateway knows of each socket.  The   *)
(* answer to a validation may add a socket to a gateway's sets although it *)
(* has closed, so a closed socket that is still validated must already be  *)
(* known as abandoned.                                                     *)
(***************************************************************************)
ClientInv(g, s) ==
    /\ sock[s] = "open" =>
          /\ s \in authenticated[g] \/ s \in timers[g] \/ Connecting(g, s)
          /\ s \in connected[g] \/ Connecting(g, s)
    /\ sock[s] = "closed" =>
          /\ s \in connected[g] \cup authenticated[g] => s \in abandoned[g]
          /\ Validating(g, s) => s \in abandoned[g]

IInv ==
    /\ TypeOK
    /\ \A g \in Gateways, s \in Sockets : ClientInv(g, s)

\* Most steps leave the history as it is.
USE DEF history

LEMMA InitGateway ==
    ASSUME Init PROVE IInv
BY GatewayAssumption DEF Init, IInv, TypeOK, ClientInv, Validating, Connecting

-----------------------------------------------------------------------------
(***************************************************************************)
(* A socket closes.  It may take a validation or a grace timer of its own  *)
(* with it, and none of another socket.                                    *)
(***************************************************************************)
LEMMA CloseInv ==
    ASSUME IInv, NEW s \in Sockets, Close(s),
           alive' \in BOOLEAN,
           token' \in [Sockets -> Tokens \cup BadTokens \cup {None}],
           user' \in [Sockets -> Tokens \cup {None}],
           revoked' \in SUBSET Tokens,
           timers' \in [Gateways -> SUBSET Sockets],
           validations' \in [Gateways -> SUBSET Validation],
           \A g \in Gateways : \A d \in Sockets \ {s} : d \in timers[g] => d \in timers'[g],
           \A g \in Gateways : \A v \in Validation :
               v.sock # s => (v \in validations'[g] <=> v \in validations[g])
    PROVE  IInv'
<1>1. TypeOK
  BY DEF IInv
<1>2. /\ sock' = [sock EXCEPT ![s] = "closed"]
      /\ connected' = [g \in Gateways |-> connected[g] \ {s}]
      /\ authenticated' = [g \in Gateways |-> authenticated[g] \ {s}]
      /\ overlapped' = overlapped \ {s} /\ UNCHANGED retries
  BY DEF Close, RemoveClient
<1>3. TypeOK'
  <2>1. sub' \in [Gateways -> {"subscribing", "waiting", "on", "leaving", "off", "gaveUp"}]
    BY <1>1 DEF Close, UnsubscribeIfEmpty, TypeOK
  <2>2. abandoned' \in [Gateways -> SUBSET Sockets]
    BY <1>1 DEF Close, TypeOK
  <2>3. QED
    BY <1>1, <1>2, <2>1, <2>2 DEF TypeOK
<1>4. \A g \in Gateways :
          /\ abandoned[g] \subseteq abandoned'[g]
          /\ Validating(g, s)' => s \in abandoned'[g]
  BY <1>1 DEF Close, Validating, TypeOK
<1>5. ASSUME NEW g \in Gateways, NEW d \in Sockets PROVE ClientInv(g, d)'
  <2>1. CASE d = s
    <3>1. sock'[d] = "closed" /\ d \notin connected'[g] \cup authenticated'[g]
      BY <1>1, <1>2, <2>1 DEF TypeOK
    <3>2. QED
      BY <1>4, <2>1, <3>1 DEF ClientInv
  <2>2. CASE d # s
    <3>1. /\ sock'[d] = sock[d]
          /\ d \in connected'[g] <=> d \in connected[g]
          /\ d \in authenticated'[g] <=> d \in authenticated[g]
          /\ d \in timers[g] => d \in timers'[g]
      BY <1>1, <1>2, <2>2 DEF TypeOK
    <3>2. /\ Connecting(g, d) => Connecting(g, d)'
          /\ Validating(g, d)' => Validating(g, d)
      BY <1>1, <2>2 DEF Connecting, Validating, TypeOK
    <3>3. ClientInv(g, d)
      BY DEF IInv
    <3>4. QED
      BY <1>4, <3>1, <3>2, <3>3 DEF ClientInv
  <2>3. QED
    BY <2>1, <2>2
<1>6. QED
  BY <1>3, <1>5 DEF IInv

(***************************************************************************)
(* A step that closes no socket and forgets nothing a gateway knows of an  *)
(* open one.                                                               *)
(***************************************************************************)
LEMMA StayInv ==
    ASSUME IInv, TypeOK', UNCHANGED abandoned,
           \A s \in Sockets : sock'[s] = "closed" => sock[s] = "closed",
           \A g \in Gateways, s \in Sockets :
               sock'[s] = "open" =>
                  /\ s \in authenticated'[g] \/ s \in timers'[g] \/ Connecting(g, s)'
                  /\ s \in connected'[g] \/ Connecting(g, s)',
           \A g \in Gateways, s \in Sockets :
               sock[s] = "closed" =>
                  /\ s \in connected'[g] \cup authenticated'[g] =>
                        s \in connected[g] \cup authenticated[g] \/ Validating(g, s)
                  /\ Validating(g, s)' => Validating(g, s)
    PROVE  IInv'
BY DEF IInv, ClientInv

-----------------------------------------------------------------------------
LEMMA ConnectInv ==
    ASSUME IInv, NEW s \in Sockets,
           \/ ConnectAnonymous(s)
           \/ \E t \in Tokens : Connect(s, t)
           \/ \E t \in BadTokens : ConnectRejected(s, t)
    PROVE  IInv'
<1>1. TypeOK
  BY DEF IInv
<1>2. CASE ConnectAnonymous(s)
  <2>1. TypeOK'
    BY <1>1, <1>2 DEF ConnectAnonymous, TypeOK, subscription
  <2>2. QED
    BY <1>1, <1>2, <2>1, StayInv
       DEF ConnectAnonymous, TypeOK, IInv, ClientInv, Connecting, Validating
<1>3. ASSUME NEW t \in Tokens, Connect(s, t) PROVE IInv'
  <2> DEFINE v == [sock |-> s, token |-> t, from |-> "connect"]
  <2>1. v \in Validation
    BY DEF Validation
  <2>2. TypeOK'
    BY <1>1, <1>3, <2>1 DEF Connect, TypeOK, subscription
  <2>3. /\ sock' = [sock EXCEPT ![s] = "open"] /\ sock[s] = "new"
        /\ validations' = [g \in Gateways |-> validations[g] \cup {v}]
        /\ UNCHANGED <<connected, authenticated, timers, abandoned>>
    BY <1>3 DEF Connect
  <2>4. ASSUME NEW g \in Gateways, NEW d \in Sockets
        PROVE  /\ d = s => Connecting(g, d)'
               /\ Connecting(g, d) => Connecting(g, d)'
               /\ d # s /\ Validating(g, d)' => Validating(g, d)
    <3>1. v.sock = s /\ v.from = "connect"
      OBVIOUS
    <3>2. validations'[g] = validations[g] \cup {v}
      BY <2>3
    <3>3. QED
      BY <3>1, <3>2 DEF Connecting, Validating
  <2>5. QED
    BY <1>1, <2>2, <2>3, <2>4, StayInv DEF TypeOK, IInv, ClientInv
<1>4. ASSUME NEW t \in BadTokens, ConnectRejected(s, t) PROVE IInv'
  BY <1>1, <1>4, CloseInv DEF ConnectRejected, TypeOK
<1>5. QED
  BY <1>2, <1>3, <1>4

LEMMA GraceInv ==
    ASSUME IInv, NEW g \in Gateways, NEW s \in Sockets, GraceOver(g, s)
    PROVE  IInv'
<1>1. TypeOK
  BY DEF IInv
<1>2. /\ timers' = [timers EXCEPT ![g] = timers[g] \ {s}]
      /\ UNCHANGED <<alive, validations, token, user, revoked>>
  BY DEF GraceOver
<1>3. CASE sock[s] = "open" /\ Close(s)
  BY <1>1, <1>2, <1>3, CloseInv DEF TypeOK
<1>4. CASE /\ sock[s] = "closed" \/ s \in authenticated[g]
           /\ UNCHANGED <<sock, connected, authenticated, subscription, history>>
  <2>1. TypeOK'
    BY <1>1, <1>2, <1>4 DEF TypeOK, subscription
  <2>2. QED
    BY <1>1, <1>2, <1>4, <2>1, StayInv
       DEF TypeOK, IInv, ClientInv, Connecting, Validating
<1>5. QED
  BY <1>3, <1>4 DEF GraceOver

LEMMA AnswerInv ==
    ASSUME IInv, NEW g \in Gateways, NEW v \in validations[g], Answer(g, v)
    PROVE  IInv'
<1>1. TypeOK /\ v \in Validation /\ v.sock \in Sockets /\ v.token \in Tokens
  BY DEF IInv, TypeOK, Validation
<1>2. validations' = [validations EXCEPT ![g] = validations[g] \ {v}]
  BY DEF Answer, ConnectAccepted, ConnectRevoked, AnswerConnect,
         AuthenticateAccepted, AuthenticateRevoked
\* What the answer leaves in flight.
<1>3. ASSUME NEW h \in Gateways, NEW d \in Sockets
      PROVE  /\ Validating(h, d)' => Validating(h, d)
             /\ v.from # "connect" \/ h # g \/ d # v.sock =>
                   (Connecting(h, d) => Connecting(h, d)')
  BY <1>1, <1>2 DEF Connecting, Validating, TypeOK
<1>4. Validating(g, v.sock)
  BY DEF Validating
<1>5. CASE ConnectAccepted(g, v)
  <2>1. TypeOK'
    BY <1>1, <1>2, <1>5 DEF ConnectAccepted, CountClient, TypeOK, subscription
  <2>2. /\ authenticated' = [authenticated EXCEPT ![g] = authenticated[g] \cup {v.sock}]
        /\ connected' = [connected EXCEPT ![g] = connected[g] \cup {v.sock}]
        /\ UNCHANGED <<sock, timers, abandoned>>
    BY <1>5 DEF ConnectAccepted, CountClient
  <2>3. QED
    BY <1>1, <1>3, <1>4, <2>1, <2>2, StayInv DEF TypeOK, IInv, ClientInv
<1>6. CASE ConnectRevoked(g, v)
  <2>1. CASE Close(v.sock)
    <3>1. \A h \in Gateways : \A w \in Validation :
              w.sock # v.sock => (w \in validations'[h] <=> w \in validations[h])
      BY <1>1, <1>2 DEF TypeOK
    <3>2. QED
      BY <1>1, <1>2, <1>6, <2>1, <3>1, CloseInv DEF ConnectRevoked, TypeOK
  <2>2. CASE /\ sock[v.sock] = "closed"
             /\ UNCHANGED <<sock, connected, authenticated, subscription, history>>
    <3>1. TypeOK'
      BY <1>1, <1>2, <1>6, <2>2 DEF ConnectRevoked, TypeOK, subscription
    <3>2. timers' = timers
      BY <1>6 DEF ConnectRevoked
    <3>3. QED
      BY <1>1, <1>3, <2>2, <3>1, <3>2, StayInv DEF TypeOK, IInv, ClientInv
  <2>3. QED
    BY <1>6, <2>1, <2>2 DEF ConnectRevoked
<1>7. CASE AuthenticateAccepted(g, v)
  <2>1. TypeOK'
    BY <1>1, <1>2, <1>7 DEF AuthenticateAccepted, TypeOK, subscription
  <2>2. /\ authenticated' = [authenticated EXCEPT ![g] = authenticated[g] \cup {v.sock}]
        /\ UNCHANGED <<sock, connected, timers, abandoned>>
        /\ v.from # "connect"
    BY <1>7 DEF AuthenticateAccepted
  <2>3. QED
    BY <1>1, <1>3, <1>4, <2>1, <2>2, StayInv DEF TypeOK, IInv, ClientInv
<1>8. CASE AuthenticateRevoked(g, v)
  <2>1. TypeOK'
    BY <1>1, <1>2, <1>8 DEF AuthenticateRevoked, TypeOK, subscription, sockets
  <2>2. UNCHANGED <<sock, authenticated, connected, timers, abandoned>> /\ v.from # "connect"
    BY <1>8 DEF AuthenticateRevoked, sockets
  <2>3. QED
    BY <1>1, <1>3, <2>1, <2>2, StayInv DEF TypeOK, IInv, ClientInv
<1>9. QED
  BY <1>5, <1>6, <1>7, <1>8 DEF Answer

LEMMA AuthenticateInv ==
    ASSUME IInv, NEW s \in Sockets,
           \/ \E t \in Tokens : Authenticate(s, t)
           \/ \E t \in BadTokens : AuthenticateInvalid(s, t)
    PROVE  IInv'
<1>1. TypeOK
  BY DEF IInv
<1>2. ASSUME NEW t \in Tokens, Authenticate(s, t) PROVE IInv'
  <2> DEFINE v == [sock |-> s, token |-> t, from |-> "authenticate"]
  <2>1. v \in Validation
    BY DEF Validation
  <2>2. /\ validations' = [g \in Gateways |-> validations[g] \cup {v}]
        /\ token' = [token EXCEPT ![s] = t]
        /\ sock[s] = "open"
        /\ UNCHANGED <<alive, sock, user, revoked, connected, authenticated, timers,
                       subscription, abandoned>>
        /\ overlapped' \in {overlapped \ {s}, overlapped \cup {s}}
    BY <1>2 DEF Authenticate, NoteOverlap
  <2>3. TypeOK'
    BY <1>1, <2>1, <2>2 DEF TypeOK, subscription
  <2>4. ASSUME NEW g \in Gateways, NEW d \in Sockets
        PROVE  /\ Connecting(g, d) => Connecting(g, d)'
               /\ d # s /\ Validating(g, d)' => Validating(g, d)
    BY <2>2 DEF Connecting, Validating
  <2>5. QED
    BY <1>1, <2>2, <2>3, <2>4, StayInv DEF TypeOK, IInv, ClientInv
<1>3. ASSUME NEW t \in BadTokens, AuthenticateInvalid(s, t) PROVE IInv'
  <2>1. TypeOK'
    BY <1>1, <1>3 DEF AuthenticateInvalid, NoteOverlap, TypeOK, clients, subscription
  <2>2. QED
    BY <1>3, <2>1, StayInv
       DEF AuthenticateInvalid, clients, IInv, ClientInv, Connecting, Validating
<1>4. QED
  BY <1>2, <1>3

\* The subscription and the revocations are no business of the sockets.
LEMMA OtherInv ==
    ASSUME IInv,
           UNCHANGED <<sock, connected, authenticated, timers, validations, abandoned>>,
           TypeOK'
    PROVE  IInv'
BY DEF IInv, ClientInv, Connecting, Validating

-----------------------------------------------------------------------------
LEMMA NextGateway ==
    ASSUME IInv, [Next]_vars
    PROVE  IInv'
<1>1. TypeOK
  BY DEF IInv
<1>2. ASSUME NEW s \in Sockets, Leave(s) PROVE IInv'
  BY <1>1, <1>2, CloseInv DEF Leave, TypeOK
<1>3. ASSUME NEW g \in Gateways,
             \/ Subscribed(g) \/ SubscribeFails(g) \/ Resubscribe(g)
             \/ Unsubscribed(g) \/ UnsubscribeFails(g)
      PROVE  IInv'
  <2>1. UNCHANGED <<sockets, clients, history>> /\ alive' \in BOOLEAN
    BY <1>1, <1>3 DEF Subscribed, SubscribeFails, Resubscribe, Unsubscribed,
                      UnsubscribeFails, TypeOK
  <2>2. sub' \in [Gateways -> {"subscribing", "waiting", "on", "leaving", "off", "gaveUp"}]
    BY <1>1, <1>3 DEF Subscribed, SubscribeFails, Resubscribe, Unsubscribed,
                      UnsubscribeFails, TypeOK, subscription
  <2>3. retries' \in [Gateways -> 0..MaxRetries]
    BY <1>1, <1>3, GatewayAssumption
       DEF Subscribed, SubscribeFails, Resubscribe, Unsubscribed, UnsubscribeFails,
           TypeOK, subscription
  <2>4. QED
    BY <1>1, <2>1, <2>2, <2>3, OtherInv DEF TypeOK, sockets, clients
<1>4. ASSUME NEW t \in Revocable, Revoke(t) PROVE IInv'
  BY <1>1, <1>4, OtherInv, GatewayAssumption DEF Revoke, TypeOK, clients, subscription
<1>5. CASE UNCHANGED vars
  BY <1>1, <1>5, OtherInv DEF vars, TypeOK, sockets, clients, subscription
<1>6. QED
  BY <1>2, <1>3, <1>4, <1>5, ConnectInv, AuthenticateInv, GraceInv, AnswerInv
     DEF Next, Subscribing

\* Every gateway knows enough of every socket, at all times.
THEOREM GatewayInvariant == Spec => []IInv
<1>1. Init => IInv
  BY InitGateway
<1>2. IInv /\ [Next]_vars => IInv'
  BY NextGateway
<1>3. QED
  BY <1>1, <1>2, PTL DEF Spec

\* Every variable keeps its type: the user of a socket, for one, always comes
\* from a token that verified.
THEOREM GatewayTypes == Spec => []TypeOK
<1>1. IInv => TypeOK
  BY DEF IInv
<1>2. QED
  BY <1>1, GatewayInvariant, PTL

\* No client stays without authentication once its grace period and its
\* handleConnection are over, at any of the gateways (AnonymousOnlyInGrace).
THEOREM NoAnonymousClient == Spec => []AnonymousOnlyInGrace
<1>1. IInv => AnonymousOnlyInGrace
  BY DEF IInv, ClientInv, AnonymousOnlyInGrace
<1>2. QED
  BY <1>1, GatewayInvariant, PTL

\* Every gateway counts every open socket (OpenClientsAreCounted).
THEOREM OpenCounted == Spec => []OpenClientsAreCounted
<1>1. IInv => OpenClientsAreCounted
  BY DEF IInv, ClientInv, OpenClientsAreCounted
<1>2. QED
  BY <1>1, GatewayInvariant, PTL

\* A closed socket remains in a gateway's sets only if it closed while its
\* token was being validated there (GhostsWereValidating).
THEOREM GhostsExplained == Spec => []GhostsWereValidating
<1>1. IInv => GhostsWereValidating
  BY DEF IInv, ClientInv, GhostsWereValidating
<1>2. QED
  BY <1>1, GatewayInvariant, PTL

\* A gateway stops listening only when every open socket still waits for its
\* handleConnection there (LastClientUnsubscribes).
THEOREM UnsubscribedByLast == Spec => LastClientUnsubscribes
<1>1. IInv /\ IInv' /\ [Next]_vars => [UnsubscribeStep]_vars
  <2> SUFFICES ASSUME IInv, IInv', Next,
                      NEW g \in Gateways, sub[g] = "on", sub'[g] # "on",
                      NEW s \in Sockets, sock'[s] = "open"
               PROVE  Connecting(g, s)'
    BY DEF UnsubscribeStep
  <2>1. TypeOK
    BY DEF IInv
  \* Only a closing socket makes a gateway unsubscribe.
  <2>2. connected'[g] = {}
    <3>1. ASSUME NEW d \in Sockets, Close(d) PROVE connected'[g] = {}
      BY <3>1 DEF Close, UnsubscribeIfEmpty
    <3>2. \/ \E d \in Sockets : Close(d)
          \/ sub' = sub
          \/ \E h \in Gateways : Subscribed(h) \/ SubscribeFails(h) \/ Resubscribe(h)
                                 \/ Unsubscribed(h)
      <4>1. ASSUME NEW h \in Gateways, NEW v \in validations[h], Answer(h, v)
            PROVE  (\E d \in Sockets : Close(d)) \/ sub' = sub
        <5>1. v.sock \in Sockets
          BY <2>1 DEF TypeOK, Validation
        <5>2. QED
          BY <4>1, <5>1 DEF Answer, ConnectAccepted, ConnectRevoked, AuthenticateAccepted,
                            AuthenticateRevoked, subscription
      <4>2. ASSUME NEW h \in Gateways, NEW d \in Sockets, GraceOver(h, d)
            PROVE  (\E e \in Sockets : Close(e)) \/ sub' = sub
        BY <4>2 DEF GraceOver, subscription
      <4>3. ASSUME NEW d \in Sockets,
                   \/ ConnectAnonymous(d) \/ Leave(d)
                   \/ \E t \in Tokens : Connect(d, t) \/ Authenticate(d, t)
                   \/ \E t \in BadTokens : ConnectRejected(d, t) \/ AuthenticateInvalid(d, t)
            PROVE  (\E e \in Sockets : Close(e)) \/ sub' = sub
        BY <4>3 DEF ConnectAnonymous, Leave, Connect, Authenticate, ConnectRejected,
                    AuthenticateInvalid, subscription
      <4>4. QED
        BY <4>1, <4>2, <4>3 DEF Next, Subscribing, Revoke, UnsubscribeFails, subscription
    <3>3. ASSUME NEW h \in Gateways,
                 Subscribed(h) \/ SubscribeFails(h) \/ Resubscribe(h) \/ Unsubscribed(h)
          PROVE  sub'[g] = "on"
      BY <2>1, <3>3 DEF Subscribed, SubscribeFails, Resubscribe, Unsubscribed, TypeOK
    <3>4. QED
      BY <3>1, <3>2, <3>3
  <2>3. QED
    BY <2>2 DEF IInv, ClientInv
<1>2. QED
  BY <1>1, GatewayInvariant, PTL DEF Spec, LastClientUnsubscribes

-----------------------------------------------------------------------------
(***************************************************************************)
(* Whose token and user are sent on.  Of an open socket whose token did    *)
(* not overlap, every validation is of its token; until a gateway has accepted *)
(* that token, all of them still look at it, for a token that is never     *)
(* revoked is refused by none.                                             *)
(***************************************************************************)
TokenInv(s) ==
    /\ sock[s] = "new" => token[s] = None /\ \A g \in Gateways : ~Validating(g, s)
    /\ sock[s] = "open" /\ s \notin overlapped =>
          /\ \A g \in Gateways, v \in Validation :
                v \in validations[g] /\ v.sock = s => v.token = token[s]
          /\ token[s] \in Tokens \ revoked =>
                user[s] = token[s] \/ \A g \in Gateways : Validating(g, s)

\* A step that is no business of the socket, or only closes it.
LEMMA TokenKept ==
    ASSUME TypeOK, TypeOK', NEW s \in Sockets, TokenInv(s),
           token'[s] = token[s], user'[s] = user[s],
           revoked \subseteq revoked', sock'[s] = "new" => sock[s] = "new",
           sock'[s] = "open" =>
               sock[s] \in {"new", "open"} /\ (s \in overlapped => s \in overlapped'),
           \A g \in Gateways, v \in Validation :
               v.sock = s => (v \in validations'[g] <=> v \in validations[g])
    PROVE  TokenInv(s)'
<1>1. \A g \in Gateways : Validating(g, s)' <=> Validating(g, s)
  BY DEF Validating, TypeOK
<1>2. CASE sock[s] = "new"
  BY <1>1, <1>2, GatewayAssumption DEF TokenInv, Validating
<1>3. CASE sock[s] # "new"
  BY <1>1, <1>3 DEF TokenInv
<1>4. QED
  BY <1>2, <1>3

\* The steps that neither bring a token nor answer a lookup.
LEMMA OtherTokens ==
    ASSUME TypeOK, TypeOK', NEW s \in Sockets, TokenInv(s),
           \/ UNCHANGED vars
           \/ \E d \in Sockets : \/ ConnectAnonymous(d) \/ Leave(d)
                                 \/ \E g \in Gateways : GraceOver(g, d)
           \/ \E g \in Gateways : \/ Subscribed(g) \/ SubscribeFails(g) \/ Resubscribe(g)
                                  \/ Unsubscribed(g) \/ UnsubscribeFails(g)
           \/ \E t \in Revocable : Revoke(t)
    PROVE  TokenInv(s)'
<1>1. /\ UNCHANGED <<token, user, validations>>
      /\ revoked \subseteq revoked'
  BY DEF vars, sockets, clients, ConnectAnonymous, Leave, GraceOver, Close,
         Subscribed, SubscribeFails, Resubscribe, Unsubscribed, UnsubscribeFails, Revoke
<1>2. /\ sock'[s] = "new" => sock[s] = "new"
      /\ sock'[s] = "open" =>
            sock[s] \in {"new", "open"} /\ (s \in overlapped => s \in overlapped')
  BY DEF vars, sockets, ConnectAnonymous, Leave, GraceOver, Close, Subscribed, TypeOK,
         SubscribeFails, Resubscribe, Unsubscribed, UnsubscribeFails, Revoke
<1>3. QED
  BY <1>1, <1>2, TokenKept

LEMMA ConnectTokens ==
    ASSUME TypeOK, TypeOK', NEW s \in Sockets, TokenInv(s), NEW d \in Sockets,
           NEW t \in Tokens, Connect(d, t)
    PROVE  TokenInv(s)'
<1> DEFINE v == [sock |-> d, token |-> t, from |-> "connect"]
<1>1. /\ v.sock = d /\ v.token = t
      /\ \A g \in Gateways : validations'[g] = validations[g] \cup {v}
      /\ token'[d] = t /\ sock'[d] = "open" /\ sock[d] = "new"
      /\ UNCHANGED <<user, revoked, overlapped>>
  BY DEF Connect, TypeOK
<1> HIDE DEF v
<1>2. CASE s = d
  <2>1. \A g \in Gateways : \A w \in validations'[g] : w.sock = s => w.token = t
    BY <1>1, <1>2 DEF TokenInv, Validating
  <2>2. \A g \in Gateways : Validating(g, s)'
    BY <1>1, <1>2 DEF Validating
  <2>3. QED
    BY <1>1, <1>2, <2>1, <2>2 DEF TokenInv
<1>3. CASE s # d
  <2>1. token'[s] = token[s] /\ sock'[s] = sock[s]
    BY <1>3 DEF Connect, TypeOK
  <2>2. \A g \in Gateways, w \in Validation :
            w.sock = s => (w \in validations'[g] <=> w \in validations[g])
    BY <1>1, <1>3
  <2>3. QED
    BY <1>1, <2>1, <2>2, TokenKept
<1>4. QED
  BY <1>2, <1>3

\* A token that does not verify, at connection or later.
LEMMA RefusedTokens ==
    ASSUME TypeOK, TypeOK', NEW s \in Sockets, TokenInv(s), NEW d \in Sockets,
           NEW t \in BadTokens, ConnectRejected(d, t) \/ AuthenticateInvalid(d, t)
    PROVE  TokenInv(s)'
<1>1. /\ token' = [token EXCEPT ![d] = t] /\ t \notin Tokens
      /\ UNCHANGED <<user, revoked, validations>>
      /\ \A e \in Sockets \ {d} : e \in overlapped => e \in overlapped'
  BY GatewayAssumption
     DEF ConnectRejected, AuthenticateInvalid, NoteOverlap, Close, clients
<1>2. /\ sock'[s] = "new" => sock[s] = "new" /\ s # d
      /\ s # d => sock'[s] = sock[s]
  BY DEF ConnectRejected, AuthenticateInvalid, Close, TypeOK
<1>3. CASE s = d
  <2>1. /\ token'[s] = t /\ sock'[s] # "new"
        /\ sock'[s] = "open" /\ s \notin overlapped' => \A g \in Gateways : ~Validating(g, s)
    <3>1. CASE ConnectRejected(d, t)
      BY <1>1, <1>2, <1>3, <3>1 DEF ConnectRejected, Close, TypeOK
    <3>2. CASE AuthenticateInvalid(d, t)
      BY <1>1, <1>2, <1>3, <3>2 DEF AuthenticateInvalid, NoteOverlap, TypeOK
    <3>3. QED
      BY <3>1, <3>2
  <2>2. \A g \in Gateways : Validating(g, s)' <=> Validating(g, s)
    BY <1>1 DEF Validating
  <2>3. QED
    BY <1>1, <2>1, <2>2 DEF TokenInv, Validating
<1>4. CASE s # d
  <2>1. token'[s] = token[s]
    BY <1>1, <1>4 DEF TypeOK
  <2>2. s \in overlapped => s \in overlapped'
    BY <1>1, <1>4
  <2>3. user'[s] = user[s] /\ revoked \subseteq revoked' /\ sock'[s] = sock[s]
    BY <1>1, <1>2, <1>4
  <2>4. \A g \in Gateways, w \in Validation :
            w.sock = s => (w \in validations'[g] <=> w \in validations[g])
    BY <1>1
  <2>5. QED
    BY <2>1, <2>2, <2>3, <2>4, TokenKept
<1>5. QED
  BY <1>3, <1>4

LEMMA AuthenticateTokens ==
    ASSUME TypeOK, TypeOK', NEW s \in Sockets, TokenInv(s), NEW d \in Sockets,
           NEW t \in Tokens, Authenticate(d, t)
    PROVE  TokenInv(s)'
<1> DEFINE v == [sock |-> d, token |-> t, from |-> "authenticate"]
<1>1. /\ v.sock = d /\ v.token = t
      /\ \A g \in Gateways : validations'[g] = validations[g] \cup {v}
      /\ token'[d] = t /\ sock[d] = "open" /\ NoteOverlap(d)
      /\ UNCHANGED <<sock, user, revoked>>
  BY DEF Authenticate, TypeOK
<1>2. /\ \A e \in Sockets \ {d} : e \in overlapped => e \in overlapped'
      /\ d \notin overlapped' => \A g \in Gateways : ~Validating(g, d)
  BY <1>1 DEF NoteOverlap
<1> HIDE DEF v
<1>3. CASE s = d
  <2>1. s \notin overlapped' =>
            \A g \in Gateways : \A w \in validations'[g] : w.sock = s => w.token = t
    BY <1>1, <1>2, <1>3 DEF Validating
  <2>2. \A g \in Gateways : Validating(g, s)'
    BY <1>1, <1>3 DEF Validating
  <2>3. QED
    BY <1>1, <1>3, <2>1, <2>2 DEF TokenInv
<1>4. CASE s # d
  <2>1. token'[s] = token[s]
    BY <1>4 DEF Authenticate, TypeOK
  <2>2. \A g \in Gateways, w \in Validation :
            w.sock = s => (w \in validations'[g] <=> w \in validations[g])
    BY <1>1, <1>4
  <2>3. s \in overlapped => s \in overlapped'
    BY <1>2, <1>4
  <2>4. user'[s] = user[s] /\ revoked \subseteq revoked' /\ sock'[s] = sock[s]
    BY <1>1
  <2>5. QED
    BY <2>1, <2>2, <2>3, <2>4, TokenKept
<1>5. QED
  BY <1>3, <1>4

LEMMA AnswerTokens ==
    ASSUME TypeOK, TypeOK', NEW s \in Sockets, TokenInv(s),
           NEW g \in Gateways, NEW v \in validations[g], Answer(g, v)
    PROVE  TokenInv(s)'
<1>1. /\ v \in Validation /\ v.sock \in Sockets /\ v.token \in Tokens
      /\ validations' = [validations EXCEPT ![g] = validations[g] \ {v}]
      /\ UNCHANGED <<token, revoked>>
  BY DEF TypeOK, Validation, Answer, ConnectAccepted, ConnectRevoked, AnswerConnect,
         AuthenticateAccepted, AuthenticateRevoked, Close, sockets
<1>2. /\ sock'[s] = "new" => sock[s] = "new"
      /\ sock'[s] = "open" =>
            sock[s] = "open" /\ (s \in overlapped <=> s \in overlapped')
  BY DEF Answer, ConnectAccepted, ConnectRevoked, AuthenticateAccepted,
         AuthenticateRevoked, Close, sockets, history, TypeOK
<1>3. \/ user' = [user EXCEPT ![v.sock] = v.token]
      \/ user' = user /\ v.token \in revoked
  BY DEF Answer, ConnectAccepted, ConnectRevoked, AuthenticateAccepted,
         AuthenticateRevoked, sockets
<1>4. CASE v.sock = s
  <2>1. sock[s] # "new" /\ sock'[s] # "new"
    BY <1>2, <1>4 DEF TokenInv, Validating
  <2>2. \A h \in Gateways : validations'[h] \subseteq validations[h]
    BY <1>1 DEF TypeOK
  <2>3. sock[s] = "open" /\ s \notin overlapped => v.token = token[s]
    BY <1>1, <1>4 DEF TokenInv
  <2>4. sock[s] = "open" /\ s \notin overlapped /\ token[s] \notin revoked => user'[s] = token[s]
    BY <1>1, <1>3, <1>4, <2>3 DEF TypeOK
  <2>5. QED
    BY <1>1, <1>2, <2>1, <2>2, <2>4 DEF TokenInv
<1>5. CASE v.sock # s
  <2>1. user'[s] = user[s]
    BY <1>3, <1>5 DEF TypeOK
  <2>2. \A h \in Gateways, w \in Validation :
            w.sock = s => (w \in validations'[h] <=> w \in validations[h])
    BY <1>1, <1>5 DEF TypeOK
  <2>3. QED
    BY <1>1, <1>2, <2>1, <2>2, TokenKept
<1>6. QED
  BY <1>4, <1>5

LEMMA NextTokens ==
    ASSUME TypeOK, TypeOK', [Next]_vars, NEW s \in Sockets, TokenInv(s)
    PROVE  TokenInv(s)'
BY OtherTokens, ConnectTokens, RefusedTokens, AuthenticateTokens, AnswerTokens
   DEF Next, Subscribing

\* What handleEvent sends on as the token and as the user of a socket are of one
\* token, unless it was refused or overlapped with another (UserIsOfToken).
THEOREM UserOfToken == Spec => []UserIsOfToken
<1>1. ASSUME Init PROVE \A s \in Sockets : TokenInv(s)
  BY <1>1, GatewayAssumption DEF Init, TokenInv, Validating
<1>2. (\A s \in Sockets : TokenInv(s)) /\ TypeOK /\ TypeOK' /\ [Next]_vars
        => (\A s \in Sockets : TokenInv(s))'
  BY NextTokens
<1>3. ASSUME \A s \in Sockets : TokenInv(s) PROVE UserIsOfToken
  BY <1>3, GatewayAssumption DEF TokenInv, UserIsOfToken
<1>4. QED
  BY <1>1, <1>2, <1>3, GatewayTypes, PTL DEF Spec

=============================================================================
