------------------------------ MODULE WSGateway ------------------------------
(***************************************************************************)
(* The connections of the WebSocket gateway: who is connected, who is      *)
(* authenticated, and whether the gateway listens to the workers.          *)
(*                                                                         *)
(* WSGateway and RedisService are providers of AppModule and again of      *)
(* WebsocketModule, so a server process runs two gateways.  They share the *)
(* sockets (Nest attaches both to one socket.io server, and both get every *)
(* event of a socket) and what they write to client.data; each has its own *)
(* sets, timers, Redis subscription and validations in flight.             *)
(*                                                                         *)
(* A handler runs without interruption up to its await: the Redis lookup   *)
(* of validateToken.  A token that does not verify is refused before it.   *)
(* client.disconnect(true) runs the handleDisconnect of every gateway      *)
(* before it returns, and does nothing to a socket that is closed.         *)
(***************************************************************************)
EXTENDS Naturals, FiniteSets

CONSTANTS
    Gateways,   \* the instances of WSGateway in a server process
    Sockets,    \* socket ids; socket.io never uses one twice
    Tokens,     \* tokens that verify
    BadTokens,  \* tokens that do not: wrong signature, expired
    Revocable,  \* the tokens somebody revokes (a bound)
    MaxRetries, \* maxRetries of subscribeToWorkerResponses
    None        \* no token, no user

ASSUME GatewayAssumption ==
    /\ Gateways # {}
    /\ MaxRetries \in Nat
    /\ Tokens \cap BadTokens = {}
    /\ Revocable \subseteq Tokens
    /\ None \notin Tokens \cup BadTokens

VARIABLES
    alive,          \* has the process not crashed?
    \* the sockets
    sock,           \* "new", "open" or "closed"
    token,          \* client.data.token
    user,           \* client.data.user: the token it is the payload of
    revoked,        \* tokens under revoked_token: in Redis
    \* each gateway
    connected,      \* connectedClients
    authenticated,  \* authenticatedClients
    timers,         \* sockets whose grace period runs
    validations,    \* calls of validateToken in flight
    sub,            \* subscription to worker_responses; redisSubscribed = "on"
    retries,        \* retryCount of the call that subscribes, 0 without one
    \* history
    abandoned,      \* sockets that closed during a validation
    overlapped      \* open sockets that sent their token while another was validated

sockets == <<sock, token, user, revoked>>
clients == <<connected, authenticated, timers, validations>>
subscription == <<sub, retries>>
history == <<abandoned, overlapped>>
vars == <<alive, sockets, clients, subscription, history>>

Validation == [sock : Sockets, token : Tokens, from : {"connect", "authenticate"}]

Init ==
    /\ alive = TRUE
    /\ sock = [s \in Sockets |-> "new"]
    /\ token = [s \in Sockets |-> None]
    /\ user = [s \in Sockets |-> None]
    /\ revoked = {}
    /\ connected = [g \in Gateways |-> {}]
    /\ authenticated = [g \in Gateways |-> {}]
    /\ timers = [g \in Gateways |-> {}]
    /\ validations = [g \in Gateways |-> {}]
    /\ sub = [g \in Gateways |-> "subscribing"]
    /\ retries = [g \in Gateways |-> 0]
    /\ abandoned = [g \in Gateways |-> {}]
    /\ overlapped = {}
-----------------------------------------------------------------------------
(***************************************************************************)
(* handleDisconnect, which every gateway runs when a socket closes.        *)
(***************************************************************************)

Validating(g, s) == \E v \in validations[g] : v.sock = s
Connecting(g, s) == \E v \in validations[g] : v.sock = s /\ v.from = "connect"

\* Mutant: authenticatedClients.delete(client.id) is missing.
RemoveClientKept(s) ==
    /\ connected' = [g \in Gateways |-> connected[g] \ {s}]
    /\ UNCHANGED authenticated

RemoveClient(s) ==
    /\ connected' = [g \in Gateways |-> connected[g] \ {s}]
    /\ authenticated' = [g \in Gateways |-> authenticated[g] \ {s}]

\* Mutant: the gateway looks at the authenticated clients instead.
UnsubscribeIfEmptyAuth ==
    sub' = [g \in Gateways |->
               IF authenticated'[g] = {} /\ sub[g] = "on" THEN "leaving" ELSE sub[g]]

\* connectedClients.size === 0 && redisSubscribed
UnsubscribeIfEmpty ==
    sub' = [g \in Gateways |->
               IF connected'[g] = {} /\ sub[g] = "on" THEN "leaving" ELSE sub[g]]

Close(s) ==
    /\ sock' = [sock EXCEPT ![s] = "closed"]
    /\ RemoveClient(s)
    /\ UnsubscribeIfEmpty
    /\ abandoned' = [g \in Gateways |->
                        IF \E v \in validations'[g] : v.sock = s
                        THEN abandoned[g] \cup {s} ELSE abandoned[g]]
    /\ overlapped' = overlapped \ {s}
    /\ UNCHANGED retries

Leave(s) ==
    /\ alive
    /\ sock[s] = "open"
    /\ UNCHANGED validations
    /\ Close(s)
    /\ UNCHANGED <<alive, token, user, revoked, timers>>
-----------------------------------------------------------------------------
(***************************************************************************)
(* handleConnection.                                                       *)
(***************************************************************************)

\* Without a token: counted at once, and given ten seconds to authenticate.
ConnectAnonymous(s) ==
    /\ alive
    /\ sock[s] = "new"
    /\ sock' = [sock EXCEPT ![s] = "open"]
    /\ timers' = [g \in Gateways |-> timers[g] \cup {s}]
    /\ connected' = [g \in Gateways |-> connected[g] \cup {s}]
    /\ UNCHANGED <<alive, token, user, revoked, authenticated, validations,
                   subscription, history>>

\* With a token that does not verify: disconnected, and never counted.
ConnectRejected(s, t) ==
    /\ alive
    /\ sock[s] = "new"
    /\ token' = [token EXCEPT ![s] = t]
    /\ UNCHANGED validations
    /\ Close(s)
    /\ UNCHANGED <<alive, user, revoked, timers>>

\* Otherwise every gateway asks Redis whether the token was revoked.
Connect(s, t) ==
    /\ alive
    /\ sock[s] = "new"
    /\ sock' = [sock EXCEPT ![s] = "open"]
    /\ token' = [token EXCEPT ![s] = t]
    /\ validations' = [g \in Gateways |->
          validations[g] \cup {[sock |-> s, token |-> t, from |-> "connect"]}]
    /\ UNCHANGED <<alive, user, revoked, connected, authenticated, timers,
                   subscription, history>>

AnswerConnect(g, v) ==
    /\ v.from = "connect"
    /\ validations' = [validations EXCEPT ![g] = @ \ {v}]

\* Mutant: a client with a token is not counted.
CountClientNot(g, s) == UNCHANGED connected

\* this.connectedClients.add(client.id), whatever became of the socket
CountClient(g, s) == connected' = [connected EXCEPT ![g] = @ \cup {s}]

\* Not revoked; or the lookup failed, which RedisService.get answers with null.
ConnectAccepted(g, v) ==
    /\ alive
    /\ AnswerConnect(g, v)
    /\ user' = [user EXCEPT ![v.sock] = v.token]
    /\ authenticated' = [authenticated EXCEPT ![g] = @ \cup {v.sock}]
    /\ CountClient(g, v.sock)
    /\ UNCHANGED <<alive, sock, token, revoked, timers, subscription, history>>

\* Revoked: the socket is disconnected, unless it has gone.
ConnectRevoked(g, v) ==
    /\ alive
    /\ v.token \in revoked
    /\ AnswerConnect(g, v)
    /\ \/ sock[v.sock] = "open" /\ Close(v.sock)
       \/ /\ sock[v.sock] = "closed"
          /\ UNCHANGED <<sock, connected, authenticated, subscription, history>>
    /\ UNCHANGED <<alive, token, user, revoked, timers>>

\* Mutant: the grace period asks whether the client is counted.
GraceOverCounted(g, s) ==
    /\ alive
    /\ s \in timers[g]
    /\ timers' = [timers EXCEPT ![g] = @ \ {s}]
    /\ UNCHANGED validations
    /\ \/ sock[s] = "open" /\ s \notin connected[g] /\ Close(s)
       \/ /\ sock[s] = "closed" \/ s \in connected[g]
          /\ UNCHANGED <<sock, connected, authenticated, subscription, history>>
    /\ UNCHANGED <<alive, token, user, revoked>>

\* The ten seconds are over at a gateway.
GraceOver(g, s) ==
    /\ alive
    /\ s \in timers[g]
    /\ timers' = [timers EXCEPT ![g] = @ \ {s}]
    /\ UNCHANGED validations
    /\ \/ sock[s] = "open" /\ s \notin authenticated[g] /\ Close(s)
       \/ /\ sock[s] = "closed" \/ s \in authenticated[g]
          /\ UNCHANGED <<sock, connected, authenticated, subscription, history>>
    /\ UNCHANGED <<alive, token, user, revoked>>
-----------------------------------------------------------------------------
(***************************************************************************)
(* handleAuthenticate.  A message without a token is answered at once and  *)
(* changes nothing (it is not an action).                                  *)
(***************************************************************************)

\* Mutant: the user is taken from the token before it is verified.
AuthenticateInvalidStored(s, t) ==
    /\ alive
    /\ sock[s] = "open"
    /\ token' = [token EXCEPT ![s] = t]
    /\ user' = [user EXCEPT ![s] = t]
    /\ UNCHANGED <<alive, sock, revoked, clients, subscription, history>>

\* History: the token comes while another of the socket is being validated.
NoteOverlap(s) ==
    overlapped' = IF \E g \in Gateways : Validating(g, s)
                  THEN overlapped \cup {s} ELSE overlapped \ {s}

\* client.data.token is overwritten before the token is looked at.
AuthenticateInvalid(s, t) ==
    /\ alive
    /\ sock[s] = "open"
    /\ token' = [token EXCEPT ![s] = t]
    /\ NoteOverlap(s)
    /\ UNCHANGED <<alive, sock, user, revoked, clients, subscription, abandoned>>

\* A token is validated once at a time (a bound: a second validation of it would
\* do what the first does); other tokens of the socket may overlap with it.
Authenticate(s, t) ==
    LET v == [sock |-> s, token |-> t, from |-> "authenticate"] IN
    /\ alive
    /\ sock[s] = "open"
    /\ \A g \in Gateways : v \notin validations[g]
    /\ token' = [token EXCEPT ![s] = t]
    /\ validations' = [g \in Gateways |-> validations[g] \cup {v}]
    /\ NoteOverlap(s)
    /\ UNCHANGED <<alive, sock, user, revoked, connected, authenticated, timers,
                   subscription, abandoned>>

\* Mutant: a user that is known already is kept.
AuthenticateAcceptedUserKept(g, v) ==
    /\ alive
    /\ v.from = "authenticate"
    /\ validations' = [validations EXCEPT ![g] = @ \ {v}]
    /\ user' = [user EXCEPT ![v.sock] = IF @ = None THEN v.token ELSE @]
    /\ authenticated' = [authenticated EXCEPT ![g] = @ \cup {v.sock}]
    /\ UNCHANGED <<alive, sock, token, revoked, connected, timers, subscription, history>>

AuthenticateAccepted(g, v) ==
    /\ alive
    /\ v.from = "authenticate"
    /\ validations' = [validations EXCEPT ![g] = @ \ {v}]
    /\ user' = [user EXCEPT ![v.sock] = v.token]
    /\ authenticated' = [authenticated EXCEPT ![g] = @ \cup {v.sock}]
    /\ UNCHANGED <<alive, sock, token, revoked, connected, timers, subscription, history>>

\* "Don't disconnect immediately to allow retry"
AuthenticateRevoked(g, v) ==
    /\ alive
    /\ v.from = "authenticate"
    /\ v.token \in revoked
    /\ validations' = [validations EXCEPT ![g] = @ \ {v}]
    /\ UNCHANGED <<alive, sockets, connected, authenticated, timers, subscription, history>>

\* ClientAuthService.revokeToken, in this process or another.
Revoke(t) ==
    /\ alive
    /\ t \notin revoked
    /\ revoked' = revoked \cup {t}
    /\ UNCHANGED <<alive, sock, token, user, clients, subscription, history>>
-----------------------------------------------------------------------------
(***************************************************************************)
(* subscribeToWorkerResponses, which afterInit calls once, its retries,    *)
(* and the end of the unsubscribe that nobody awaits.                      *)
(***************************************************************************)

Subscribed(g) ==
    /\ alive
    /\ sub[g] = "subscribing"
    /\ sub' = [sub EXCEPT ![g] = "on"]
    /\ retries' = [retries EXCEPT ![g] = 0]
    /\ UNCHANGED <<alive, sockets, clients, history>>

\* Mutant: the retry starts counting anew, subscribeToWorkerResponses() as
\* afterInit calls it.
SubscribeFailsAnew(g) ==
    /\ alive
    /\ sub[g] = "subscribing"
    /\ sub' = [sub EXCEPT ![g] = IF MaxRetries > 0 THEN "waiting" ELSE "gaveUp"]
    /\ retries' = [retries EXCEPT ![g] = 0]
    /\ UNCHANGED <<alive, sockets, clients, history>>

SubscribeFails(g) ==
    /\ alive
    /\ sub[g] = "subscribing"
    /\ \/ /\ retries[g] < MaxRetries
          /\ sub' = [sub EXCEPT ![g] = "waiting"]
          /\ retries' = [retries EXCEPT ![g] = @ + 1]
       \/ /\ retries[g] >= MaxRetries
          /\ sub' = [sub EXCEPT ![g] = "gaveUp"]
          /\ retries' = [retries EXCEPT ![g] = 0]
    /\ UNCHANGED <<alive, sockets, clients, history>>

\* The backoff timer.
Resubscribe(g) ==
    /\ alive
    /\ sub[g] = "waiting"
    /\ sub' = [sub EXCEPT ![g] = "subscribing"]
    /\ UNCHANGED <<alive, sockets, clients, retries, history>>

Subscribing(g) == Subscribed(g) \/ SubscribeFails(g) \/ Resubscribe(g)

Unsubscribed(g) ==
    /\ alive
    /\ sub[g] = "leaving"
    /\ sub' = [sub EXCEPT ![g] = "off"]
    /\ UNCHANGED <<alive, sockets, clients, retries, history>>

\* An unhandled rejection ends the process.
UnsubscribeFails(g) ==
    /\ alive
    /\ sub[g] = "leaving"
    /\ alive' = FALSE
    /\ UNCHANGED <<sockets, clients, subscription, history>>

\* The lookup of a validation in flight is answered.
Answer(g, v) ==
    /\ v \in validations[g]
    /\ \/ ConnectAccepted(g, v) \/ ConnectRevoked(g, v)
       \/ AuthenticateAccepted(g, v) \/ AuthenticateRevoked(g, v)

Next ==
    \/ \E s \in Sockets :
          \/ ConnectAnonymous(s)
          \/ \E t \in Tokens : Connect(s, t) \/ Authenticate(s, t)
          \/ \E t \in BadTokens : ConnectRejected(s, t) \/ AuthenticateInvalid(s, t)
          \/ Leave(s)
    \/ \E g \in Gateways :
          \/ \E s \in Sockets : GraceOver(g, s)
          \/ \E v \in validations[g] : Answer(g, v)
          \/ Subscribing(g)
          \/ Unsubscribed(g) \/ UnsubscribeFails(g)
    \/ \E t \in Revocable : Revoke(t)

Spec == Init /\ [][Next]_vars

\* Timers fire, and Redis answers every lookup and every SUBSCRIBE, or rejects it.
FairSpec ==
    /\ Spec
    /\ \A g \in Gateways :
          /\ \A s \in Sockets : WF_vars(GraceOver(g, s))
          /\ \A v \in Validation : WF_vars(Answer(g, v))
          /\ WF_vars(Subscribing(g))
-----------------------------------------------------------------------------
(***************************************************************************)
(* Properties.                                                             *)
(***************************************************************************)

TypeOK ==
    /\ alive \in BOOLEAN
    /\ sock \in [Sockets -> {"new", "open", "closed"}]
    /\ token \in [Sockets -> Tokens \cup BadTokens \cup {None}]
    /\ user \in [Sockets -> Tokens \cup {None}]
    /\ revoked \in SUBSET Tokens
    /\ connected \in [Gateways -> SUBSET Sockets]
    /\ authenticated \in [Gateways -> SUBSET Sockets]
    /\ timers \in [Gateways -> SUBSET Sockets]
    /\ validations \in [Gateways -> SUBSET Validation]
    /\ sub \in [Gateways -> {"subscribing", "waiting", "on", "leaving", "off", "gaveUp"}]
    /\ retries \in [Gateways -> 0..MaxRetries]
    /\ abandoned \in [Gateways -> SUBSET Sockets]
    /\ overlapped \in SUBSET Sockets

\* No client stays on without a token: at every gateway an open socket is
\* authenticated, in its grace period, or waiting for handleConnection's answer.
AnonymousOnlyInGrace ==
    \A g \in Gateways, s \in Sockets :
        sock[s] = "open" => s \in authenticated[g] \/ s \in timers[g] \/ Connecting(g, s)

\* A gateway counts every open socket, once its handleConnection has finished.
OpenClientsAreCounted ==
    \A g \in Gateways, s \in Sockets :
        sock[s] = "open" => s \in connected[g] \/ Connecting(g, s)

\* A closed socket is left in a gateway's sets only if it closed while that
\* gateway was validating its token.
GhostsWereValidating ==
    \A g \in Gateways, s \in Sockets :
        sock[s] = "closed" /\ s \in connected[g] \cup authenticated[g] => s \in abandoned[g]

\* handleEvent sends client.data.token and client.data.user on together.  They are
\* of one token once no validation is in flight, unless the token was refused or
\* sent while an earlier one was being validated, whichever gateway answered last.
UserIsOfToken ==
    \A s \in Sockets :
        /\ sock[s] = "open" /\ s \notin overlapped
        /\ token[s] \in Tokens \ revoked
        /\ \A g \in Gateways : ~Validating(g, s)
        => user[s] = token[s]

\* A gateway stops listening to the workers only when the open sockets, if any,
\* are all waiting for handleConnection's answer.
UnsubscribeStep ==
    \A g \in Gateways : sub[g] = "on" /\ sub'[g] # "on" =>
        \A s \in Sockets : sock'[s] = "open" => Connecting(g, s)'
LastClientUnsubscribes == [][UnsubscribeStep]_vars

\* A socket that connects is authenticated at every gateway or closed in the
\* end, unless the process crashes.
GraceEnds ==
    \A s \in Sockets : sock[s] = "open" ~>
        \/ sock[s] = "closed" \/ ~alive
        \/ \A g \in Gateways : s \in authenticated[g]

\* The subscribing that afterInit begins ends at every gateway, in success or in
\* giving up, whoever connects, is thrown out or leaves between its attempts,
\* unless the process crashes.
SubscribingEnds ==
    <>(~alive \/ \A g \in Gateways : sub[g] \notin {"subscribing", "waiting"})

-----------------------------------------------------------------------------
(***************************************************************************)
(* What the repository says of the gateway and the code does not keep.     *)
(***************************************************************************)

\* README.md:14, "Real-time communication: WebSocket interfaces for immediate
\* client notifications": while a client is connected and authenticated, some
\* gateway listens to the workers, or still tries to or has failed to.
ClientsAreNotified ==
    alive /\ (\E s \in Sockets : sock[s] = "open" /\ \A g \in Gateways : s \in authenticated[g])
        => \E g \in Gateways : sub[g] \in {"subscribing", "waiting", "on", "gaveUp"}

=============================================================================
