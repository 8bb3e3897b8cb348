# Crux Router: specifications, model checking and proofs

TLA+ specifications of the NestJS service in `src/src`, TLC configurations that
check them on small instances, and proofs that TLAPS checks.  Paths below are
relative to `src/src` unless they say otherwise.

The service takes events from WebSocket clients (and a REST endpoint, and a Kafka
consumer), looks up the workflow template stored in Redis under the event's name,
gives every step of the template to a worker by pushing it on the worker's Redis
list, stores the workflow instance, and forwards what the workers publish to the
connected clients.  All state that outlives a process is in Redis.  A process is
one Node.js event loop: code is atomic from one `await` to the next, and
everything interesting happens between two awaits, between processes, or when a
command fails.

## 1. Inventory

| Component | State | Operations | Hard behaviour | What makes it correct |
|---|---|---|---|---|
| **Router** `router/router.service.ts` (lines 350-467; 15-346 is a former version, commented out), `router/redis-logger.service.ts` | local to a call: the template copy, the loop position, the chosen worker; in Redis `workflow:*`, `step_instance:*`, `worker_instance:*:queue`, `workflow_instance:*` | `routeEvent`: log, get the template, for each step get its definition, choose a worker, save the step, push it; store the instance; log | concurrent calls share step ids and definitions; three or more writes with no transaction; failures and crashes in the middle; resent commands | a queued step can be looked up and traced; order; a stored instance is complete; no call hangs |
| **Gateway, connections** `sources/websocket/websocket.gateway.ts` 33-170 | `connectedClients`, `authenticatedClients`, grace timers, `redisSubscribed`, `client.data` | `afterInit`, `handleConnection`, `handleDisconnect`, `handleAuthenticate`, `subscribeToWorkerResponses` | a client leaves or is thrown out while its token is validated; two gateways per process share the sockets; subscription retries; unsubscribe | who is counted, who may stay, who is notified, whose user is sent on with events |
| **Gateway, events** same file 172-285 | `rateLimiter` | `handleEvent`, `handleJoinRoom` | edges of the fixed window; every gateway handles every event, reads the clock for itself, and only one answer reaches the client | bound on bursts; nobody is refused for an older window; a refused event starts nothing; every event is answered |
| **Token validation** `sources/websocket/client-auth.service.ts` | `revoked_token:*` with a TTL | `validateToken`, `revokeToken` | fail-open when Redis is away; TTL at 0 or below, and counted from when the command is executed | a revoked token stays revoked while it is valid |
| **Redis service** `redis/redis.service.ts` | two clients, `activeSubscriptions`, health-check timer | `publish`, `subscribe`, `unsubscribe`, `connectClients`, `resubscribe`, health check | reconnection; a resubscription racing an unsubscribe; listeners that pile up | one callback per subscription |
| **ioredis provider** `redis/redis.provider.ts` | the connection | retry strategy | resends commands whose reply was lost | (environment of the router) |
| **Kafka consumer** `sources/kafka/*` | `messageRetryCount`, consumer and producer | `connectWithRetry`, `subscribeAndRun`, `handleFailedMessage`, `sendToDLQ` | errors are swallowed before KafkaJS could redeliver; connect returns early | a message is processed, retried or dead-lettered |
| **Credentials** `sources/websocket/websocket.controller.ts` | `user:<name>` | login with registration, tokens, revocation, broadcast | read-modify-write in separate commands, any of which may fail unnoticed; a record that expires in between | logins leave a complete record alone; a token names the id of the record its password was checked against |
| **REST API** `sources/api/api.controller.ts` | none | calls `routeEvent` without awaiting it | a rejection is unhandled and ends the process | (a source of calls and crashes of the router) |
| **Socket.IO adapter** `router/redisio-adapter.ts` | a library's | emits reach all processes | a response is emitted by each subscribed gateway of each process | a client gets a response once |
| **Wiring** `main.ts`, `app.module.ts`, `*.module.ts` | none | | `WSGateway` and `RedisService` are providers of two modules, so a process has two of each | |
| **Workers, worker manager** (not in the repository) | they pop the queues and rewrite `workflow:*` | | | |

Interactions: gateway -> `ClientAuthService.validateToken` -> Redis; gateway and
REST -> `RouterService.routeEvent` -> Redis; Redis lists -> workers; workers ->
Redis channel `worker_responses` -> every subscribed gateway -> clients.  The
gateways of a process share the socket and its `client.data`; calls of
`routeEvent` share only Redis.  The full list of hazards, each at its source line
and with the properties that would catch it, is in `PROJECT.json`.

## 2. Modules

    WorkflowDispatch           what routeEvent promises about one workflow
        ^ implemented by (ImplementsDispatch, refinement mapping Dispatch)
    WorkflowRouter             routeEvent, one action per Redis command
        WorkflowRouterProofs     type correctness, step hashes
        WorkflowStorageProofs    queues, stored instances, the refinement, final keys
        MCWorkflowRouter         templates and definitions for TLC
    RateLimiter                handleEvent's fixed-window limiter
        RateLimiterProofs
        MCRateLimiter
        ^ extended by
    EventFlow                  an event through all gateways to its one answer
        EventFlowProofs
        MCEventFlow
    WSGateway                  connections of the two gateways of a process
        WSGatewayProofs
        MCWSGateway
    Accounts                   logins, tokens and revocations
        AccountsProofs
        MCAccounts
    GroupDelivery              what the consumer group promises of each partition
        ^ implemented by (ImplementsDelivery, refinement mapping Delivery)
    KafkaConsumer              eachMessage, retry counts and dead letters
        KafkaConsumerProofs
        MCKafkaConsumer

### WorkflowRouter (`router.service.ts` 350-467)

`Calls` is the set of calls of `routeEvent`, in one process or in several; `pc[c]`
is the Redis command call `c` awaits, and an action is that command with the code
up to the next one:

| pc | command | then |
|---|---|---|
| `logRequest` | `RedisLoggerService.logRequest` | read the template |
| `getTemplate` | `get workflow:<event>` | missing: log and throw; malformed: throw; else copy the template, take `current_step`, enter the loop |
| `getStepDef` | `get workflow:<step key>` (after the step was given an id) | no definition object: throw; none stored or no workers: skip the step; else choose the worker with the fewest threads |
| `saveStep` | `hset step_instance:...` | |
| `pushStep` | `lpush worker_instance:...:queue` | next step |
| `saveInstance` | `hset workflow_instance:...` | |
| `logResponse` | log the answer | `workflow_started` |

A call stands for the uuids it makes: `c` is its `workflow_instance_id`, `<<c, n>>`
the id it gives to step `n`.  What a value holds beyond step ids, keys and thread
counts is left out, and so are log entries.  `RedisFail` rejects the awaited
command (`routeEvent` has no `try`); `LostReply` is a write that was executed and
will be resent by ioredis; `Crash` ends any set of calls; `Configure` rewrites a
definition; `WorkerPop` takes an item from a queue.  The last two are external:
nothing in `src/` does them.  `Receive` also stands for a REST call: that
`ApiController` does not await `routeEvent` and so lets its rejection end the
process is why a crash can strike any call at any await.

`WorkflowDispatch` says what remains when the Redis commands are forgotten: steps
are handled one after the other, the instance is stored when all are handled, and
only a stored workflow is reported.  The refinement mapping (`Dispatch`, at the
end of `WorkflowRouter`) takes `phase` from `pc`, `handled` from `pos`, and `sent`
from the history variable that counts pushes; its parts are operators of their
own (`Phase`, `PlannedSteps`, `HandledSteps`, `SentSteps`, `IsStored`).

### RateLimiter (`websocket.gateway.ts` 27-29, 172-264)

One action per event, because no await separates the lookup of the window from
its update: `NewWindow`, `CountEvent`, `Refuse`.  `Disconnect` and `Authenticate`
are there to show that reconnecting with the same id changes nothing; `Tick` is
`Date.now()`, assumed never to go back.  `accepted` and `refused` are history.
`RateBound(k)` bounds the events in a time of `k` windows (`Quota`, `Span`): a burst
around the end of a window is possible, but it is paid for by the windows beside it,
so that bursts do not add up.

### EventFlow (`websocket.gateway.ts` 172-264)

`EventFlow` extends `RateLimiter` with clients that are pairs of a gateway and a
socket, so each gateway has its own `rateLimiter` and `authenticatedClients`.  An
event that reaches the process (`Receive`) is in `turn` until every gateway has
handled it: Nest binds the handler of each to the socket, and up to the await of
`routeEvent` nothing but the clock (`ClockMoves`) comes in between.  A handler
finds the client unauthenticated (`Unauthorized`), over its limit (`Limited`) or
passes the limiter (`Passed`) and routes the event, unless it is nameless, which
is looked at only then.  `RouteEnds` is the answer of `routeEvent`, at each gateway
at a time of its own; what `routeEvent` does is `WorkflowRouter`'s.  The process lives
on: a crash, which leaves its events without an answer, is left out.  `told` is what
the client gets: Socket.IO sends the first acknowledgement and drops the rest.

When do two limiters that count the same events differ?  The history variables
give the exact answer the properties need: `diverged` holds the sockets of events
that only some gateways accepted as authenticated, or between whose handlers the
clock moved, until an event opens a new window at every gateway; `split` holds the
events met in that state.

### Accounts (`websocket.controller.ts` 40-142, 218-298; `client-auth.service.ts` 22-72; `redis.service.ts` 89-121)

`Calls` are logins under one user name (`POST websocket/token`), in one process or in
several; records of different names share nothing.  A call stands for the uuid it
may generate and for the token it signs.  `pc[c]` is the command it awaits:
`validate` (read the record), `register` (write a new one), `getId` (read it again),
`saveId` (write it back with an id), `store` (write `user_token:*`, which nobody
reads).  Every read may be answered with `null` and every write may be lost, because
`RedisService` swallows the errors of `get` and `set`; `Crash` ends a call between
two commands; `Tick` lets records and revocations expire.  `TestToken` signs a token
without a record.

`Revoke` computes the TTL of a revocation and `Revoked` is the `SET`, executed at
any later time, after which the key lives for that TTL; without one at 0, and not at
all below (Redis refuses it).  `Verify` and `Lookup` are `validateToken` before and
after its await, `LookupFails` the lookup answered with `null`.

First logins of a user do overwrite one another, so the properties have to say from
when on they no longer do.  The history variable `settled` is the record from the
moment it is `Complete` on: it has an id, no login has found it missing or without id
and is about to write it, and those past the check of the password gave the one in it.
Other logins may be in flight and more may come.  It is given up only when the record
expires or a lookup of it fails; until then nothing may change the record, and tokens
are signed for its password and id only.  `lone` is a login that is alone from its
first command on and whose commands Redis executes: `LoneLoginSettles` says that when
it signs its token the record is settled with the id in the token, whatever earlier
logins that failed or crashed left there.

### WSGateway (`websocket.gateway.ts` 33-170, `client-auth.service.ts` 22-72)

One gateway is one element of `Gateways`; the sockets, their `client.data`
(`token`, `user`) and the revocations are shared.  `Connect` and `Authenticate`
put a validation in flight at every gateway (Nest gives both every connection and
message); `Answer` is the reply to it, at each gateway at a time of its own:
`ConnectAccepted`, `ConnectRevoked`, `AuthenticateAccepted`,
`AuthenticateRevoked`.  A token that does not verify is refused before the await.
`Close` is the `handleDisconnect` of all gateways, which `client.disconnect(true)`
runs before it returns.  `sub` is the subscription to `worker_responses` with its
retries (`Subscribing`), which must come to an end whatever the clients do
(`SubscribingEnds`); a rejected `unsubscribe` is unhandled and ends the process.
A lookup that fails is answered with `null` by `RedisService.get`, so an accepted
answer needs no guard on `revoked`: the code fails open.

`handleConnection` and `handleAuthenticate` write `client.data.token` before their
await and `client.data.user` after it, each gateway for itself, and `handleEvent`
sends both on.  The history variable `overlapped` (`NoteOverlap`) holds the open
sockets whose last token came while another of theirs was being validated; for the
others `UserIsOfToken` says that token and user are of one token as soon as nothing is
in flight, provided the token verifies and was not revoked.  Without the exception TLC
finds a socket that connects with one token and sends another, where the answer to
the first comes last.

### KafkaConsumer (`sources/kafka/kafka.service.ts`)

The group, its partitions and its offsets are Kafka's and are modelled as KafkaJS
shows them: `Assign` gives a partition to a consumer, which continues at the
committed offset or, without one, at the end (`fromBeginning: false`); `Commit`
may come at any later time; a takeover may find the old consumer in the middle of
a message, which then no longer moves the partition.  `Receive` is `eachMessage`
up to its first await; `Routed`, `RouteFails`, `DeadLetterSent` and
`DeadLetterFails` are the answers to `routeEvent` and `producer.send`.  What
`routeEvent` does is `WorkflowRouter`'s; here it succeeds or fails.  `MessageId` is
any function: messages share an id when they share a key, or have the same
timestamp and offset in different partitions.  `failures` and `dead` count, for each
consumer and id, the calls of `handleFailedMessage` and the dead letters sent, over
restarts, which `messageRetryCount` forgets.  `KafkaModule`'s factory returns
`undefined` when Kafka is enabled, so as wired the service is never created; the
module describes the class.

`GroupDelivery` forgets the consumers, their positions and their counts.  For each
partition there is what was produced, from where the group reads (`base`), which
messages were handled and what is committed.  Messages are handled for the first time
in order, may be handled again, and are committed once all before them are handled;
the commit never goes back.  What was produced before the group began to read is left
out, and so is, as long as nothing is committed, what came while the partition had no
consumer (`BeginAtEnd`).  `Delivery` maps `handled` to the `ended` of `KafkaConsumer`;
the other variables are the same.

## 3. Runs

| Run | Instance | Shows |
|---|---|---|
| `RouterSafety` | 2 calls, 2 workers, 2 keys, a two-step template (one id of its own, one generated), definitions that change load, lose and regain workers, 1 lost reply | type invariant; a queued step has its hash; generated ids are traceable; queue order; completeness of stored instances; number of pushes; what is written under a generated id is final |
| `RouterDispatch` | the same, templates that are empty, begin with a step without id, or contain a step without definition; fair | `routeEvent` implements `WorkflowDispatch`; stored instances are complete, `current_step` included; every call ends |
| `LimiterSafety` | 2 clients, limit 2, window 1, clock to 4 | at most `(k + 1) * Limit - 1` events in the time of `k` windows; only a busy client is refused, and never for another's events |
| `GatewaySafety` | 2 gateways, 2 sockets, one good token and one bad | nobody stays without authentication after the grace period; open sockets are counted; ghosts closed during a validation; when a gateway unsubscribes |
| `GatewayGrace` | 2 gateways, 1 socket, two good tokens, 1 retry; fair | a socket is authenticated everywhere or closed in the end; every gateway subscribes or gives up; a socket's user is of its token unless tokens overlapped or were refused |
| `AccountsSafety` | 3 logins with 2 passwords, one token that is validated and revoked, 2 revocations in flight; tokens live 1, records 2, the buffer is 1, the clock runs to 3 | logins leave a settled record alone and sign tokens for its password and id only; an undisturbed login settles it; a revoked token is refused |
| `EventFlow` | 2 gateways, 1 socket, 3 events, the second without a name, limit 2, window 1, clock to 4; fair | the gateways' windows stay equal; a client told of a refusal started nothing; every event is answered |
| `KafkaGroup` | 2 consumers, a partition of 4 messages (one malformed, one empty, three under one id), 1 retry, 2 crashes or takeovers; fair | the group implements `GroupDelivery`; nothing is committed unhandled; a dead letter stands for `MAX_RETRY_ATTEMPTS + 1` failures at its own consumer; a failing message holds up no other |
| `RouterOrphans` | as `RouterSafety` | violated: a failure after the first push leaves steps of a workflow that is never stored, against `README.md:15` of the repository |
| `RouterTraceability` | as `RouterSafety` | violated: runs of a template share the ids written in it, so a step's hash can name another worker, against `router.service.ts:424` |
| `GatewayDeaf` | as `GatewaySafety` | violated: after its last client left, or one was rejected while another was validated, a gateway never listens again, against `README.md:14` |
| `KafkaRetries` | as `KafkaGroup` | violated: a message whose retry was announced is committed instead, against `sources/kafka/kafka.service.ts:103` |

**Bounds.**  Two calls are enough for every conflict the router has: calls
interact only through one hash, one list or one definition, which takes two.  Two
steps give a first and a last step and, with one id of its own and one generated,
both kinds.  Two workers make a change of choice visible.  One lost reply is one
duplicate; the proofs do not need the bound.  Two sockets are enough for "the last
client leaves while another connects"; the two gateways are what a process has.
`Limit = 2`, `Window = 1` and four ticks hold three windows (one is left at the first
tick after its end), so that a burst around the end of a window reaches
`RateBound(1)` exactly and two such bursts in a row come under `RateBound(2)`.  The
gateway runs with a grace timer but no bound on time: a timer may fire whenever it runs.
`MaxRetries = 0` in `GatewaySafety` keeps the state space small (the counter of
retries is independent of the clients); `GatewayGrace` has a retry, and one socket
with two tokens, so that validations of different tokens overlap at two gateways;
`Revocable` bounds the tokens somebody revokes to one of them, so that a revoked and
an accepted token meet in one socket.
A socket has each token validated once at a time, a bound in `Authenticate`'s guard.
Three messages under one id and one retry are enough for a message to be counted,
one to be given up and a third to meet the count that is left; two moves let a
partition go to another consumer and come back to a count that was kept.
In `AccountsSafety` three logins are two that conflict and one that meets what they
left, while `Watched` (the tokens that are validated or revoked) is one of them:
tokens do not interact.  `MaxRevoking = 2` lets two revocations of a token overtake
each other, and three ticks outlive a token, its buffer and a record.  In `EventFlow`
three events fill a limit of two, `MaxEvents` and `Nameless` being the bound on the
events and those without a name; four ticks hold a window, its end and a second one;
sockets do not interact (`LimiterSafety` has two clients), so one is enough.

**Symmetry** (calls, passwords, clients, gateways, sockets) is used in safety runs
only; in `AccountsSafety` the calls that are not watched are permuted.
**Deadlock.**  The accounts, event, gateway and Kafka runs disable the check, because
nothing is left to happen there once every login has ended and the clock is at its
bound, every event is answered, every socket has closed, its subscriptions are over
and the tokens are revoked, or every message is committed.

**Fairness.**  Router: weak fairness of `CallStep(c) \/ RedisFail(c)`, one
condition per call: a command is answered or rejected (ioredis resends it over
reconnections and gives up after a number of them), and the event loop runs the continuation.  Nothing
is assumed of `Receive`, `Crash`, `Configure`, `WorkerPop` or `LostReply`.
Gateway: weak fairness of each grace timer, of each answer, and of each gateway's
`Subscribing`, since Redis executes or rejects a command and the backoff timer fires;
none of clients, revocation or unsubscribing.  Kafka: weak fairness of starting a process, of giving
an unowned partition to a consumer and of answers, strong fairness of reading a
partition on, since a consumer of several partitions takes turns; none of commits,
and crashes are bounded.
Events: weak fairness of each gateway's handler of each event, since the event loop
runs every listener of an emitted event, and of the end of each `routeEvent`, which
is `EveryCallEnds` of the router; none of clients, authentication or the clock.

`EveryCallEnds` holds because the loop moves forward with each pushed or skipped
step and nothing is asked for twice: with the template asked for again when it is
missing, TLC finds a call that never ends.

## 4. Proofs

TLAPS checks the theorems below for every value of the constants that satisfies
the named assumptions (`RouterAssumption`, `LimiterAssumption`, `FlowAssumption`,
`GatewayAssumption`, `AccountsAssumption`, `KafkaAssumption`): any number of calls,
workers, keys, steps, gateways, sockets, events, consumers and messages, any `Limit`,
`Window`, lifetimes and bounds.  Every safety property the passing runs check is
proved.  In each module `Spec => []IInv` comes first, under the name given below, and
the properties follow from it.

`WorkflowRouterProofs`
- `InductiveInvariant`: `Spec => []IInv`.  `TypeOK` alone is not inductive: that a
  stored instance has an id for every step depends on how far the loop is.  `IInv`
  adds, for each call, where it is and what its copy of the template looks like
  there (`CallInv`: all steps before `pos` have ids, a call about to push has saved
  the step), and for each queued item which call pushed it and how far that call
  has come since (`ItemInv`: a fresh step `<<c, n>>` is queued only after call `c`
  saved it, and `c` saves its `n`-th step only before that).
- `TypeCorrect` (`TypeOK`), `SavedBeforeQueued` (`QueuedStepsAreSaved`),
  `FreshTraceable` (`FreshStepsAreTraceable`): consequences.

`WorkflowStorageProofs`
- `StorageInvariant`: `Spec => []StorageInv`, on top of `IInv`.  For each call: what
  lies behind the loop was pushed or skipped, a push is counted at most once for a
  position behind it and otherwise for lost replies only (`CopyInv`), the current step
  is the first id of the template unless that was a generated one (`CurrentInv`), and a stored
  instance is the copy of a call whose loop is over (`StoredInv`).  For each queued
  item: its call has come to it (`Placed`), without which the order in a queue is not
  inductive: a push must not come before what is queued.  The actions are first
  sorted into five forms (`Quiet`, `Pushes`, `Saves`, `Names`, `Loads`), and each form
  is looked at once.
- `QueueInOrder` (`QueueFollowsTemplate`), `PushedOnce` (`PushesAreBounded`),
  `StoredComplete` (`StoredInstanceIsComplete`).
- `GeneratedKeysFinal` (`GeneratedKeysAreFinal`): an action property.  A resent
  `hset` writes again what a worker may be reading, after the definition it was made
  from has changed; it writes the same because a call keeps its choice until the step is
  pushed.  `HashInv` adds what that takes: the step at the loop's position has no hash
  before it is saved, and while it is being saved none but the one about to be written.
- `RouterImplementsDispatch` (`ImplementsDispatch`): the initial states of the router
  map to initial states of `WorkflowDispatch`, and each of the five forms to one of
  its steps or a stutter.

`RateLimiterProofs`
- `LimiterInvariant`: the window's count says which of the accepted events opened
  it, and for every `k` all but the last `Quota(k)` events before it are more than `k`
  windows older than that one (`WindowInv`).  A burst that spans two windows is bounded
  by the case `k = 1`, which the counter alone does not show; a new window moves each
  case to the next, which is why the invariant needs all of them.
- `RateIsBounded`: `Spec => []RateBound(k)` for every positive `k`, beyond the bound of
  the clock that `BurstBound` has for TLC's sake.
- `LimiterTypes` (`TypeOK`, with the end of a window at most `Window` ticks ahead), `BurstsAreBounded` (`BurstBound`), `RefusalsAreEarned` (`RefusedOnlyWhenBusy`).

`EventFlowProofs`
- `FlowInvariant`: `FlowSpec => []FlowInv`, which contains `LimiterInv`.  `TwinWindows`
  says something only between events.  What holds while one is handled (`TwinInv`):
  the window of a gateway that is done is what the event makes of the window of one
  that is still to come (`After`).  `AgreeInv` says the same of verdicts: a gateway
  that is done has refused the event if and only if one to come will.
- `FlowTypes` (`FlowTypeOK`), `GatewaysKeepInStep` (`TwinWindows`), `RefusalsAreTrue` (`RefusedMeansNotRouted`).
- `EveryGatewayLimits`: `FlowSpec => []RateBound(k)`, from the `LimiterInv` in
  `FlowInv`: the bound of `RateIsBounded` at each gateway, for each socket.

`WSGatewayProofs`
- `GatewayInvariant`: `Spec => []IInv`.  `IInv` (`ClientInv`) says what each gateway
  knows of each socket, open or closed.  The addition that makes it inductive is
  about closed sockets: one that is still being validated is already known as
  abandoned, since the answer will put it into the gateway's sets.
- `GatewayTypes` (`TypeOK`), `NoAnonymousClient` (`AnonymousOnlyInGrace`),
  `OpenCounted` (`OpenClientsAreCounted`), `GhostsExplained`
  (`GhostsWereValidating`): consequences.
- `UnsubscribedByLast` (`LastClientUnsubscribes`): an action property.  Only a
  closing socket takes a gateway's subscription from `on`, and then the gateway
  counts nobody, so by the invariant every open socket is still being validated.
- `UserOfToken` (`UserIsOfToken`).  That the last answer settles the user is not
  inductive; `TokenInv` says what holds on the way: of an open socket whose token did
  not overlap every validation in flight is of its token, and until the first gateway
  accepts it all of them are still at it.  This is where `GatewayAssumption` says that
  there is a gateway at all.

`AccountsProofs`
- `AccountsInvariant`: `Spec => []IInv`.  `IInv` adds that a call about to write a
  password has one (`LocalInv`), that a settled record stays `Complete` (`SettledInv`),
  how far an undisturbed login has brought the record at each command (`LoneInv`), and
  that the key
  of a stored revocation, like one that is still to be stored, outlives the token by
  the buffer (`RevocationInv`).
- `AccountsTypes` (`TypeOK`), `SettledRecordIsKept` (`SettledIsKept`), `LoneLogins`
  (`LoneLoginSettles`),
  `SettledLogins` (`SettledTokens`), `RevocationsHold` (`RevokedIsRefused`); the last
  two are action properties.

`KafkaConsumerProofs`
- `KafkaInvariant`: `Spec => []CountedInv`.  All messages between the base of a
  partition and its position, or its committed offset, have ended (`ReadInv`); a
  consumer that handles a message of its own partition handles the next one
  (`InHand`), so that a stale consumer never moves a partition; and the failures of a
  consumer cover its dead letters, what it still counts and the dead letter it is
  sending (`CountInv`).  The last one holds for each consumer and would not hold for
  their sum alone, since each has its own counts.
- `KafkaTypeCorrect` (`TypeOK`), `CommittedHandled` (`CommittedAreHandled`),
  `DeadLettersEarned` (`DeadLettersAreEarned`).
- `GroupImplementsDelivery` (`ImplementsDelivery`): a step of the group is a step of
  `GroupDelivery` or a stutter.  `OffsetsInv` relates the offsets, so that a commit
  never goes back; `Ready` says of every message in hand, the stale consumer's too, that
  all before it have ended, without which a consumer that lost its partition could
  finish a message out of order.  The actions are sorted into those that leave the
  messages alone, those that take one and those that finish one (`Keeps`, `Takes`,
  `Finishes`).

**Only model-checked**: the liveness properties `EveryCallEnds`, `GraceEnds`,
`SubscribingEnds`, `EventsAreAnswered` and `EveryMessageEnds`.  Liveness under fairness and `ENABLED`
are out of the prover's reach.  The four properties of the runs that expect a
violation do not hold.

## 5. Observations without a run

- The limiter's window is fixed, so up to `2 * RATE_LIMIT - 1` messages pass in
  one minute, against the comment at `websocket.gateway.ts:28` ("messages per
  minute"); `BurstBound` is the bound that holds.
- With two gateways in a process an event that is routed is routed by both: two
  workflows are started, and the client hears of the one that answers first.
- `current_step` is taken from the template before ids are generated
  (`router.service.ts:382`), so it is empty for a template whose first step has no id;
  the README of the repository (line 80) shows it as the id of the first step.
  `StoredInstanceIsComplete` states what does hold: it is the id the template gave its
  first step, or none.  A call that fails only in its last log entry answers with an
  error for a workflow that is stored and started (`router.service.ts:456`).
- A client that leaves while its token is validated is added to the gateway's sets
  afterwards and counted for good (`websocket.gateway.ts:97`, reported at 288);
  `GhostsWereValidating` says that no others are.
- A refused `authenticate` message replaces `client.data.token` but not
  `client.data.user` (`websocket.gateway.ts:139`), and of overlapping ones the last
  answer sets the user, whichever token came last; `handleEvent` sends both on.
  `UserIsOfToken` says that nothing else takes them apart.
- Until the group has committed an offset, `fromBeginning: false` makes every consumer
  that is given the partition begin at its end: messages that were in hand when a
  consumer crashed, or came while there was none, are left out for good
  (`BeginAtEnd` of `GroupDelivery`; `ImplementsDelivery` says that this ends with the
  first commit).
- Concurrent first logins of a user overwrite each other's password or id, a lookup
  that fails makes a login overwrite a complete record, and a record that expires
  between its two reads leaves a token with an id that is stored nowhere; `SettledIsKept`
  and `SettledTokens` say when none of this happens.
- Failures are counted by message id, so messages that share a key share the count and
  one may go to the dead letters for the failures of another; `DeadLettersAreEarned`
  says that there were enough of them.
- `main.ts` validates bodies with `whitelist` and `forbidNonWhitelisted`, and the
  bodies of `WebSocketController` have no decorated properties, so as wired the pipe
  refuses them; `Accounts` describes the controller's methods.
- The thread counts behind the choice of a worker are never updated
  (`router.service.ts` 419-422 are commented out).
- `RedisService.get` answers `null` when Redis fails, so a revoked token is
  accepted while Redis is away, and a login takes an existing user for a new one.

## 6. Not modelled, and why

- Logging, configuration, JWT cryptography, Socket.IO's adapter and HTTP plumbing
  keep no state of their own or are a library's.
- `RedisService`'s connecting, health check and resubscription: what they do depends
  on what node-redis does with a second `connect`, with an error without a listener
  and with its own reconnection, none of which is in `src/`; a model would be of
  guesses.  The other commands of the class are wrappers that nothing calls.
- `connectWithRetry` of `KafkaService`, whose failed first attempt lets
  `subscribeAndRun` run on a consumer that is not connected: KafkaJS decides what
  happens then.
- Rooms, broadcasts and the emission of worker responses: `handleJoinRoom`, the
  broadcast endpoints and the subscription callback call Socket.IO and keep nothing.
- `RedisEventListenerService` is not provided by any module.  Reading endpoints
  (`getRecentLogs`, lists of connections) change nothing.

## 7. Plan

Done: `WorkflowRouter` with `WorkflowDispatch`, `RateLimiter`, `WSGateway`,
`KafkaConsumer` with `GroupDelivery`, `Accounts` (credentials and the revocation of tokens), `EventFlow`
(gateways and limiters composed), and the proofs of all their safety properties.

Left:
1. `ResponseFanout`: a worker response through gateways and processes to a client;
   it would be about Socket.IO's adapter more than about this code.
2. `WSGateway` and `EventFlow` composed over one `authenticatedClients`, which now
   stand side by side: clients that leave between two events of theirs.
