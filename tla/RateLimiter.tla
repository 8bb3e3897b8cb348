----------------------------- MODULE RateLimiter -----------------------------
(***************************************************************************)
(* WSGateway.handleEvent up to the call of routeEvent: the fixed-window    *)
(* rate limiter of one gateway.  No await separates the lookup of a        *)
(* client's window from its update, so one event is one action.  What      *)
(* follows changes nothing here: an event without a name is answered with  *)
(* an error although it has used up its share of the window, any other is  *)
(* routed (WorkflowRouter).  An event of a client that is not              *)
(* authenticated is answered before the limiter and is not an action.      *)
(***************************************************************************)
EXTENDS Naturals, Sequences

CONSTANTS
    Clients,    \* socket ids
    Limit,      \* RATE_LIMIT
    Window,     \* RATE_WINDOW, in ticks of the clock
    MaxTime,    \* bound on the clock
    None        \* no window

ASSUME LimiterAssumption ==
    /\ Limit \in Nat \ {0}
    /\ Window \in Nat
    /\ MaxTime \in Nat
    /\ None \notin [count : Nat, resetTime : Nat]

VARIABLES
    now,            \* Date.now()
    authenticated,  \* authenticatedClients
    rateLimiter,    \* clientId -> window
    accepted,       \* history: when events of each client passed the limiter
    refused         \* history: when, and after how many accepted events

vars == <<now, authenticated, rateLimiter, accepted, refused>>

WindowRecord == [count : 1..Limit, resetTime : Nat]

Init ==
    /\ now = 0
    /\ authenticated = {}
    /\ rateLimiter = [c \in Clients |-> None]
    /\ accepted = [c \in Clients |-> <<>>]
    /\ refused = [c \in Clients |-> {}]

\* Mutant: a window that is about to end is taken for ended.
ExpiredEarly(c) == rateLimiter[c] # None => now >= rateLimiter[c].resetTime

\* !limit || now > limit.resetTime
Expired(c) == rateLimiter[c] # None => now > rateLimiter[c].resetTime

\* Mutant: one event too many.
FullLate(c) == rateLimiter[c].count > Limit

\* limit.count >= this.RATE_LIMIT
Full(c) == rateLimiter[c].count >= Limit

\* The event goes on to the validation of its name and to routeEvent.
Accept(c) == accepted' = [accepted EXCEPT ![c] = Append(@, now)]

\* Mutant: one window for all clients.
OpenWindowShared(c) ==
    rateLimiter' = [d \in Clients |-> [count |-> 1, resetTime |-> now + Window]]

\* limit = { count: 1, resetTime: now + this.RATE_WINDOW }
OpenWindow(c) ==
    rateLimiter' = [rateLimiter EXCEPT ![c] = [count |-> 1, resetTime |-> now + Window]]

NewWindow(c) ==
    /\ c \in authenticated
    /\ Expired(c)
    /\ OpenWindow(c)
    /\ Accept(c)
    /\ UNCHANGED <<now, authenticated, refused>>

\* limit.count++
CountEvent(c) ==
    /\ c \in authenticated
    /\ ~Expired(c)
    /\ ~Full(c)
    /\ rateLimiter' = [rateLimiter EXCEPT ![c] =
                            [count |-> @.count + 1, resetTime |-> @.resetTime]]
    /\ Accept(c)
    /\ UNCHANGED <<now, authenticated, refused>>

\* "Rate limit exceeded. Try again later."
Refuse(c) ==
    /\ c \in authenticated
    /\ ~Expired(c)
    /\ Full(c)
    /\ refused' = [refused EXCEPT ![c] = @ \cup {[at |-> now, after |-> Len(accepted[c])]}]
    /\ UNCHANGED <<now, authenticated, rateLimiter, accepted>>

\* The gateway adds the client to its set, or removes it when it disconnects;
\* neither touches the client's window.
Authenticate(c) ==
    /\ c \notin authenticated
    /\ authenticated' = authenticated \cup {c}
    /\ UNCHANGED <<now, rateLimiter, accepted, refused>>

Disconnect(c) ==
    /\ c \in authenticated
    /\ authenticated' = authenticated \ {c}
    /\ UNCHANGED <<now, rateLimiter, accepted, refused>>

Tick ==
    /\ now < MaxTime
    /\ now' = now + 1
    /\ UNCHANGED <<authenticated, rateLimiter, accepted, refused>>

Next ==
    \/ Tick
    \/ \E c \in Clients :
          \/ Authenticate(c)
          \/ Disconnect(c)
          \/ Refuse(c)
          \/ NewWindow(c)
          \/ CountEvent(c)

Spec == Init /\ [][Next]_vars
-----------------------------------------------------------------------------
(***************************************************************************)
(* Properties.                                                             *)
(***************************************************************************)

\* Every variable has its type; no window counts more than Limit events, and
\* none outlasts the next Window ticks.
TypeOK ==
    /\ now \in 0..MaxTime
    /\ authenticated \in SUBSET Clients
    /\ rateLimiter \in [Clients -> WindowRecord \cup {None}]
    /\ \A c \in Clients : rateLimiter[c] # None => rateLimiter[c].resetTime <= now + Window
    /\ accepted \in [Clients -> Seq(Nat)]
    /\ refused \in [Clients -> SUBSET [at : Nat, after : Nat]]

\* What k windows let pass, and how long they last.
Quota(k) == k * Limit
Span(k) == k * Window

\* In a time of k windows a client gets fewer events past the limiter than k + 1
\* windows let pass.
RateBound(k) ==
    \A c \in Clients : \A m, n \in DOMAIN accepted[c] :
        n = m + Quota(k + 1) - 1 => accepted[c][n] > accepted[c][m] + Span(k)

\* What a burst around the end of a window can reach (k = 1), and what a client
\* that keeps sending gets in the long run, however its events, its windows and
\* its reconnections fall.  No time within the bound is longer.
BurstBound == \A k \in 1..(MaxTime + 1) : RateBound(k)

\* An event is refused only when the client really got Limit events past the
\* limiter in the last Window ticks: nobody pays for an older window.
RefusedOnlyWhenBusy ==
    \A c \in Clients : \A r \in refused[c] :
        /\ r.after >= Limit
        /\ accepted[c][r.after - Limit + 1] + Window >= r.at

=============================================================================
