-------------------------- MODULE RateLimiterProofs --------------------------
(***************************************************************************)
(* The rate limiter's bounds, for any Limit, any Window and any clock.     *)
(***************************************************************************)
EXTENDS RateLimiter, TLAPS

\* The position in accepted[c] of the event that opened the client's window.
Opening(c) == Len(accepted[c]) - rateLimiter[c].count + 1

Timely(c) ==
    \A m, n \in DOMAIN accepted[c] :
        /\ accepted[c][n] <= now
        /\ m <= n => accepted[c][m] <= accepted[c][n]

(***************************************************************************)
(* The inductive invariant.  The window's count tells which events fall in *)
(* it, and the events before it, all but the last k * Limit of them, are   *)
(* more than k times Window older than the one that opened it: that is     *)
(* what bounds a burst that spans two windows or more.                     *)
(***************************************************************************)
WindowInv(c) ==
    /\ rateLimiter[c] = None => accepted[c] = <<>>
    /\ rateLimiter[c] # None =>
          /\ Opening(c) \in DOMAIN accepted[c]
          /\ rateLimiter[c].resetTime = accepted[c][Opening(c)] + Window
          /\ \A m \in DOMAIN accepted[c], k \in Nat \ {0} :
                m + Quota(k) <= Opening(c) =>
                    accepted[c][Opening(c)] > accepted[c][m] + Span(k)

LimiterInv ==
    /\ TypeOK
    /\ \A c \in Clients : Timely(c) /\ WindowInv(c)
    /\ \A k \in Nat \ {0} : RateBound(k)
    /\ RefusedOnlyWhenBusy
    /\ \A c \in Clients : \A r \in refused[c] : r.after <= Len(accepted[c])

-----------------------------------------------------------------------------
\* One window more, or one less, is Limit events and Window ticks.
LEMMA Times ==
    ASSUME NEW k \in Nat \ {0}
    PROVE  /\ Quota(k) \in Nat /\ Span(k) \in Nat
           /\ Quota(k) >= Limit
           /\ Quota(k + 1) = Quota(k) + Limit
           /\ k - 1 \in Nat /\ Quota(k - 1) \in Nat /\ Span(k - 1) \in Nat
           /\ Quota(k) = Quota(k - 1) + Limit /\ Span(k) = Span(k - 1) + Window
           /\ Quota(0) = 0 /\ Span(0) = 0
<1>1. ASSUME NEW n \in Nat, NEW j \in Nat
      PROVE  j * n \in Nat /\ (j + 1) * n = j * n + n /\ 0 * n = 0
  OBVIOUS
<1>2. k - 1 \in Nat /\ (k - 1) + 1 = k
  OBVIOUS
<1>3. \A n \in Nat : k * n = (k - 1) * n + n /\ (k - 1) * n \in Nat
  BY <1>1, <1>2
<1>4. QED
  BY <1>1, <1>2, <1>3, LimiterAssumption DEF Quota, Span

\* An event that passes the limiter is the last of the client's, no other moves.
LEMMA AcceptFacts ==
    ASSUME TypeOK, NEW c \in Clients, Accept(c)
    PROVE  /\ accepted' \in [Clients -> Seq(Nat)]
           /\ \A d \in Clients : d # c => accepted'[d] = accepted[d]
           /\ Len(accepted[c]) \in Nat
           /\ Len(accepted'[c]) = Len(accepted[c]) + 1
           /\ DOMAIN accepted'[c] = 1..(Len(accepted[c]) + 1)
           /\ DOMAIN accepted[c] = 1..Len(accepted[c])
           /\ accepted'[c][Len(accepted[c]) + 1] = now
           /\ \A n \in DOMAIN accepted[c] : accepted'[c][n] = accepted[c][n]
           /\ \A n \in DOMAIN accepted[c] : accepted[c][n] \in Nat
<1>1. now \in Nat /\ accepted[c] \in Seq(Nat)
  BY LimiterAssumption DEF TypeOK
<1>2. accepted' = [accepted EXCEPT ![c] = Append(accepted[c], now)]
  BY DEF Accept
<1>3. QED
  BY <1>1, <1>2 DEF TypeOK

\* A client whose events and window do not change keeps its invariant.
LEMMA ClientFrame ==
    ASSUME TypeOK, NEW d \in Clients, Timely(d), WindowInv(d),
           accepted'[d] = accepted[d], rateLimiter'[d] = rateLimiter[d],
           now' \in Nat, now <= now'
    PROVE  Timely(d)' /\ WindowInv(d)'
<1>1. \A n \in DOMAIN accepted[d] : accepted[d][n] \in Nat
  BY DEF TypeOK
<1>2. Timely(d)'
  BY <1>1, LimiterAssumption DEF TypeOK, Timely
<1>3. WindowInv(d)'
  BY DEF WindowInv, Opening
<1>4. QED
  BY <1>2, <1>3

LEMMA InitLimiter ==
    ASSUME Init PROVE LimiterInv
BY LimiterAssumption
   DEF Init, LimiterInv, TypeOK, Timely, WindowInv, RateBound, RefusedOnlyWhenBusy

-----------------------------------------------------------------------------
\* What an accepted event leaves to prove: the facts about its own client.
LEMMA AcceptInv ==
    ASSUME LimiterInv, NEW c \in Clients, Accept(c),
           \A d \in Clients : d # c => rateLimiter'[d] = rateLimiter[d],
           UNCHANGED <<now, authenticated, refused>>,
           rateLimiter' \in [Clients -> WindowRecord \cup {None}],
           rateLimiter'[c].resetTime <= now + Window,
           WindowInv(c)',
           \A m \in DOMAIN accepted[c], k \in Nat \ {0} :
               m + Quota(k + 1) - 1 = Len(accepted[c]) + 1 =>
                   now > accepted[c][m] + Span(k)
    PROVE  LimiterInv'
<1>1. TypeOK /\ TypeOK' /\ now \in Nat
  <2>1. TypeOK /\ now \in Nat
    BY LimiterAssumption DEF LimiterInv, TypeOK
  <2>2. \A d \in Clients : rateLimiter'[d] # None => rateLimiter'[d].resetTime <= now' + Window
    BY <2>1 DEF TypeOK
  <2>3. QED
    BY <2>1, <2>2, AcceptFacts DEF TypeOK
<1>2. ASSUME NEW d \in Clients PROVE Timely(d)' /\ WindowInv(d)'
  <2>1. CASE d = c
    <3>1. Timely(c)
      BY DEF LimiterInv
    <3>2. ASSUME NEW n \in DOMAIN accepted'[c]
          PROVE  /\ accepted'[c][n] <= now
                 /\ \A m \in DOMAIN accepted'[c] :
                       m <= n => accepted'[c][m] <= accepted'[c][n]
      <4>1. CASE n = Len(accepted[c]) + 1
        <5>1. accepted'[c][n] = now
          BY <1>1, <4>1, AcceptFacts
        <5>2. ASSUME NEW m \in DOMAIN accepted'[c] PROVE accepted'[c][m] <= now
          <6>1. m \in DOMAIN accepted[c] \/ m = n
            BY <1>1, <4>1, AcceptFacts
          <6>2. CASE m = n
            BY <1>1, <5>1, <6>2
          <6>3. CASE m \in DOMAIN accepted[c]
            BY <1>1, <3>1, <6>3, AcceptFacts DEF Timely
          <6>4. QED
            BY <6>1, <6>2, <6>3
        <5>3. QED
          BY <1>1, <5>1, <5>2
      <4>2. CASE n \in DOMAIN accepted[c]
        <5>1. \A m \in DOMAIN accepted'[c] : m <= n => m \in DOMAIN accepted[c]
          BY <1>1, <4>2, AcceptFacts
        <5>2. QED
          BY <1>1, <3>1, <4>2, <5>1, AcceptFacts DEF Timely
      <4>3. QED
        BY <1>1, <4>1, <4>2, AcceptFacts
    <3>3. Timely(c)'
      BY <3>2 DEF Timely
    <3>4. QED
      BY <2>1, <3>3
  <2>2. CASE d # c
    BY <1>1, <2>2, AcceptFacts, ClientFrame DEF LimiterInv
  <2>3. QED
    BY <2>1, <2>2
<1>3. ASSUME NEW k \in Nat \ {0} PROVE RateBound(k)'
  <2> DEFINE gap == Quota(k + 1) - 1
             time == Span(k)
  <2> SUFFICES ASSUME NEW d \in Clients, NEW m \in DOMAIN accepted'[d],
                      NEW n \in DOMAIN accepted'[d], n = m + gap
               PROVE  accepted'[d][n] > accepted'[d][m] + time
    BY DEF RateBound
  <2>a. gap \in Nat \ {0} /\ time \in Nat
    <3>1. Quota(k + 1) = Quota(k) + Limit /\ Quota(k) \in Nat /\ Quota(k) >= Limit
      BY Times, LimiterAssumption
    <3>2. time \in Nat
      BY Times, LimiterAssumption
    <3>3. QED
      BY <3>1, <3>2, LimiterAssumption
  <2>c. /\ \A i, j \in DOMAIN accepted[d] : j = i + gap => accepted[d][j] > accepted[d][i] + time
        /\ \A i \in DOMAIN accepted[c] :
              i + gap = Len(accepted[c]) + 1 => now > accepted[c][i] + time
    BY DEF LimiterInv, RateBound
  <2> HIDE DEF gap, time
  <2>1. CASE d # c
    BY <1>1, <2>1, <2>c, AcceptFacts
  <2>2. CASE d = c /\ n = Len(accepted[c]) + 1
    <3>1. m \in DOMAIN accepted[c] \/ m = n
      BY <1>1, <2>2, AcceptFacts
    <3>2. m # n
      BY <1>1, <2>2, <2>a, AcceptFacts
    <3>3. QED
      BY <1>1, <2>2, <2>c, <3>1, <3>2, AcceptFacts
  <2>3. CASE d = c /\ n \in DOMAIN accepted[c]
    <3>1. m \in DOMAIN accepted[c]
      BY <1>1, <2>3, <2>a, AcceptFacts
    <3>2. QED
      BY <1>1, <2>3, <2>c, <3>1, AcceptFacts
  <2>4. QED
    BY <1>1, <2>1, <2>2, <2>3, AcceptFacts
<1>4. ASSUME NEW d \in Clients, NEW r \in refused'[d]
      PROVE  /\ r.after >= Limit /\ r.after <= Len(accepted'[d])
             /\ accepted'[d][r.after - Limit + 1] + Window >= r.at
  <2>1. /\ r.after >= Limit /\ r.after <= Len(accepted[d]) /\ r.after \in Nat
        /\ accepted[d][r.after - Limit + 1] + Window >= r.at
    BY DEF LimiterInv, RefusedOnlyWhenBusy, TypeOK
  <2>2. CASE d # c
    BY <1>1, <2>1, <2>2, AcceptFacts
  <2>3. CASE d = c
    <3>1. r.after - Limit + 1 \in DOMAIN accepted[c]
      BY <1>1, <2>1, <2>3, AcceptFacts, LimiterAssumption
    <3>2. QED
      BY <1>1, <2>1, <2>3, <3>1, AcceptFacts
  <2>4. QED
    BY <2>2, <2>3
<1>5. QED
  BY <1>1, <1>2, <1>3, <1>4 DEF LimiterInv, RefusedOnlyWhenBusy

LEMMA NewWindowInv ==
    ASSUME LimiterInv, NEW c \in Clients, NewWindow(c)
    PROVE  LimiterInv'
<1> DEFINE len == Len(accepted[c])
           w == [count |-> 1, resetTime |-> now + Window]
<1>1. /\ TypeOK /\ Accept(c) /\ UNCHANGED <<now, authenticated, refused>>
      /\ rateLimiter' = [rateLimiter EXCEPT ![c] = w]
  BY DEF LimiterInv, NewWindow, OpenWindow
<1>2. now \in Nat /\ w \in WindowRecord /\ w # None
  BY <1>1, LimiterAssumption DEF TypeOK, WindowRecord
<1>3. /\ rateLimiter' \in [Clients -> WindowRecord \cup {None}]
      /\ rateLimiter'[c] = w
      /\ \A d \in Clients : d # c => rateLimiter'[d] = rateLimiter[d]
  BY <1>1, <1>2 DEF TypeOK
<1>a. /\ len \in Nat /\ Limit \in Nat \ {0} /\ Window \in Nat
      /\ DOMAIN accepted[c] = 1..len /\ DOMAIN accepted'[c] = 1..(len + 1)
      /\ Len(accepted'[c]) = len + 1
      /\ accepted'[c][len + 1] = now
      /\ \A n \in 1..len : accepted'[c][n] = accepted[c][n] /\ accepted[c][n] \in Nat
  BY <1>1, AcceptFacts, LimiterAssumption
<1> HIDE DEF len
\* All but the last Quota(k) - 1 events are k windows older than the one that
\* opens now: the window before it was opened at most Limit events ago.
<1>4. ASSUME NEW m \in DOMAIN accepted[c], NEW k \in Nat \ {0}, m + Quota(k) <= len + 1
      PROVE  now > accepted[c][m] + Span(k)
  <2> DEFINE j == k - 1
  <2>a. /\ j \in Nat /\ Quota(j) \in Nat /\ Span(j) \in Nat
        /\ Quota(k) = Quota(j) + Limit /\ Span(k) = Span(j) + Window
        /\ j = 0 => Quota(j) = 0 /\ Span(j) = 0
        /\ Quota(k) \in Nat
    BY Times
  <2>b. /\ m \in 1..len /\ accepted[c][m] \in Nat
        /\ m + Quota(k) <= len + 1
    BY <1>4, <1>a
  <2>1. rateLimiter[c] # None
    BY <1>4 DEF LimiterInv, WindowInv
  <2>2. /\ rateLimiter[c] \in WindowRecord
        /\ rateLimiter[c].count \in 1..Limit /\ rateLimiter[c].resetTime \in Nat
    BY <1>1, <2>1 DEF TypeOK, WindowRecord
  <2>3. /\ Opening(c) \in DOMAIN accepted[c]
        /\ now > accepted[c][Opening(c)] + Window
        /\ j # 0 /\ m + Quota(j) <= Opening(c) =>
              accepted[c][Opening(c)] > accepted[c][m] + Span(j)
    BY <2>1, <2>a DEF NewWindow, Expired, LimiterInv, WindowInv
  <2> HIDE DEF j
  <2>4. m + Quota(j) <= Opening(c)
    <3>1. Opening(c) = len - rateLimiter[c].count + 1
      BY DEF Opening, len
    <3>2. /\ m \in Nat /\ len \in Nat /\ Quota(j) \in Nat /\ Limit \in Nat
          /\ rateLimiter[c].count \in Nat /\ rateLimiter[c].count <= Limit
          /\ m + (Quota(j) + Limit) <= len + 1
      <4>1. rateLimiter[c].count \in Nat /\ rateLimiter[c].count <= Limit
        BY <1>a, <2>2
      <4>2. m \in Nat /\ len \in Nat /\ Quota(j) \in Nat /\ Limit \in Nat
        BY <1>a, <2>a, <2>b
      <4>3. m + (Quota(j) + Limit) <= len + 1
        BY <2>a, <2>b
      <4>4. QED
        BY <4>1, <4>2, <4>3
    <3>3. \A i, q, limit, count, n \in Nat :
             i + (q + limit) <= n + 1 /\ count <= limit => i + q <= n - count + 1
      OBVIOUS
    <3>4. QED
      BY <3>1, <3>2, <3>3
  <2>5. CASE j = 0
    <3>1. m <= Opening(c) /\ Span(k) = Window
      BY <1>a, <2>a, <2>b, <2>4, <2>5
    <3>2. accepted[c][m] <= accepted[c][Opening(c)]
      BY <1>4, <2>3, <3>1 DEF LimiterInv, Timely
    <3>3. QED
      BY <1>2, <1>4, <1>a, <2>3, <3>1, <3>2
  <2>6. CASE j # 0
    <3>1. /\ accepted[c][Opening(c)] > accepted[c][m] + Span(j)
          /\ accepted[c][Opening(c)] \in Nat
      BY <1>a, <2>3, <2>4, <2>6
    <3>2. /\ accepted[c][m] \in Nat /\ Span(j) \in Nat /\ Window \in Nat /\ now \in Nat
          /\ Span(k) = Span(j) + Window
      BY <1>2, <1>a, <2>a, <2>b
    <3>3. \A o, i, span, width, t \in Nat :
             t > o + width /\ o > i + span => t > i + (span + width)
      OBVIOUS
    <3>4. QED
      BY <2>3, <3>1, <3>2, <3>3
  <2>7. QED
    BY <2>5, <2>6
<1>5. WindowInv(c)'
  <2>1. Opening(c)' = len + 1
    BY <1>3, <1>a DEF Opening
  <2>2. ASSUME NEW m \in DOMAIN accepted'[c], NEW k \in Nat \ {0},
               m + Quota(k) <= len + 1
        PROVE  now > accepted'[c][m] + Span(k)
    <3>0. Quota(k) \in Nat /\ Quota(k) >= Limit
      BY <1>a, Times
    <3>1. m \in 1..len
      BY <1>a, <2>2, <3>0
    <3>2. QED
      BY <1>4, <1>a, <2>2, <3>1
  <2>3. QED
    BY <1>2, <1>3, <1>a, <2>1, <2>2 DEF WindowInv
<1>6. ASSUME NEW m \in DOMAIN accepted[c], NEW k \in Nat \ {0},
             m + Quota(k + 1) - 1 = len + 1
      PROVE  now > accepted[c][m] + Span(k)
  <2>1. Quota(k + 1) = Quota(k) + Limit /\ Quota(k) \in Nat
    BY <1>a, Times
  <2>2. m + Quota(k) <= len + 1
    BY <1>6, <1>a, <2>1
  <2>3. QED
    BY <1>4, <2>2
<1>7. rateLimiter'[c].resetTime <= now + Window
  BY <1>2, <1>3, <1>a
<1>8. QED
  BY <1>1, <1>3, <1>5, <1>6, <1>7, AcceptInv DEF len

LEMMA CountEventInv ==
    ASSUME LimiterInv, NEW c \in Clients, CountEvent(c)
    PROVE  LimiterInv'
<1> DEFINE len == Len(accepted[c])
           k == rateLimiter[c].count
<1>1. /\ TypeOK /\ Accept(c) /\ UNCHANGED <<now, authenticated, refused>>
      /\ rateLimiter[c] # None /\ now \in Nat
      /\ rateLimiter' = [rateLimiter EXCEPT ![c] =
                              [count |-> k + 1, resetTime |-> rateLimiter[c].resetTime]]
  BY LimiterAssumption DEF LimiterInv, CountEvent, Expired, TypeOK
<1>2. /\ rateLimiter[c] \in WindowRecord /\ k \in 1..Limit /\ k < Limit
      /\ rateLimiter[c].resetTime \in Nat
  <2>1. rateLimiter[c] \in WindowRecord /\ ~(k >= Limit)
    BY <1>1 DEF TypeOK, CountEvent, Full
  <2>2. k \in 1..Limit /\ rateLimiter[c].resetTime \in Nat
    BY <2>1 DEF WindowRecord
  <2>3. QED
    BY <2>1, <2>2, LimiterAssumption
<1>3. /\ rateLimiter' \in [Clients -> WindowRecord \cup {None}]
      /\ rateLimiter'[c] # None
      /\ rateLimiter'[c].count = k + 1
      /\ rateLimiter'[c].resetTime = rateLimiter[c].resetTime
      /\ \A d \in Clients : d # c => rateLimiter'[d] = rateLimiter[d]
  <2> DEFINE w == [count |-> k + 1, resetTime |-> rateLimiter[c].resetTime]
  <2>1. w \in WindowRecord /\ w # None
    BY <1>2, LimiterAssumption DEF WindowRecord
  <2>2. QED
    BY <1>1, <2>1 DEF TypeOK
<1>4. /\ Opening(c) \in DOMAIN accepted[c]
      /\ rateLimiter[c].resetTime = accepted[c][Opening(c)] + Window
      /\ accepted[c][Opening(c)] <= now
      /\ \A m \in DOMAIN accepted[c], j \in Nat \ {0} :
            m + Quota(j) <= Opening(c) =>
                accepted[c][Opening(c)] > accepted[c][m] + Span(j)
  BY <1>1 DEF LimiterInv, WindowInv, Timely
<1>5. /\ len \in Nat /\ Limit \in Nat /\ Window \in Nat
      /\ DOMAIN accepted[c] = 1..len /\ DOMAIN accepted'[c] = 1..(len + 1)
      /\ Len(accepted'[c]) = len + 1
      /\ \A n \in 1..len : accepted'[c][n] = accepted[c][n] /\ accepted[c][n] \in Nat
  BY <1>1, AcceptFacts, LimiterAssumption
<1> HIDE DEF len, k
<1>6. Opening(c)' = Opening(c) /\ Opening(c) = len - k + 1
  <2>1. Opening(c) = len - k + 1
    BY DEF Opening, len, k
  <2>2. Opening(c)' = Len(accepted'[c]) - rateLimiter'[c].count + 1
    BY DEF Opening
  <2>3. Len(accepted'[c]) = len + 1 /\ rateLimiter'[c].count = k + 1
    BY <1>3, <1>5
  <2>4. QED
    BY <1>2, <1>5, <2>1, <2>2, <2>3
<1>7. WindowInv(c)'
  <2>1. ASSUME NEW m \in DOMAIN accepted'[c], NEW j \in Nat \ {0},
               m + Quota(j) <= Opening(c)
        PROVE  accepted'[c][Opening(c)] > accepted'[c][m] + Span(j)
    <3>0. Quota(j) \in Nat
      BY <1>5, Times
    <3>1. m \in 1..len
      BY <1>2, <1>6, <1>5, <2>1, <3>0
    <3>2. QED
      BY <1>4, <1>5, <2>1, <3>1
  <2>2. QED
    BY <1>3, <1>4, <1>6, <1>5, <2>1 DEF WindowInv
<1>8. ASSUME NEW m \in DOMAIN accepted[c], NEW j \in Nat \ {0},
             m + Quota(j + 1) - 1 = len + 1
      PROVE  now > accepted[c][m] + Span(j)
  <2>0. Quota(j + 1) = Quota(j) + Limit /\ Quota(j) \in Nat /\ Span(j) \in Nat
    BY <1>5, Times
  <2>1. m + Quota(j) <= Opening(c)
    BY <1>2, <1>6, <1>8, <1>5, <2>0
  <2>2. accepted[c][Opening(c)] > accepted[c][m] + Span(j)
    BY <1>4, <2>1
  <2>3. accepted[c][Opening(c)] \in Nat /\ accepted[c][m] \in Nat /\ Span(j) \in Nat
    BY <1>4, <1>5, <2>0
  <2>4. QED
    BY <1>1, <1>4, <1>5, <2>2, <2>3
<1>9. rateLimiter'[c].resetTime <= now + Window
  BY <1>1, <1>3 DEF TypeOK
<1>10. QED
  BY <1>1, <1>3, <1>7, <1>8, <1>9, AcceptInv DEF len

-----------------------------------------------------------------------------
LEMMA NextLimiter ==
    ASSUME LimiterInv, [Next]_vars
    PROVE  LimiterInv'
<1>0. TypeOK /\ now \in Nat
  BY LimiterAssumption DEF LimiterInv, TypeOK
<1>1. CASE UNCHANGED vars
  BY <1>1 DEF vars, LimiterInv, TypeOK, Timely, WindowInv, Opening, RateBound, RefusedOnlyWhenBusy
<1>2. CASE Tick
  <2>1. now' = now + 1 /\ now' \in 0..MaxTime
        /\ UNCHANGED <<authenticated, rateLimiter, accepted, refused>>
    BY <1>0, <1>2, LimiterAssumption DEF Tick
  <2>2. TypeOK'
    <3>1. ASSUME NEW c \in Clients, rateLimiter[c] # None
          PROVE  rateLimiter[c].resetTime <= now + 1 + Window
      <4>1. rateLimiter[c] \in WindowRecord /\ rateLimiter[c].resetTime <= now + Window
        BY <1>0, <3>1 DEF TypeOK
      <4>2. rateLimiter[c].resetTime \in Nat
        BY <4>1 DEF WindowRecord
      <4>3. QED
        BY <1>0, <4>1, <4>2, LimiterAssumption
    <3>2. QED
      BY <1>0, <2>1, <3>1 DEF TypeOK
  <2>3. \A d \in Clients : Timely(d)' /\ WindowInv(d)'
    BY <1>0, <2>1, ClientFrame DEF LimiterInv
  <2>4. QED
    BY <2>1, <2>2, <2>3 DEF LimiterInv, RateBound, RefusedOnlyWhenBusy
<1>3. ASSUME NEW c \in Clients, Authenticate(c) \/ Disconnect(c) PROVE LimiterInv'
  BY <1>3 DEF Authenticate, Disconnect, LimiterInv, TypeOK, Timely, WindowInv, Opening,
              RateBound, RefusedOnlyWhenBusy
<1>4. ASSUME NEW c \in Clients, Refuse(c) PROVE LimiterInv'
  <2> DEFINE len == Len(accepted[c])
             r == [at |-> now, after |-> len]
  <2>1. /\ UNCHANGED <<now, authenticated, rateLimiter, accepted>>
        /\ refused' = [refused EXCEPT ![c] = refused[c] \cup {r}]
        /\ rateLimiter[c] # None
        /\ now <= rateLimiter[c].resetTime
        /\ rateLimiter[c].count >= Limit
    <3>1. rateLimiter[c] # None /\ ~(now > rateLimiter[c].resetTime)
      BY <1>4 DEF Refuse, Expired
    <3>2. rateLimiter[c] \in WindowRecord
      BY <1>0, <3>1 DEF TypeOK
    <3>3. rateLimiter[c].resetTime \in Nat
      BY <3>2 DEF WindowRecord
    <3>4. QED
      BY <1>0, <1>4, <3>1, <3>3 DEF Refuse, Full
  \* The window counts all of Limit events, so it opened Limit events ago.
  <2>2. rateLimiter[c].count = Limit /\ len \in Nat
    <3>1. rateLimiter[c] \in WindowRecord /\ accepted[c] \in Seq(Nat)
      BY <1>0, <2>1 DEF TypeOK
    <3>2. rateLimiter[c].count \in 1..Limit
      BY <3>1 DEF WindowRecord
    <3>3. QED
      BY <2>1, <3>1, <3>2, LimiterAssumption
  <2>3. /\ len - Limit + 1 \in 1..len
        /\ accepted[c][len - Limit + 1] + Window >= now
    <3>1. Opening(c) = len - Limit + 1
      BY <2>2 DEF Opening
    <3>2. /\ Opening(c) \in DOMAIN accepted[c] /\ DOMAIN accepted[c] = 1..len
          /\ rateLimiter[c].resetTime = accepted[c][Opening(c)] + Window
      BY <1>0, <2>1 DEF LimiterInv, WindowInv, TypeOK
    <3>3. accepted[c][Opening(c)] \in Nat
      BY <1>0, <3>2 DEF TypeOK
    <3>4. QED
      BY <1>0, <2>1, <3>1, <3>2, <3>3, LimiterAssumption
  <2>4. TypeOK'
    BY <1>0, <2>1, <2>2 DEF TypeOK
  <2>5. ASSUME NEW d \in Clients, NEW x \in refused'[d]
        PROVE  /\ x.after >= Limit /\ x.after <= Len(accepted[d])
               /\ accepted[d][x.after - Limit + 1] + Window >= x.at
    <3>1. x \in refused[d] \/ (d = c /\ x = r)
      BY <1>0, <2>1 DEF TypeOK
    <3>2. CASE x \in refused[d]
      BY <3>2 DEF LimiterInv, RefusedOnlyWhenBusy
    <3>3. CASE d = c /\ x = r
      BY <2>2, <2>3, <3>3, LimiterAssumption
    <3>4. QED
      BY <3>1, <3>2, <3>3
  <2>6. QED
    BY <2>1, <2>4, <2>5
       DEF LimiterInv, Timely, WindowInv, Opening, RateBound, RefusedOnlyWhenBusy
<1>5. ASSUME NEW c \in Clients, NewWindow(c) PROVE LimiterInv'
  BY <1>5, NewWindowInv
<1>6. ASSUME NEW c \in Clients, CountEvent(c) PROVE LimiterInv'
  BY <1>6, CountEventInv
<1>7. QED
  BY <1>1, <1>2, <1>3, <1>4, <1>5, <1>6 DEF Next

\* The inductive invariant holds in every state of every behaviour.
THEOREM LimiterInvariant == Spec => []LimiterInv
<1>1. Init => LimiterInv
  BY InitLimiter
<1>2. LimiterInv /\ [Next]_vars => LimiterInv'
  BY NextLimiter
<1>3. QED
  BY <1>1, <1>2, PTL DEF Spec

\* Every variable keeps its type: no window ever counts more than Limit events,
\* and each is over within Window ticks.
THEOREM LimiterTypes == Spec => []TypeOK
<1>1. LimiterInv => TypeOK
  BY DEF LimiterInv
<1>2. QED
  BY <1>1, LimiterInvariant, PTL

\* However windows, bursts and reconnections fall, a client gets fewer than
\* Quota(k + 1) events past the limiter in a time of Span(k).
THEOREM RateIsBounded == ASSUME NEW k \in Nat \ {0} PROVE Spec => []RateBound(k)
<1>1. LimiterInv => RateBound(k)
  BY DEF LimiterInv
<1>2. QED
  BY <1>1, LimiterInvariant, PTL

\* The bounds that the clock's bound leaves room for.
THEOREM BurstsAreBounded == Spec => []BurstBound
<1>1. LimiterInv => BurstBound
  BY LimiterAssumption DEF LimiterInv, BurstBound
<1>2. QED
  BY <1>1, LimiterInvariant, PTL

\* No event is refused unless Limit events passed in the last Window ticks.
THEOREM RefusalsAreEarned == Spec => []RefusedOnlyWhenBusy
<1>1. LimiterInv => RefusedOnlyWhenBusy
  BY DEF LimiterInv
<1>2. QED
  BY <1>1, LimiterInvariant, PTL

=============================================================================
