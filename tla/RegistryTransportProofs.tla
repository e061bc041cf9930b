------------------------ MODULE RegistryTransportProofs ------------------------
(* Proofs about RegistryTransport, for every set of requests and hosts, every   *)
(* limit and every timeout.                                                     *)
EXTENDS RegistryTransport, FunctionTheorems, FiniteSetTheorems, SequenceTheorems, TLAPS

-------------------------------------------------------------------------------
(* The invariant.                                                              *)

Phases == {"idle", "limited", "queued", "sent", "body"}

\* The state without the bounds that TypeOK has for tokens, slots and waits.
Shape ==
  /\ settings \in Settings
  /\ request \in [Requests -> [pc : Phases, wait : Nat, left : TimeLeft \cup {0}]]
  /\ tokens \in [Hosts -> Int]
  /\ taken \in [Hosts -> Nat]
  /\ waiters \in [Hosts -> Seq(Requests)]

\* Only who has a token to come waits for one.
WaitersAreLimited ==
  \A r \in Requests : request[r].wait > 0 => request[r].pc = "limited"

\* The requests to a host whose token comes in more than k ticks.
Waiting(h, k) == {r \in Requests : HostOf[r] = h /\ request[r].wait > k}

\* After every number of ticks, what the bucket still lacks has been reserved by
\* requests that wait at least as long.
TokensBacked ==
  \A h \in Hosts, k \in Nat :
    tokens[h] + k * settings.rps + Cardinality(Waiting(h, k)) >= 0

TokensBounded ==
  /\ \A h \in Hosts : tokens[h] <= Burst
  /\ \A r \in Requests : request[r].wait <= MaxWait

TokenInv == WaitersAreLimited /\ TokensBacked /\ TokensBounded

\* s lists the members of S, each once.
Lists(s, S) ==
  /\ \A i \in 1..Len(s) : s[i] \in S
  /\ \A i, j \in 1..Len(s) : s[i] = s[j] => i = j
  /\ \A r \in S : \E i \in 1..Len(s) : s[i] = r

\* Who is queued is in the queue of its host, once, and nobody else is; the slots
\* taken are those of the requests that were sent; nobody queues while one is free.
HostInv(h) ==
  /\ Lists(waiters[h], At(h, "queued"))
  /\ taken[h] = IF SlotsLimited THEN Cardinality(At(h, "sent")) ELSE 0
  /\ taken[h] <= settings.concurrency
  /\ waiters[h] # << >> => taken[h] = settings.concurrency

TransportInv == Shape /\ TokenInv /\ \A h \in Hosts : HostInv(h)

-------------------------------------------------------------------------------
(* Facts about counting, and about sequences.                                  *)

\* Requests, and so all sets of them, are finite.
LEMMA RequestsFinite ==
  ASSUME NEW S, S \subseteq Requests
  PROVE  IsFiniteSet(S) /\ Cardinality(S) \in Nat /\ Cardinality(S) <= Cardinality(Requests)
BY FS_Subset, FS_CardinalityType, TransportAssumption

\* One more request counts one more.
LEMMA OneMore ==
  ASSUME NEW S, S \subseteq Requests, NEW r \in Requests, r \notin S
  PROVE  Cardinality(S \cup {r}) = Cardinality(S) + 1
BY FS_AddElement, RequestsFinite

\* One less counts one less.
LEMMA OneLess ==
  ASSUME NEW S, S \subseteq Requests, NEW r \in S
  PROVE  Cardinality(S \ {r}) = Cardinality(S) - 1 /\ Cardinality(S) >= 1
<1>1. Cardinality(S \ {r}) = Cardinality(S) - 1
  BY FS_RemoveElement, RequestsFinite
<1> QED BY <1>1, RequestsFinite

\* More requests count at least as many.
LEMMA MoreCountMore ==
  ASSUME NEW S, NEW T, S \subseteq T, T \subseteq Requests
  PROVE  Cardinality(S) <= Cardinality(T)
BY FS_Subset, RequestsFinite

\* The rate's division rounds up.
LEMMA TicksRoundUp ==
  ASSUME NEW n \in Int, NEW rps \in Nat \ {0}, n < 1
  PROVE  /\ (1 - n + rps - 1) \div rps \in Nat
         /\ ((1 - n + rps - 1) \div rps) * rps >= 1 - n
         /\ ((1 - n + rps - 1) \div rps - 1) * rps < 1 - n
<1> DEFINE m == 1 - n + rps - 1
           w == m \div rps
<1>1. m \in Nat /\ m >= rps
  OBVIOUS
<1>2. w \in Int /\ rps * w <= m /\ m < rps * w + rps
  BY <1>1, Z3
<1> QED BY <1>1, <1>2, Z3

-------------------------------------------------------------------------------
(* The limiter.                                                                *)

\* What it was started with are numbers.
LEMMA SettingsTyped ==
  ASSUME Shape
  PROVE  /\ settings.rps \in Nat /\ settings.timeout \in Nat /\ settings.concurrency \in Nat
         /\ MaxWait \in Nat /\ Burst \in Nat \ {0}
         /\ TimeLeft \subseteq Int
<1>1. settings \in [concurrency : Nat, rps : Nat, timeout : Nat]
  BY TransportAssumption DEF Shape
<1>2. settings.rps \in Nat /\ settings.timeout \in Nat /\ settings.concurrency \in Nat
  BY <1>1
<1>3. Cardinality(Requests) \in Nat
  BY RequestsFinite
<1> QED BY <1>2, <1>3 DEF MaxWait, Burst, TimeLeft, NoDeadline

\* The ticks to the next token are those that the bucket needs, and not more.
LEMMA TicksAreEnough ==
  ASSUME Shape, RateLimited, NEW n \in Int
  PROVE  /\ TicksToToken(n) \in Nat
         /\ n >= 1 => TicksToToken(n) = 0
         /\ n < 1 => /\ TicksToToken(n) * settings.rps >= 1 - n
                     /\ (TicksToToken(n) - 1) * settings.rps < 1 - n
<1>1. settings.rps \in Nat \ {0}
  BY SettingsTyped DEF RateLimited
<1>2. CASE n >= 1
  BY <1>2 DEF TicksToToken
<1>3. CASE n < 1
  <2> DEFINE d == (1 - n + settings.rps - 1) \div settings.rps
  <2>1. d \in Nat /\ d * settings.rps >= 1 - n /\ (d - 1) * settings.rps < 1 - n
    BY <1>1, <1>3, TicksRoundUp
  <2>2. TicksToToken(n) = d
    BY <1>3 DEF TicksToToken
  <2> HIDE DEF d
  <2> QED BY <1>3, <2>1, <2>2
<1> QED BY <1>2, <1>3

\* What is reserved ahead is bounded by the longest wait.
LEMMA ReservedIsBounded ==
  ASSUME Shape, TokenInv, NEW h \in Hosts
  PROVE  tokens[h] >= -(settings.rps * MaxWait)
<1>1. MaxWait \in Nat /\ settings.rps \in Nat
  BY TransportAssumption, RequestsFinite DEF Shape, MaxWait
<1>2. Waiting(h, MaxWait) = {}
  BY <1>1 DEF Waiting, TokenInv, TokensBounded, Shape
<1>3. tokens[h] + MaxWait * settings.rps + 0 >= 0
  BY <1>1, <1>2, FS_EmptySet DEF TokenInv, TokensBacked
<1> QED BY <1>1, <1>3 DEF Shape

\* A request that waits for no token, and the others, keep the tokens backed.
LEMMA WaitsKeptTokenInv ==
  ASSUME Shape, TokenInv, UNCHANGED <<settings, tokens>>,
         \A q \in Requests :
           /\ request'[q].wait = request[q].wait
           /\ request[q].wait > 0 => request'[q].pc = request[q].pc
  PROVE  TokenInv'
<1>1. ASSUME NEW h \in Hosts, NEW k \in Nat PROVE Waiting(h, k)' = Waiting(h, k)
  BY DEF Waiting
<1>2. TokensBacked'
  BY <1>1 DEF TokenInv, TokensBacked
<1>3. WaitersAreLimited' /\ TokensBounded'
  BY DEF TokenInv, WaitersAreLimited, TokensBounded, Burst, MaxWait
<1> QED BY <1>2, <1>3 DEF TokenInv

\* The wait that a reservation gets is not longer than any wait may be.
LEMMA ReservationIsBounded ==
  ASSUME Shape, TokenInv, NEW r \in Requests, NEW left \in TimeLeft, Reserve(r, left)
  PROVE  TicksToToken(tokens[HostOf[r]]) \in 0..MaxWait
<1> DEFINE h == HostOf[r]
           w == TicksToToken(tokens[h])
           rps == settings.rps
<1>a. h \in Hosts /\ tokens[h] \in Int
  BY TransportAssumption DEF Shape
<1>b. rps \in Nat \ {0} /\ settings.timeout \in Nat
  BY SettingsTyped DEF Reserve, RateLimited
<1>c. request[r].wait = 0 /\ (left = NoDeadline \/ w <= left)
  BY DEF Reserve, Idle
<1>1. /\ h \in Hosts /\ tokens[h] \in Int /\ rps \in Nat \ {0} /\ settings.timeout \in Nat
      /\ request[r].wait = 0 /\ Cardinality(Requests) \in Nat
      /\ left = NoDeadline \/ w <= left
  BY <1>a, <1>b, <1>c, RequestsFinite
<1>2. /\ w \in Nat
      /\ tokens[h] >= 1 => w = 0
      /\ tokens[h] < 1 => (w - 1) * rps < 1 - tokens[h]
  BY <1>1, TicksAreEnough DEF Reserve
<1> SUFFICES w \in 0..MaxWait
  OBVIOUS
<1> HIDE DEF w, rps
<1>3. CASE settings.timeout # 0
  <2>1. left \in 0..settings.timeout /\ MaxWait = settings.timeout
    BY <1>3 DEF TimeLeft, MaxWait
  <2> QED BY <1>1, <1>2, <2>1 DEF NoDeadline
<1>4. CASE settings.timeout = 0
  <2>1. MaxWait = Cardinality(Requests)
    BY <1>4 DEF MaxWait
  <2>2. Cardinality(Requests \ {r}) = Cardinality(Requests) - 1
    BY OneLess
  <2>3. Waiting(h, 0) \subseteq Requests \ {r}
    BY <1>1 DEF Waiting
  <2>4. Cardinality(Waiting(h, 0)) <= Cardinality(Requests) - 1
    BY <2>2, <2>3, MoreCountMore
  <2>5. tokens[h] + Cardinality(Waiting(h, 0)) >= 0
    <3>1. tokens[h] + 0 * rps + Cardinality(Waiting(h, 0)) >= 0
      BY <1>1 DEF TokenInv, TokensBacked, rps
    <3> QED BY <1>1, <3>1
  <2>6. Cardinality(Waiting(h, 0)) \in Nat
    BY RequestsFinite DEF Waiting
  <2>7. 1 - tokens[h] <= Cardinality(Requests)
    BY <1>1, <2>4, <2>5, <2>6
  <2>8. CASE tokens[h] >= 1
    BY <1>2, <2>1, <2>8, <1>1
  <2>9. CASE tokens[h] < 1
    <3>1. (w - 1) * rps < Cardinality(Requests)
      <4>1. (w - 1) * rps < 1 - tokens[h]
        BY <1>2, <2>9
      <4>2. (w - 1) * rps \in Int
        BY <1>1, <1>2
      <4> QED BY <1>1, <2>7, <4>1, <4>2
    <3>2. ASSUME w > Cardinality(Requests) PROVE FALSE
      <4>1. w - 1 >= Cardinality(Requests) /\ rps >= 1
        BY <1>1, <1>2, <3>2
      <4>2. (w - 1) * rps >= w - 1
        BY <1>1, <1>2, <4>1
      <4> QED BY <1>1, <1>2, <3>1, <4>1, <4>2
    <3> QED BY <1>1, <1>2, <2>1, <3>2
  <2> QED BY <1>1, <2>8, <2>9
<1> QED BY <1>3, <1>4

\* A reservation takes a token, and if there is none it waits until the bucket
\* has made up for it.
LEMMA ReserveTokenInv ==
  ASSUME Shape, TokenInv, NEW r \in Requests, NEW left \in TimeLeft, Reserve(r, left)
  PROVE  TokenInv'
<1> DEFINE h == HostOf[r]
           w == TicksToToken(tokens[h])
           rps == settings.rps
<1>1. /\ h \in Hosts /\ tokens[h] \in Int /\ rps \in Nat \ {0} /\ settings' = settings
      /\ request[r].wait = 0 /\ w \in 0..MaxWait /\ w \in Nat
      /\ tokens' = [tokens EXCEPT ![h] = @ - 1]
      /\ request' = [request EXCEPT ![r] = [pc |-> "limited", wait |-> w, left |-> left]]
  <2>1. h \in Hosts /\ tokens[h] \in Int
    BY TransportAssumption DEF Shape
  <2>2. rps \in Nat \ {0}
    BY SettingsTyped DEF Reserve, RateLimited
  <2>3. w \in 0..MaxWait /\ MaxWait \in Nat
    BY ReservationIsBounded, SettingsTyped
  <2>4. /\ request[r].wait = 0 /\ settings' = settings
        /\ tokens' = [tokens EXCEPT ![h] = @ - 1]
        /\ request' = [request EXCEPT ![r] = [pc |-> "limited", wait |-> w, left |-> left]]
    BY DEF Reserve, Idle
  <2> QED BY <2>1, <2>2, <2>3, <2>4
<1>2. tokens[h] < 1 => w * rps >= 1 - tokens[h]
  BY <1>1, TicksAreEnough DEF Reserve
<1>3. tokens[h] >= 1 => w = 0
  BY <1>1, TicksAreEnough DEF Reserve
<1> HIDE DEF w, rps
<1>4. /\ \A q \in Requests : request'[q] =
           IF q = r THEN [pc |-> "limited", wait |-> w, left |-> left] ELSE request[q]
      /\ \A g \in Hosts : tokens'[g] = IF g = h THEN tokens[h] - 1 ELSE tokens[g]
  BY <1>1 DEF Shape
<1>5. TokensBacked'
  <2> SUFFICES ASSUME NEW g \in Hosts, NEW k \in Nat
               PROVE  tokens'[g] + k * rps + Cardinality(Waiting(g, k)') >= 0
    BY <1>1 DEF TokensBacked, rps
  <2>1. tokens[g] + k * rps + Cardinality(Waiting(g, k)) >= 0
    BY DEF TokenInv, TokensBacked, rps
  <2>2. Cardinality(Waiting(g, k)) \in Nat /\ k * rps \in Nat /\ tokens[g] \in Int
    BY <1>1, RequestsFinite DEF Waiting, Shape
  <2>3. CASE g # h
    <3>1. Waiting(g, k)' = Waiting(g, k) /\ tokens'[g] = tokens[g]
      BY <1>4, <2>3 DEF Waiting
    <3> QED BY <2>1, <3>1
  <2>4. CASE g = h /\ k < w
    <3>1. Waiting(g, k)' = Waiting(g, k) \cup {r} /\ r \notin Waiting(g, k)
      BY <1>1, <1>4, <2>4 DEF Waiting
    <3>2. Cardinality(Waiting(g, k)') = Cardinality(Waiting(g, k)) + 1
      BY <3>1, OneMore DEF Waiting
    <3>3. tokens'[g] = tokens[g] - 1
      BY <1>4, <2>4
    <3> QED BY <2>1, <2>2, <3>2, <3>3
  <2>5. CASE g = h /\ k >= w
    <3>1. Waiting(g, k)' = Waiting(g, k)
      BY <1>1, <1>4, <2>5 DEF Waiting
    <3>2. tokens'[g] = tokens[g] - 1
      BY <1>4, <2>5
    <3>3. k * rps >= w * rps
      BY <1>1, <2>5
    <3>4. tokens[g] - 1 + k * rps >= 0
      BY <1>1, <1>2, <1>3, <2>2, <2>5, <3>3
    <3> QED BY <2>2, <3>1, <3>2, <3>4
  <2> QED BY <1>1, <2>3, <2>4, <2>5
<1>6. WaitersAreLimited'
  BY <1>4 DEF TokenInv, WaitersAreLimited
<1>7. TokensBounded'
  <2>1. Burst' = Burst /\ MaxWait' = MaxWait /\ Burst \in Int
    BY <1>1, TransportAssumption DEF Burst, MaxWait, Shape
  <2> QED BY <1>1, <1>4, <2>1 DEF TokenInv, TokensBounded, Shape
<1> QED BY <1>5, <1>6, <1>7 DEF TokenInv

\* A tick adds the tokens of the rate, and brings every request a tick nearer to
\* its own.
LEMMA TickTokenInv ==
  ASSUME Shape, TokenInv, Tick
  PROVE  TokenInv'
<1> DEFINE rps == settings.rps
<1>1. /\ settings' = settings /\ rps \in Nat /\ Burst \in Nat \ {0}
      /\ Burst' = Burst /\ MaxWait' = MaxWait /\ MaxWait \in Nat
  BY SettingsTyped DEF Tick, Burst, MaxWait
<1>2. ASSUME NEW q \in Requests
      PROVE  /\ request[q].wait \in Nat
             /\ request'[q].wait = IF request[q].wait > 0 THEN request[q].wait - 1 ELSE 0
             /\ request'[q].pc = request[q].pc
  <2>1. request[q] \in [pc : Phases, wait : Nat, left : TimeLeft \cup {0}]
    BY DEF Shape
  <2>2. CASE request[q] = Idle
    <3>1. request'[q] = Idle
      BY <2>2 DEF Tick
    <3> QED BY <2>2, <3>1 DEF Idle
  <2>3. CASE request[q] # Idle
    <3>1. request'[q] = [request[q] EXCEPT !.left = IF @ > 0 THEN @ - 1 ELSE @,
                                           !.wait = IF @ > 0 THEN @ - 1 ELSE 0]
      BY <2>3 DEF Tick
    <3> QED BY <2>1, <3>1
  <2> QED BY <2>2, <2>3
<1>3. \A h \in Hosts :
        tokens'[h] = IF tokens[h] + rps > Burst THEN Burst ELSE tokens[h] + rps
  BY DEF Tick
<1> HIDE DEF rps
<1>4. TokensBacked'
  <2> SUFFICES ASSUME NEW h \in Hosts, NEW k \in Nat
               PROVE  tokens'[h] + k * rps + Cardinality(Waiting(h, k)') >= 0
    BY <1>1 DEF TokensBacked, rps
  <2>1. tokens[h] + (k + 1) * rps + Cardinality(Waiting(h, k + 1)) >= 0
    BY DEF TokenInv, TokensBacked, rps
  <2>2. Waiting(h, k)' = Waiting(h, k + 1)
    BY <1>2 DEF Waiting
  <2>3. Cardinality(Waiting(h, k + 1)) \in Nat /\ k * rps \in Nat /\ tokens[h] \in Int
    BY <1>1, RequestsFinite DEF Waiting, Shape
  <2>4. (k + 1) * rps = k * rps + rps
    BY <1>1
  <2> QED BY <1>1, <1>3, <2>1, <2>2, <2>3, <2>4
<1>5. WaitersAreLimited'
  BY <1>2 DEF TokenInv, WaitersAreLimited, Shape
<1>6. TokensBounded'
  <2>1. ASSUME NEW h \in Hosts PROVE tokens'[h] <= Burst'
    <3>1. tokens[h] \in Int
      BY DEF Shape
    <3> QED BY <1>1, <1>3, <3>1
  <2>2. ASSUME NEW q \in Requests PROVE request'[q].wait <= MaxWait'
    <3>1. request[q].wait <= MaxWait
      BY DEF TokenInv, TokensBounded
    <3> QED BY <1>1, <1>2, <3>1
  <2> QED BY <2>1, <2>2 DEF TokensBounded
<1> QED BY <1>4, <1>5, <1>6 DEF TokenInv

-------------------------------------------------------------------------------
(* The queues.                                                                 *)

\* A queue without one of its entries.
LEMMA RemoveAtProperties ==
  ASSUME NEW S, NEW s \in Seq(S), NEW i \in 1..Len(s)
  PROVE  /\ RemoveAt(s, i) \in Seq(S)
         /\ Len(RemoveAt(s, i)) = Len(s) - 1
         /\ \A j \in 1..Len(RemoveAt(s, i)) :
              /\ j < i => RemoveAt(s, i)[j] = s[j]
              /\ j >= i => RemoveAt(s, i)[j] = s[j + 1]
<1> DEFINE before == SubSeq(s, 1, i - 1)
           after == SubSeq(s, i + 1, Len(s))
<1>1. Len(s) \in Nat /\ i \in Nat /\ i >= 1 /\ i <= Len(s)
  BY LenProperties
<1>2. /\ before \in Seq(S) /\ Len(before) = i - 1
      /\ \A j \in 1..(i - 1) : before[j] = s[j]
  BY <1>1, SubSeqProperties
<1>3. /\ after \in Seq(S) /\ Len(after) = Len(s) - i
      /\ \A j \in 1..(Len(s) - i) : after[j] = s[i + j]
  BY <1>1, SubSeqProperties
<1>4. RemoveAt(s, i) = before \o after
  BY DEF RemoveAt
<1> HIDE DEF before, after
<1>5. /\ before \o after \in Seq(S)
      /\ Len(before \o after) = Len(before) + Len(after)
      /\ \A j \in 1..(Len(before) + Len(after)) :
           (before \o after)[j] = IF j <= Len(before) THEN before[j] ELSE after[j - Len(before)]
  BY <1>2, <1>3, ConcatProperties
<1>6. ASSUME NEW j \in 1..Len(before \o after)
      PROVE  /\ j < i => (before \o after)[j] = s[j]
             /\ j >= i => (before \o after)[j] = s[j + 1]
  <2>1. CASE j < i
    BY <1>1, <1>2, <1>3, <1>5, <2>1
  <2>2. CASE j >= i
    <3>1. j - (i - 1) \in 1..(Len(s) - i) /\ i + (j - (i - 1)) = j + 1
      BY <1>1, <1>2, <1>3, <1>5, <2>2
    <3>2. (before \o after)[j] = after[j - (i - 1)]
      BY <1>1, <1>2, <1>3, <1>5, <2>2
    <3> QED BY <1>1, <1>3, <2>2, <3>1, <3>2
  <2> QED BY <1>1, <2>1, <2>2
<1> QED BY <1>1, <1>2, <1>3, <1>4, <1>5, <1>6

\* The queue of a newcomer.
LEMMA AppendLists ==
  ASSUME NEW S, S \subseteq Requests, NEW s \in Seq(Requests), Lists(s, S),
         NEW r \in Requests, r \notin S
  PROVE  Lists(Append(s, r), S \cup {r})
<1> DEFINE t == Append(s, r)
<1>1. /\ Len(s) \in Nat /\ Len(t) = Len(s) + 1 /\ t[Len(s) + 1] = r
      /\ \A i \in 1..Len(s) : t[i] = s[i]
  BY AppendProperties, LenProperties
<1> HIDE DEF t
<1>2. \A i \in 1..Len(t) : i \in 1..Len(s) \/ i = Len(s) + 1
  BY <1>1
<1>3. \A i \in 1..Len(t) : t[i] \in S \cup {r}
  BY <1>1, <1>2 DEF Lists
<1>4. \A i, j \in 1..Len(t) : t[i] = t[j] => i = j
  BY <1>1, <1>2 DEF Lists
<1>5. \A q \in S \cup {r} : \E i \in 1..Len(t) : t[i] = q
  <2>1. 1..Len(s) \subseteq 1..Len(t) /\ Len(s) + 1 \in 1..Len(t)
    BY <1>1
  <2> QED BY <1>1, <2>1 DEF Lists
<1> QED BY <1>3, <1>4, <1>5 DEF Lists, t

\* The queue without one who leaves it.
LEMMA RemoveLists ==
  ASSUME NEW S, NEW s \in Seq(Requests), Lists(s, S), NEW k \in 1..Len(s)
  PROVE  Lists(RemoveAt(s, k), S \ {s[k]})
<1> DEFINE t == RemoveAt(s, k)
           Old(j) == IF j < k THEN j ELSE j + 1
<1>1. /\ Len(s) \in Nat /\ Len(t) = Len(s) - 1
      /\ \A j \in 1..Len(t) : (j < k => t[j] = s[j]) /\ (j >= k => t[j] = s[j + 1])
  BY RemoveAtProperties, LenProperties
<1> HIDE DEF t
<1>2. \A j \in 1..Len(t) : Old(j) \in 1..Len(s) /\ Old(j) # k /\ t[j] = s[Old(j)]
  BY <1>1
<1>3. \A i, j \in 1..Len(t) : Old(i) = Old(j) => i = j
  BY <1>1
<1>4. \A j \in 1..Len(t) : t[j] \in S \ {s[k]}
  BY <1>2 DEF Lists
<1>5. \A i, j \in 1..Len(t) : t[i] = t[j] => i = j
  BY <1>2, <1>3 DEF Lists
<1>6. ASSUME NEW q \in S \ {s[k]} PROVE \E j \in 1..Len(t) : t[j] = q
  <2>1. PICK i \in 1..Len(s) : s[i] = q
    BY DEF Lists
  <2>2. CASE i < k
    BY <1>1, <2>1, <2>2
  <2>3. CASE i > k
    <3>1. i - 1 \in 1..Len(t) /\ t[i - 1] = s[i]
      BY <1>1, <2>3
    <3> QED BY <2>1, <3>1
  <2> QED BY <2>1, <2>2, <2>3
<1> QED BY <1>4, <1>5, <1>6 DEF Lists, t

\* The queue without its first.
LEMMA TailLists ==
  ASSUME NEW S, NEW s \in Seq(Requests), Lists(s, S), s # << >>
  PROVE  /\ Head(s) \in S /\ Tail(s) \in Seq(Requests)
         /\ Lists(Tail(s), S \ {Head(s)})
<1>1. /\ Len(s) \in Nat /\ 1 \in 1..Len(s) /\ Head(s) = s[1]
      /\ Tail(s) \in Seq(Requests) /\ Len(Tail(s)) = Len(s) - 1
      /\ \A j \in 1..Len(Tail(s)) : Tail(s)[j] = s[j + 1]
  BY HeadTailProperties, LenProperties, EmptySeq
<1>2. /\ RemoveAt(s, 1) \in Seq(Requests) /\ Len(RemoveAt(s, 1)) = Len(s) - 1
      /\ \A j \in 1..Len(RemoveAt(s, 1)) : RemoveAt(s, 1)[j] = s[j + 1]
  <2>1. /\ RemoveAt(s, 1) \in Seq(Requests) /\ Len(RemoveAt(s, 1)) = Len(s) - 1
        /\ \A j \in 1..Len(RemoveAt(s, 1)) : j >= 1 => RemoveAt(s, 1)[j] = s[j + 1]
    BY <1>1, RemoveAtProperties
  <2>2. \A j \in 1..Len(RemoveAt(s, 1)) : j >= 1
    OBVIOUS
  <2> QED BY <2>1, <2>2
<1>3. Tail(s) = RemoveAt(s, 1)
  BY <1>1, <1>2, SeqEqual
<1>4. Lists(RemoveAt(s, 1), S \ {s[1]})
  BY <1>1, RemoveLists
<1>5. Head(s) \in S
  BY <1>1 DEF Lists
<1> QED BY <1>1, <1>3, <1>4, <1>5

\* A queue is as long as those queued are many.
LEMMA ListsCount ==
  ASSUME NEW S, S \subseteq Requests, NEW s \in Seq(Requests), Lists(s, S)
  PROVE  ToSet(s) = S /\ Len(s) = Cardinality(S)
<1>1. s \in [1..Len(s) -> S] /\ Len(s) \in Nat
  BY LenProperties DEF Lists
<1>2. s \in Bijection(1..Len(s), S)
  BY <1>1, Fun_IsBij DEF Lists
<1>3. ExistsBijection(1..Len(s), S)
  BY <1>2 DEF ExistsBijection
<1>4. Len(s) = Cardinality(S)
  BY <1>1, <1>3, FS_CountingElements
<1>5. ToSet(s) = S
  BY <1>1 DEF Lists, ToSet
<1> QED BY <1>4, <1>5

-------------------------------------------------------------------------------
(* Where the requests are.                                                     *)

RequestRecord == [pc : Phases, wait : Nat, left : TimeLeft \cup {0}]

\* r, and no other request, moves.
Moves(r, from, to) ==
  /\ from # to
  /\ request' \in [Requests -> RequestRecord]
  /\ request[r].pc = from /\ request'[r].pc = to
  /\ \A q \in Requests \ {r} : request'[q] = request[q]

\* Who moves leaves those at one place and joins those at the other.
LEMMA MoveAt ==
  ASSUME NEW r \in Requests, NEW from, NEW to, Moves(r, from, to)
  PROVE  /\ r \in At(HostOf[r], from) /\ r \notin At(HostOf[r], to)
         /\ At(HostOf[r], from)' = At(HostOf[r], from) \ {r}
         /\ At(HostOf[r], to)' = At(HostOf[r], to) \cup {r}
         /\ \A h, pc : h # HostOf[r] \/ (pc # from /\ pc # to) => At(h, pc)' = At(h, pc)
BY DEF Moves, At

\* A host is as it was when its queue, its slots and who uses them are.
LEMMA HostKept ==
  ASSUME NEW h \in Hosts, HostInv(h), settings' = settings,
         taken'[h] = taken[h], waiters'[h] = waiters[h],
         At(h, "queued")' = At(h, "queued"), At(h, "sent")' = At(h, "sent")
  PROVE  HostInv(h)'
BY DEF HostInv, SlotsLimited

\* A move between places that need neither a slot nor the queue.
LEMMA MoveKeepsHosts ==
  ASSUME Shape, \A h \in Hosts : HostInv(h), NEW r \in Requests, NEW from, NEW to,
         Moves(r, from, to), {from, to} \cap {"queued", "sent"} = {},
         UNCHANGED <<settings, taken, waiters>>
  PROVE  \A h \in Hosts : HostInv(h)'
<1> SUFFICES ASSUME NEW h \in Hosts PROVE HostInv(h)'
  OBVIOUS
<1>1. At(h, "queued")' = At(h, "queued") /\ At(h, "sent")' = At(h, "sent")
  <2>1. "queued" \notin {from, to} /\ "sent" \notin {from, to}
    OBVIOUS
  <2> QED BY <2>1, MoveAt
<1> QED BY <1>1, HostKept

\* A step of one request disturbs no other host.
LEMMA MoveKeepsOthers ==
  ASSUME Shape, \A h \in Hosts : HostInv(h), NEW r \in Requests, NEW from, NEW to,
         Moves(r, from, to), settings' = settings,
         NEW h \in Hosts, h # HostOf[r], taken'[h] = taken[h], waiters'[h] = waiters[h]
  PROVE  HostInv(h)'
<1>1. At(h, "queued")' = At(h, "queued") /\ At(h, "sent")' = At(h, "sent")
  BY MoveAt
<1> QED BY <1>1, HostKept

\* What the steps do to the request that takes them.
LEMMA StepsMove ==
  ASSUME Shape, NEW r \in Requests
  PROVE  /\ \A left \in TimeLeft : Reserve(r, left) => Moves(r, "idle", "limited")
         /\ \A left \in TimeLeft : PassLimiter(r, left) =>
              Moves(r, "idle", "limited") /\ request'[r].wait = request[r].wait
         /\ Acquire(r) => Moves(r, "limited", "sent") /\ request'[r].wait = request[r].wait
         /\ Send(r) => Moves(r, "limited", "sent") /\ request'[r].wait = request[r].wait
         /\ Enqueue(r) => Moves(r, "limited", "queued") /\ request'[r].wait = request[r].wait
         /\ LeaveQueue(r) => Moves(r, "queued", "idle") /\ request'[r].wait = 0
         /\ Close(r) => Moves(r, "body", "idle") /\ request'[r].wait = 0
<1>1. request \in [Requests -> RequestRecord] /\ request[r] \in RequestRecord
  BY DEF Shape, RequestRecord
<1>2. Idle \in RequestRecord /\ Idle.pc = "idle" /\ Idle.wait = 0
  BY DEF Idle, RequestRecord, Phases
<1>3. ASSUME NEW v \in RequestRecord, request' = [request EXCEPT ![r] = v], v.pc # request[r].pc
      PROVE  Moves(r, request[r].pc, v.pc) /\ request'[r] = v
  BY <1>1, <1>3 DEF Moves
<1>4. ASSUME NEW left \in TimeLeft, Reserve(r, left) PROVE Moves(r, "idle", "limited")
  <2> DEFINE v == [pc |-> "limited", wait |-> TicksToToken(tokens[HostOf[r]]), left |-> left]
  <2>1. tokens[HostOf[r]] \in Int /\ RateLimited
    BY <1>4, TransportAssumption DEF Shape, Reserve
  <2>2. TicksToToken(tokens[HostOf[r]]) \in Nat
    BY <2>1, TicksAreEnough
  <2>3. v \in RequestRecord
    BY <2>2 DEF RequestRecord, Phases
  <2>4. request[r] = Idle /\ request' = [request EXCEPT ![r] = v]
    BY <1>4 DEF Reserve
  <2> QED BY <1>2, <1>3, <2>3, <2>4
<1>5. ASSUME NEW left \in TimeLeft, PassLimiter(r, left)
      PROVE  Moves(r, "idle", "limited") /\ request'[r].wait = request[r].wait
  <2> DEFINE v == [pc |-> "limited", wait |-> 0, left |-> left]
  <2>1. v \in RequestRecord /\ v.pc = "limited" /\ v.wait = 0
    BY DEF RequestRecord, Phases
  <2>2. request[r] = Idle /\ request' = [request EXCEPT ![r] = v]
    BY <1>5 DEF PassLimiter
  <2> HIDE DEF v
  <2> QED BY <1>2, <1>3, <2>1, <2>2
<1>6. ASSUME request[r].pc = "limited", request[r].wait = 0, request' = Sent(r)
      PROVE  Moves(r, "limited", "sent") /\ request'[r].wait = request[r].wait
  <2> DEFINE v == [[request[r] EXCEPT !.pc = "sent"] EXCEPT !.wait = 0]
  <2>1. v \in RequestRecord /\ v.pc = "sent" /\ v.wait = 0
    BY <1>1 DEF RequestRecord, Phases
  <2>2. request' = [request EXCEPT ![r] = v]
    BY <1>1, <1>6 DEF Sent
  <2> QED BY <1>3, <1>6, <2>1, <2>2
<1>7. ASSUME Enqueue(r)
      PROVE  Moves(r, "limited", "queued") /\ request'[r].wait = request[r].wait
  <2> DEFINE v == [request[r] EXCEPT !.pc = "queued"]
  <2>1. v \in RequestRecord /\ v.pc = "queued" /\ v.wait = request[r].wait
    BY <1>1 DEF RequestRecord, Phases
  <2>2. request[r].pc = "limited" /\ request' = [request EXCEPT ![r] = v]
    BY <1>7 DEF Enqueue
  <2> QED BY <1>3, <2>1, <2>2
<1>8. LeaveQueue(r) => Moves(r, "queued", "idle") /\ request'[r].wait = 0
  BY <1>2, <1>3 DEF LeaveQueue
<1>9. Close(r) => Moves(r, "body", "idle") /\ request'[r].wait = 0
  BY <1>2, <1>3 DEF Close
<1>10. (Acquire(r) \/ Send(r)) => Moves(r, "limited", "sent") /\ request'[r].wait = request[r].wait
  BY <1>6 DEF Acquire, Send
<1> QED BY <1>4, <1>5, <1>7, <1>8, <1>9, <1>10

-------------------------------------------------------------------------------
(* The semaphore.                                                              *)

\* r takes a free slot.
LEMMA AcquireHostInv ==
  ASSUME Shape, \A h \in Hosts : HostInv(h), NEW r \in Requests, Acquire(r)
  PROVE  \A h \in Hosts : HostInv(h)'
<1> DEFINE g == HostOf[r]
<1>1. Moves(r, "limited", "sent") /\ g \in Hosts
  BY StepsMove, TransportAssumption
<1>2. /\ settings' = settings /\ waiters' = waiters /\ waiters[g] = << >> /\ SlotsLimited
      /\ taken[g] < settings.concurrency /\ taken' = [taken EXCEPT ![g] = @ + 1]
  BY DEF Acquire
<1>3. taken[g] \in Nat /\ taken'[g] = taken[g] + 1 /\ settings.concurrency \in Nat
      /\ \A h \in Hosts : h # g => taken'[h] = taken[h]
  BY <1>1, <1>2, SettingsTyped DEF Shape
<1>4. At(g, "sent")' = At(g, "sent") \cup {r} /\ r \notin At(g, "sent")
      /\ At(g, "queued")' = At(g, "queued")
  BY <1>1, MoveAt
<1>5. Cardinality(At(g, "sent")') = Cardinality(At(g, "sent")) + 1
  BY <1>4, OneMore DEF At
<1>6. HostInv(g)'
  BY <1>1, <1>2, <1>3, <1>4, <1>5 DEF HostInv, SlotsLimited
<1> QED BY <1>1, <1>2, <1>3, <1>6, MoveKeepsOthers

\* r queues behind those already there.
LEMMA EnqueueHostInv ==
  ASSUME Shape, \A h \in Hosts : HostInv(h), NEW r \in Requests, Enqueue(r)
  PROVE  \A h \in Hosts : HostInv(h)'
<1> DEFINE g == HostOf[r]
<1>1. Moves(r, "limited", "queued") /\ g \in Hosts
  BY StepsMove, TransportAssumption
<1>2. /\ settings' = settings /\ taken' = taken /\ SlotsLimited
      /\ taken[g] = settings.concurrency \/ waiters[g] # << >>
      /\ waiters' = [waiters EXCEPT ![g] = Append(@, r)]
  BY DEF Enqueue
<1>3. waiters[g] \in Seq(Requests) /\ waiters'[g] = Append(waiters[g], r)
      /\ \A h \in Hosts : h # g => waiters'[h] = waiters[h]
  BY <1>1, <1>2 DEF Shape
<1>4. At(g, "queued")' = At(g, "queued") \cup {r} /\ r \notin At(g, "queued")
      /\ At(g, "sent")' = At(g, "sent")
  BY <1>1, MoveAt
<1>5. Lists(waiters[g], At(g, "queued")) /\ taken[g] = settings.concurrency
  BY <1>1, <1>2 DEF HostInv
<1>6. Lists(Append(waiters[g], r), At(g, "queued") \cup {r})
  BY <1>3, <1>4, <1>5, AppendLists DEF At
<1>7. HostInv(g)'
  BY <1>1, <1>2, <1>3, <1>4, <1>5, <1>6 DEF HostInv, SlotsLimited
<1> QED BY <1>1, <1>2, <1>3, <1>7, MoveKeepsOthers

\* r leaves the queue, wherever it is in it.
LEMMA LeaveQueueHostInv ==
  ASSUME Shape, \A h \in Hosts : HostInv(h), NEW r \in Requests, LeaveQueue(r)
  PROVE  \A h \in Hosts : HostInv(h)'
<1> DEFINE g == HostOf[r]
<1>1. Moves(r, "queued", "idle") /\ g \in Hosts
  BY StepsMove, TransportAssumption
<1>2. PICK i \in DOMAIN waiters[g] :
        waiters[g][i] = r /\ waiters' = [waiters EXCEPT ![g] = RemoveAt(@, i)]
  BY DEF LeaveQueue
<1>3. settings' = settings /\ taken' = taken
  BY DEF LeaveQueue
<1>4. /\ waiters[g] \in Seq(Requests) /\ i \in 1..Len(waiters[g])
      /\ waiters'[g] = RemoveAt(waiters[g], i)
      /\ \A h \in Hosts : h # g => waiters'[h] = waiters[h]
  BY <1>1, <1>2, LenProperties DEF Shape
<1>5. At(g, "queued")' = At(g, "queued") \ {r} /\ At(g, "sent")' = At(g, "sent")
  BY <1>1, MoveAt
<1>6. Lists(RemoveAt(waiters[g], i), At(g, "queued") \ {r})
  BY <1>1, <1>2, <1>4, RemoveLists DEF HostInv
<1>7. waiters[g] # << >>
  BY <1>4, EmptySeq
<1>8. HostInv(g)'
  BY <1>1, <1>3, <1>4, <1>5, <1>6, <1>7 DEF HostInv, SlotsLimited
<1> QED BY <1>1, <1>3, <1>4, <1>8, MoveKeepsOthers

\* Without a semaphore nobody queues, and no slot is counted.
LEMMA SendHostInv ==
  ASSUME Shape, \A h \in Hosts : HostInv(h), NEW r \in Requests, Send(r)
  PROVE  \A h \in Hosts : HostInv(h)'
<1> DEFINE g == HostOf[r]
<1>1. Moves(r, "limited", "sent") /\ g \in Hosts /\ ~SlotsLimited
      /\ UNCHANGED <<settings, taken, waiters>>
  BY StepsMove, TransportAssumption DEF Send
<1>2. At(g, "queued")' = At(g, "queued")
  BY <1>1, MoveAt
<1>3. HostInv(g)'
  BY <1>1, <1>2 DEF HostInv, SlotsLimited
<1> QED BY <1>1, <1>3, MoveKeepsOthers

\* The requests when r has given back its slot.
Returned(r, pc) == [request EXCEPT ![r] = IF pc = "idle" THEN Idle ELSE [@ EXCEPT !.pc = pc]]

\* And when q has got it.
HandedOver(r, q, pc) == [Returned(r, pc) EXCEPT ![q].pc = "sent"]

\* What a release does to the requests, when nobody waits for the slot.
LEMMA ReturnMoves ==
  ASSUME Shape, NEW r \in Requests, NEW pc \in {"idle", "body"}, request[r].pc = "sent",
         request' = Returned(r, pc)
  PROVE  /\ Moves(r, "sent", pc)
         /\ request'[r].wait = IF pc = "idle" THEN 0 ELSE request[r].wait
<1> DEFINE v == IF pc = "idle" THEN Idle ELSE [request[r] EXCEPT !.pc = pc]
<1>1. request \in [Requests -> RequestRecord] /\ request[r] \in RequestRecord
  BY DEF Shape, RequestRecord
<1>2. v \in RequestRecord /\ v.pc = pc /\ v.wait = IF pc = "idle" THEN 0 ELSE request[r].wait
  <2>1. CASE pc = "idle"
    BY <2>1 DEF RequestRecord, Phases, Idle
  <2>2. CASE pc = "body"
    BY <1>1, <2>2 DEF RequestRecord, Phases
  <2> QED BY <2>1, <2>2
<1>3. request' = [request EXCEPT ![r] = v]
  BY <1>1 DEF Returned
<1> HIDE DEF v
<1> QED BY <1>1, <1>2, <1>3 DEF Moves

\* What it does to them when the first in the queue gets the slot.
LEMMA HandOver ==
  ASSUME Shape, NEW r \in Requests, NEW q \in Requests, NEW pc \in {"idle", "body"},
         request[r].pc = "sent", request[q].pc = "queued",
         request' = HandedOver(r, q, pc)
  PROVE  /\ r # q
         /\ request' \in [Requests -> RequestRecord]
         /\ request'[r].pc = pc /\ request'[q].pc = "sent"
         /\ request'[r].wait = IF pc = "idle" THEN 0 ELSE request[r].wait
         /\ request'[q].wait = request[q].wait
         /\ \A o \in Requests \ {r, q} : request'[o] = request[o]
<1> DEFINE v == IF pc = "idle" THEN Idle ELSE [request[r] EXCEPT !.pc = pc]
           u == [request[q] EXCEPT !.pc = "sent"]
<1>1. /\ request \in [Requests -> RequestRecord] /\ request[r] \in RequestRecord
      /\ request[q] \in RequestRecord /\ r # q
  BY DEF Shape, RequestRecord
<1>2. v \in RequestRecord /\ v.pc = pc /\ v.wait = IF pc = "idle" THEN 0 ELSE request[r].wait
  <2>1. CASE pc = "idle"
    BY <2>1 DEF RequestRecord, Phases, Idle
  <2>2. CASE pc = "body"
    BY <1>1, <2>2 DEF RequestRecord, Phases
  <2> QED BY <2>1, <2>2
<1>3. u \in RequestRecord /\ u.pc = "sent" /\ u.wait = request[q].wait
  BY <1>1 DEF RequestRecord, Phases
<1>4. request' = [[request EXCEPT ![r] = v] EXCEPT ![q] = u]
  <2>1. [request EXCEPT ![r] = v][q] = request[q]
    BY <1>1
  <2> QED BY <1>1, <2>1 DEF Returned, HandedOver
<1> HIDE DEF v, u
<1> QED BY <1>1, <1>2, <1>3, <1>4

\* r gives its slot back, or to the first in the queue.
LEMMA ReleaseHostInv ==
  ASSUME Shape, \A h \in Hosts : HostInv(h), NEW r \in Requests, NEW pc \in {"idle", "body"},
         request[r].pc = "sent", Release(r, pc)
  PROVE  /\ \A h \in Hosts : HostInv(h)'
         /\ request' \in [Requests -> RequestRecord]
         /\ taken' \in [Hosts -> Nat] /\ waiters' \in [Hosts -> Seq(Requests)]
         /\ settings' = settings /\ tokens' = tokens
         /\ \A q \in Requests \ {r} :
              /\ request'[q].wait = request[q].wait
              /\ request[q].pc # "queued" => request'[q].pc = request[q].pc
         /\ request'[r].wait \in {0, request[r].wait}
<1> DEFINE g == HostOf[r]
<1>1. /\ g \in Hosts /\ waiters[g] \in Seq(Requests) /\ taken[g] \in Nat
      /\ taken \in [Hosts -> Nat] /\ waiters \in [Hosts -> Seq(Requests)]
  BY TransportAssumption DEF Shape
<1>2. CASE ~SlotsLimited
  <2>1. request' = Returned(r, pc) /\ UNCHANGED <<settings, tokens, taken, waiters>>
    BY <1>2 DEF Release, Returned
  <2>2. Moves(r, "sent", pc) /\ request'[r].wait = IF pc = "idle" THEN 0 ELSE request[r].wait
    BY <2>1, ReturnMoves
  <2>3. At(g, "queued")' = At(g, "queued")
    BY <2>2, MoveAt
  <2>4. HostInv(g)'
    BY <1>1, <1>2, <2>1, <2>3 DEF HostInv, SlotsLimited
  <2>5. \A h \in Hosts : HostInv(h)'
    BY <2>1, <2>2, <2>4, MoveKeepsOthers
  <2> QED BY <1>1, <2>1, <2>2, <2>5 DEF Moves
<1>3. CASE SlotsLimited /\ waiters[g] = << >>
  <2>1. /\ request' = Returned(r, pc) /\ UNCHANGED <<settings, tokens, waiters>>
        /\ taken' = [taken EXCEPT ![g] = @ - 1]
    BY <1>3 DEF Release, Returned
  <2>2. Moves(r, "sent", pc) /\ request'[r].wait = IF pc = "idle" THEN 0 ELSE request[r].wait
    BY <2>1, ReturnMoves
  <2>3. At(g, "queued")' = At(g, "queued") /\ r \in At(g, "sent")
        /\ At(g, "sent")' = At(g, "sent") \ {r}
    BY <2>2, MoveAt
  <2>4. Cardinality(At(g, "sent")') = Cardinality(At(g, "sent")) - 1
        /\ Cardinality(At(g, "sent")) >= 1
    BY <2>3, OneLess DEF At
  <2>5. taken[g] = Cardinality(At(g, "sent")) /\ taken[g] <= settings.concurrency
    BY <1>1, <1>3 DEF HostInv
  <2>6. /\ taken'[g] = taken[g] - 1 /\ taken'[g] \in Nat
        /\ \A h \in Hosts : h # g => taken'[h] = taken[h]
    BY <1>1, <2>1, <2>4, <2>5
  <2>7. taken' \in [Hosts -> Nat]
    BY <1>1, <2>1, <2>6
  <2>8. settings.concurrency \in Nat
    BY SettingsTyped
  <2>9. HostInv(g)'
    BY <1>1, <1>3, <2>1, <2>3, <2>4, <2>5, <2>6, <2>8 DEF HostInv, SlotsLimited
  <2>10. \A h \in Hosts : HostInv(h)'
    BY <2>1, <2>2, <2>6, <2>9, MoveKeepsOthers
  <2> QED BY <1>1, <2>1, <2>2, <2>7, <2>10 DEF Moves
<1>4. CASE SlotsLimited /\ waiters[g] # << >>
  <2> DEFINE q == Head(waiters[g])
  <2>1. /\ request' = HandedOver(r, q, pc)
        /\ waiters' = [waiters EXCEPT ![g] = Tail(@)]
        /\ UNCHANGED <<settings, tokens, taken>>
    BY <1>4 DEF Release, Returned, HandedOver
  <2>2. /\ q \in At(g, "queued") /\ Tail(waiters[g]) \in Seq(Requests)
        /\ Lists(Tail(waiters[g]), At(g, "queued") \ {q})
    BY <1>1, <1>4, TailLists DEF HostInv
  <2>3. q \in Requests /\ HostOf[q] = g /\ request[q].pc = "queued"
    BY <2>2 DEF At
  <2> HIDE DEF q
  <2>4. /\ r # q
        /\ request' \in [Requests -> RequestRecord]
        /\ request'[r].pc = pc /\ request'[q].pc = "sent"
        /\ request'[r].wait = IF pc = "idle" THEN 0 ELSE request[r].wait
        /\ request'[q].wait = request[q].wait
        /\ \A o \in Requests \ {r, q} : request'[o] = request[o]
    BY <2>1, <2>3, HandOver
  <2>5. waiters'[g] = Tail(waiters[g]) /\ \A h \in Hosts : h # g => waiters'[h] = waiters[h]
    BY <1>1, <2>1
  <2>6. waiters' \in [Hosts -> Seq(Requests)]
    BY <1>1, <2>1, <2>2
  <2>7. /\ At(g, "queued")' = At(g, "queued") \ {q}
        /\ At(g, "sent")' = (At(g, "sent") \ {r}) \cup {q}
        /\ r \in At(g, "sent") /\ q \notin At(g, "sent") \ {r}
    BY <2>3, <2>4 DEF At
  <2>8. Cardinality(At(g, "sent")') = Cardinality(At(g, "sent"))
    <3>1. At(g, "sent") \subseteq Requests
      BY DEF At
    <3>2. Cardinality(At(g, "sent") \ {r}) = Cardinality(At(g, "sent")) - 1
      BY <2>7, <3>1, OneLess
    <3>3. Cardinality((At(g, "sent") \ {r}) \cup {q}) = Cardinality(At(g, "sent") \ {r}) + 1
      BY <2>3, <2>7, <3>1, OneMore
    <3>4. Cardinality(At(g, "sent")) \in Nat
      BY <3>1, RequestsFinite
    <3> DEFINE T == (At(g, "sent") \ {r}) \cup {q}
    <3>5. Cardinality(T) = Cardinality(At(g, "sent"))
      BY <3>2, <3>3, <3>4
    <3>6. At(g, "sent")' = T
      BY <2>7
    <3> HIDE DEF T
    <3> QED BY <3>5, <3>6
  <2>9. HostInv(g)
    BY <1>1
  <2>10. HostInv(g)'
    BY <1>4, <2>1, <2>2, <2>5, <2>7, <2>8, <2>9 DEF HostInv, SlotsLimited
  <2>11. ASSUME NEW h \in Hosts, h # g PROVE HostInv(h)'
    <3>1. At(h, "queued")' = At(h, "queued") /\ At(h, "sent")' = At(h, "sent")
      BY <2>3, <2>4, <2>11 DEF At
    <3> QED BY <2>1, <2>5, <2>11, <3>1, HostKept
  <2> QED BY <1>1, <2>1, <2>3, <2>4, <2>6, <2>10, <2>11
<1> QED BY <1>2, <1>3, <1>4

-------------------------------------------------------------------------------
(* The invariant holds.                                                        *)

\* The types of what a step leaves.
LEMMA ShapeKept ==
  ASSUME Shape, settings' = settings, request' \in [Requests -> RequestRecord],
         tokens' \in [Hosts -> Int], taken' \in [Hosts -> Nat], waiters' \in [Hosts -> Seq(Requests)]
  PROVE  Shape'
<1>1. TimeLeft' = TimeLeft
  BY DEF TimeLeft
<1> QED BY <1>1 DEF Shape, RequestRecord

LEMMA InitInv ==
  ASSUME Init
  PROVE  TransportInv
<1>1. settings \in [concurrency : Nat, rps : Nat, timeout : Nat] /\ settings \in Settings
  BY TransportAssumption DEF Init
<1>2. /\ settings.concurrency \in Nat /\ settings.rps \in Nat /\ settings.timeout \in Nat
      /\ Burst \in Nat \ {0} /\ MaxWait \in Nat
  BY <1>1, RequestsFinite DEF Burst, MaxWait
<1>3. \A r \in Requests : request[r] = Idle /\ request[r].pc = "idle" /\ request[r].wait = 0
  BY DEF Init, Idle
<1>4. \A h \in Hosts : tokens[h] = Burst /\ taken[h] = 0 /\ waiters[h] = << >>
  BY DEF Init
<1>5. Shape
  <2>1. Idle \in [pc : Phases, wait : Nat, left : TimeLeft \cup {0}]
    BY DEF Idle, Phases
  <2>2. << >> \in Seq(Requests)
    BY EmptySeq
  <2> QED BY <1>1, <1>2, <2>1, <2>2 DEF Init, Shape
<1>6. TokenInv
  <2>1. TokensBacked
    <3> SUFFICES ASSUME NEW h \in Hosts, NEW k \in Nat
                 PROVE  tokens[h] + k * settings.rps + Cardinality(Waiting(h, k)) >= 0
      BY DEF TokensBacked
    <3>1. Cardinality(Waiting(h, k)) \in Nat
      BY RequestsFinite DEF Waiting
    <3>2. k * settings.rps \in Nat
      BY <1>2
    <3> QED BY <1>2, <1>4, <3>1, <3>2
  <2> QED BY <1>2, <1>3, <1>4, <2>1 DEF TokenInv, WaitersAreLimited, TokensBounded
<1>7. ASSUME NEW h \in Hosts PROVE HostInv(h)
  <2>1. At(h, "queued") = {} /\ At(h, "sent") = {}
    BY <1>3 DEF At
  <2>2. Len(waiters[h]) = 0
    BY <1>4, EmptySeq
  <2>3. Lists(waiters[h], At(h, "queued"))
    BY <2>1, <2>2 DEF Lists
  <2>4. Cardinality(At(h, "sent")) = 0
    BY <2>1, FS_EmptySet
  <2> QED BY <1>2, <1>4, <2>3, <2>4 DEF HostInv
<1> QED BY <1>5, <1>6, <1>7 DEF TransportInv

LEMMA TickInv ==
  ASSUME TransportInv, Tick
  PROVE  TransportInv'
<1>1. /\ Shape /\ TokenInv /\ settings' = settings /\ taken' = taken /\ waiters' = waiters
      /\ settings.rps \in Nat /\ settings.timeout \in Nat /\ Burst \in Nat \ {0}
      /\ TimeLeft \subseteq Int
  <2>1. Shape /\ TokenInv
    BY DEF TransportInv
  <2>2. settings' = settings /\ taken' = taken /\ waiters' = waiters
    BY DEF Tick
  <2> QED BY <2>1, <2>2, SettingsTyped
<1>2. TokenInv'
  BY <1>1, TickTokenInv
<1>3. ASSUME NEW q \in Requests PROVE request'[q] \in RequestRecord /\ request'[q].pc = request[q].pc
  <2>1. request[q] \in RequestRecord
    BY <1>1 DEF Shape, RequestRecord
  <2>2. CASE request[q] = Idle
    BY <2>1, <2>2 DEF Tick
  <2>3. CASE request[q] # Idle
    <3>1. request'[q] = [request[q] EXCEPT !.left = IF @ > 0 THEN @ - 1 ELSE @,
                                           !.wait = IF @ > 0 THEN @ - 1 ELSE 0]
      BY <2>3 DEF Tick
    <3>a. request[q].left \in TimeLeft \cup {0} /\ request[q].wait \in Nat
      BY <2>1 DEF RequestRecord
    <3>b. request[q].left \in Int
      <4>1. CASE request[q].left = 0
        BY <4>1
      <4>2. CASE request[q].left \in TimeLeft
        BY <1>1, <4>2
      <4> QED BY <3>a, <4>1, <4>2
    <3>2. /\ request[q].left \in TimeLeft \cup {0} /\ request[q].wait \in Nat
          /\ request[q].left \in Int
      BY <3>a, <3>b
    <3>3. request[q].left > 0 => request[q].left - 1 \in TimeLeft \cup {0}
      BY <1>1, <3>2 DEF TimeLeft, NoDeadline
    <3> DEFINE l == IF request[q].left > 0 THEN request[q].left - 1 ELSE request[q].left
               w == IF request[q].wait > 0 THEN request[q].wait - 1 ELSE 0
    <3>4. l \in TimeLeft \cup {0} /\ w \in Nat
      BY <3>2, <3>3
    <3>5. request'[q] = [pc |-> request[q].pc, wait |-> w, left |-> l]
      BY <2>1, <3>1 DEF RequestRecord
    <3>6. request[q].pc \in Phases
      BY <2>1 DEF RequestRecord
    <3> HIDE DEF l, w
    <3> QED BY <3>4, <3>5, <3>6 DEF RequestRecord
  <2> QED BY <2>2, <2>3
<1>4. Shape'
  <2>1. request' \in [Requests -> RequestRecord]
    BY <1>3 DEF Tick
  <2>2. tokens' \in [Hosts -> Int]
    <3>1. ASSUME NEW h \in Hosts
          PROVE  (IF tokens[h] + settings.rps > Burst THEN Burst ELSE tokens[h] + settings.rps) \in Int
      BY <1>1 DEF Shape
    <3> QED BY <3>1 DEF Tick
  <2> QED BY <1>1, <2>1, <2>2, ShapeKept DEF Shape
<1>5. ASSUME NEW h \in Hosts PROVE HostInv(h)'
  <2>1. At(h, "queued")' = At(h, "queued") /\ At(h, "sent")' = At(h, "sent")
    BY <1>3 DEF At
  <2> QED BY <1>1, <2>1, HostKept DEF TransportInv
<1> QED BY <1>2, <1>4, <1>5 DEF TransportInv

LEMMA LimiterInv ==
  ASSUME TransportInv, NEW r \in Requests, NEW left \in TimeLeft,
         Reserve(r, left) \/ PassLimiter(r, left)
  PROVE  TransportInv'
<1>1. Shape /\ TokenInv /\ \A h \in Hosts : HostInv(h)
  BY DEF TransportInv
<1>2. Moves(r, "idle", "limited") /\ UNCHANGED <<settings, taken, waiters>>
  BY <1>1, StepsMove DEF Reserve, PassLimiter
<1>3. \A h \in Hosts : HostInv(h)'
  BY <1>1, <1>2, MoveKeepsHosts
<1>4. tokens' \in [Hosts -> Int]
  BY <1>1 DEF Reserve, PassLimiter, Shape
<1>5. Shape'
  BY <1>1, <1>2, <1>4, ShapeKept DEF Moves, Shape
<1>6. CASE Reserve(r, left)
  BY <1>1, <1>3, <1>5, <1>6, ReserveTokenInv DEF TransportInv
<1>7. CASE PassLimiter(r, left)
  <2>1. request'[r].wait = request[r].wait /\ request[r].wait = 0 /\ tokens' = tokens
    BY <1>1, <1>7, StepsMove DEF PassLimiter, Idle
  <2>2. TokenInv'
    BY <1>1, <1>2, <2>1, WaitsKeptTokenInv DEF Moves
  <2> QED BY <1>1, <1>3, <1>5, <2>2 DEF TransportInv
<1> QED BY <1>6, <1>7

LEMMA RequestStepInv ==
  ASSUME TransportInv, NEW r \in Requests, RequestStep(r)
  PROVE  TransportInv'
<1>1. /\ Shape /\ TokenInv /\ \A h \in Hosts : HostInv(h)
      /\ \A q \in Requests : request[q].wait \in Nat
      /\ \A q \in Requests : request[q].pc # "limited" => request[q].wait = 0
  BY DEF TransportInv, TokenInv, WaitersAreLimited, Shape
<1>2. ASSUME NEW from, NEW to, Moves(r, from, to),
             request[r].wait = 0, request'[r].wait = 0,
             UNCHANGED <<settings, tokens>>,
             taken' \in [Hosts -> Nat], waiters' \in [Hosts -> Seq(Requests)],
             \A h \in Hosts : HostInv(h)'
      PROVE  TransportInv'
  <2>1. TokenInv'
    BY <1>1, <1>2, WaitsKeptTokenInv DEF Moves
  <2>2. Shape'
    BY <1>1, <1>2, ShapeKept DEF Moves, Shape
  <2> QED BY <1>2, <2>1, <2>2 DEF TransportInv
<1>3. CASE Acquire(r)
  <2>1. taken' \in [Hosts -> Nat] /\ waiters' \in [Hosts -> Seq(Requests)]
    <3>1. taken[HostOf[r]] + 1 \in Nat
      BY <1>1, TransportAssumption DEF Shape
    <3> QED BY <1>1, <1>3, <3>1 DEF Acquire, Shape
  <2>2. UNCHANGED <<settings, tokens>> /\ request[r].wait = 0
    BY <1>3 DEF Acquire
  <2> QED BY <1>1, <1>2, <1>3, <2>1, <2>2, StepsMove, AcquireHostInv
<1>4. CASE Send(r)
  <2>1. taken' \in [Hosts -> Nat] /\ waiters' \in [Hosts -> Seq(Requests)]
    BY <1>1, <1>4 DEF Send, Shape
  <2>2. UNCHANGED <<settings, tokens>> /\ request[r].wait = 0
    BY <1>4 DEF Send
  <2> QED BY <1>1, <1>2, <1>4, <2>1, <2>2, StepsMove, SendHostInv
<1>5. CASE Enqueue(r)
  <2>1. taken' \in [Hosts -> Nat] /\ waiters' \in [Hosts -> Seq(Requests)]
    BY <1>1, <1>5, AppendProperties DEF Enqueue, Shape
  <2>2. UNCHANGED <<settings, tokens>> /\ request[r].wait = 0
    BY <1>5 DEF Enqueue
  <2> QED BY <1>1, <1>2, <1>5, <2>1, <2>2, StepsMove, EnqueueHostInv
<1>6. CASE LeaveQueue(r)
  <2>1. taken' \in [Hosts -> Nat]
    BY <1>1, <1>6 DEF LeaveQueue, Shape
  <2>2. waiters' \in [Hosts -> Seq(Requests)]
    <3>1. PICK i \in DOMAIN waiters[HostOf[r]] :
            waiters' = [waiters EXCEPT ![HostOf[r]] = RemoveAt(@, i)]
      BY <1>6 DEF LeaveQueue
    <3>2. HostOf[r] \in Hosts /\ waiters[HostOf[r]] \in Seq(Requests)
      BY <1>1, TransportAssumption DEF Shape
    <3>3. RemoveAt(waiters[HostOf[r]], i) \in Seq(Requests)
      BY <3>1, <3>2, RemoveAtProperties, LenProperties
    <3> QED BY <1>1, <3>1, <3>3 DEF Shape
  <2>3. UNCHANGED <<settings, tokens>> /\ request[r].pc = "queued"
    BY <1>6 DEF LeaveQueue
  <2> QED BY <1>1, <1>2, <1>6, <2>1, <2>2, <2>3, StepsMove, LeaveQueueHostInv
<1>7. CASE Fail(r) \/ Respond(r)
  <2>1. PICK pc \in {"idle", "body"} : request[r].pc = "sent" /\ Release(r, pc)
    BY <1>7 DEF Fail, Respond
  <2>2. /\ \A h \in Hosts : HostInv(h)'
        /\ request' \in [Requests -> RequestRecord]
        /\ taken' \in [Hosts -> Nat] /\ waiters' \in [Hosts -> Seq(Requests)]
        /\ settings' = settings /\ tokens' = tokens
        /\ \A q \in Requests \ {r} :
             /\ request'[q].wait = request[q].wait
             /\ request[q].pc # "queued" => request'[q].pc = request[q].pc
        /\ request'[r].wait \in {0, request[r].wait}
    BY <1>1, <2>1, ReleaseHostInv
  <2>3. TokenInv'
    <3>1. \A q \in Requests :
            /\ request'[q].wait = request[q].wait
            /\ request[q].wait > 0 => request'[q].pc = request[q].pc
      BY <1>1, <2>1, <2>2
    <3> QED BY <1>1, <2>2, <3>1, WaitsKeptTokenInv
  <2>4. Shape'
    BY <1>1, <2>2, ShapeKept DEF Shape
  <2> QED BY <2>2, <2>3, <2>4 DEF TransportInv
<1>8. CASE Close(r)
  <2>1. Moves(r, "body", "idle") /\ request'[r].wait = 0
    BY <1>1, <1>8, StepsMove
  <2>2. UNCHANGED <<settings, tokens, taken, waiters>> /\ request[r].wait = 0
    BY <1>1, <1>8 DEF Close
  <2>3. \A h \in Hosts : HostInv(h)'
    BY <1>1, <2>1, <2>2, MoveKeepsHosts
  <2> QED BY <1>1, <1>2, <2>1, <2>2, <2>3 DEF Shape
<1> QED BY <1>3, <1>4, <1>5, <1>6, <1>7, <1>8 DEF RequestStep

\* The invariant of the transport: who waits for a token has reserved it, who is
\* queued is in the queue of its host, and who was sent holds a slot.
THEOREM TransportHolds == Spec => []TransportInv
<1>1. ASSUME TransportInv, [Next]_vars PROVE TransportInv'
  <2>1. CASE UNCHANGED vars
    <3>1. Shape' /\ TokenInv'
      BY <1>1, <2>1 DEF vars, TransportInv, Shape, TokenInv, WaitersAreLimited, TokensBacked,
         TokensBounded, Waiting, TimeLeft, Burst, MaxWait
    <3>2. \A h \in Hosts : HostInv(h)'
      BY <1>1, <2>1 DEF vars, TransportInv, HostInv, At, SlotsLimited
    <3> QED BY <3>1, <3>2 DEF TransportInv
  <2>2. CASE Tick
    BY <1>1, <2>2, TickInv
  <2>3. ASSUME NEW r \in Requests, RequestStep(r) PROVE TransportInv'
    BY <1>1, <2>3, RequestStepInv
  <2>4. ASSUME NEW r \in Requests, NEW left \in TimeLeft, Reserve(r, left) \/ PassLimiter(r, left)
        PROVE  TransportInv'
    BY <1>1, <2>4, LimiterInv
  <2> QED BY <1>1, <2>1, <2>2, <2>3, <2>4 DEF Next
<1> QED BY <1>1, InitInv, PTL DEF Spec

\* The state is well typed, with what the limiter lends bounded by the deadline
\* (rate.Limiter.Wait refuses a wait that would outlast it).
THEOREM TransportTyped == Spec => []TypeOK
<1>1. ASSUME TransportInv PROVE TypeOK
  <2>1. Shape /\ TokenInv /\ \A h \in Hosts : HostInv(h)
    BY <1>1 DEF TransportInv
  <2>2. settings.rps \in Nat /\ MaxWait \in Nat /\ Burst \in Nat /\ settings.concurrency \in Nat
    BY <2>1, SettingsTyped
  <2>3. request \in [Requests -> [pc : {"idle", "limited", "queued", "sent", "body"},
                                  wait : 0..MaxWait, left : TimeLeft \cup {0}]]
    <3>1. ASSUME NEW r \in Requests
          PROVE  request[r] \in [pc : Phases, wait : 0..MaxWait, left : TimeLeft \cup {0}]
      <4>1. request[r] \in [pc : Phases, wait : Nat, left : TimeLeft \cup {0}]
        BY <2>1 DEF Shape
      <4>2. request[r].wait \in 0..MaxWait
        BY <2>1, <2>2, <4>1 DEF TokenInv, TokensBounded
      <4> QED BY <4>1, <4>2
    <3> QED BY <2>1, <3>1 DEF Shape, Phases
  <2>4. tokens \in [Hosts -> (-(settings.rps * MaxWait))..Burst]
    <3>1. ASSUME NEW h \in Hosts PROVE tokens[h] \in (-(settings.rps * MaxWait))..Burst
      <4>1. tokens[h] \in Int /\ tokens[h] <= Burst /\ tokens[h] >= -(settings.rps * MaxWait)
        BY <2>1, ReservedIsBounded DEF Shape, TokenInv, TokensBounded
      <4>2. settings.rps * MaxWait \in Nat
        BY <2>2
      <4> QED BY <2>2, <4>1, <4>2
    <3> QED BY <2>1, <3>1 DEF Shape
  <2>5. taken \in [Hosts -> 0..settings.concurrency]
    <3>1. \A h \in Hosts : taken[h] \in 0..settings.concurrency
      BY <2>1, <2>2 DEF Shape, HostInv
    <3> QED BY <2>1, <3>1 DEF Shape
  <2> QED BY <2>1, <2>3, <2>4, <2>5 DEF TypeOK, Shape
<1> QED BY <1>1, TransportHolds, PTL

\* No slot and no place in a queue leaks, whichever of response, error and deadline
\* ends a request (the release in concurrencyTransport.RoundTrip).
THEOREM SlotsAreAccountedFor == Spec => []SlotsMatchRequests
<1>1. ASSUME TransportInv PROVE SlotsMatchRequests
  <2> SUFFICES ASSUME NEW h \in Hosts
               PROVE  /\ taken[h] = IF SlotsLimited THEN Cardinality(At(h, "sent")) ELSE 0
                      /\ ToSet(waiters[h]) = At(h, "queued")
                      /\ Len(waiters[h]) = Cardinality(At(h, "queued"))
    BY DEF SlotsMatchRequests
  <2>1. HostInv(h) /\ waiters[h] \in Seq(Requests)
    BY <1>1 DEF TransportInv, Shape
  <2>2. At(h, "queued") \subseteq Requests
    BY DEF At
  <2>3. ToSet(waiters[h]) = At(h, "queued") /\ Len(waiters[h]) = Cardinality(At(h, "queued"))
    BY <2>1, <2>2, ListsCount DEF HostInv
  <2> QED BY <2>1, <2>3 DEF HostInv
<1> QED BY <1>1, TransportHolds, PTL

\* The semaphore never keeps somebody waiting for a slot that is free.
THEOREM NobodyWaitsForAFreeSlot == Spec => []NoIdleSlot
<1>1. TransportInv => NoIdleSlot
  BY DEF TransportInv, HostInv, NoIdleSlot
<1> QED BY <1>1, TransportHolds, PTL

===============================================================================
