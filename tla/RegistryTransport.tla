--------------------------- MODULE RegistryTransport ---------------------------
(***************************************************************************)
(* The HTTP transport that all image reconcilers share (transport.go): a    *)
(* token bucket for each registry host, then a semaphore for each host,     *)
(* then the connection.                                                    *)
(*                                                                         *)
(* A request takes a token, or reserves one that is still to come and       *)
(* waits for it; if the wait would outlast the deadline of the image's      *)
(* fetch it is refused at once.  Then it takes a slot of the semaphore, or  *)
(* queues for one until the deadline.  The slot is free again when the      *)
(* response's header is there; its body is read after that.  A limit of 0   *)
(* leaves its layer out.                                                    *)
(***************************************************************************)
EXTENDS Integers, Sequences, FiniteSets, SequencesExt

CONSTANTS
  Requests,     \* callers with one request at a time: fetches of images
  Hosts, HostOf,
  Settings      \* what the exporter can be started with, each with its
                \*   concurrency: --registry-concurrency; 0 for no limit
                \*   rps: --registry-rps, tokens for each tick; 0 for no limit
                \*   timeout: --registry-timeout, in ticks; 0 for none

ASSUME TransportAssumption ==
  /\ HostOf \in [Requests -> Hosts]
  /\ Settings \subseteq [concurrency : Nat, rps : Nat, timeout : Nat]
  /\ IsFiniteSet(Requests)

NoDeadline == -1

VARIABLES
  settings,  \* what it was started with
  request,   \* request -> where it is, ticks to its token, ticks to its deadline
  tokens,    \* host -> tokens in the bucket; below 0 for those reserved ahead
  taken,     \* host -> the semaphore's count of slots taken
  waiters    \* host -> the semaphore's queue

vars == <<settings, request, tokens, taken, waiters>>

\* The layers of newRegistryTransport.  The bucket holds as many tokens as there
\* are slots, and one if slots are not limited.
RateLimited == settings.rps > 0
SlotsLimited == settings.concurrency > 0
Burst == IF settings.concurrency < 1 THEN 1 ELSE settings.concurrency

\* Ticks that the fetch of an image may have left when it sends a request.
TimeLeft == IF settings.timeout = 0 THEN {NoDeadline} ELSE 0..settings.timeout

\* Ticks that a request waits for its token at most.
MaxWait == IF settings.timeout = 0 THEN Cardinality(Requests) ELSE settings.timeout

Idle == [pc |-> "idle", wait |-> 0, left |-> 0]

Init ==
  /\ settings \in Settings
  /\ request = [r \in Requests |-> Idle]
  /\ tokens = [h \in Hosts |-> Burst]
  /\ taken = [h \in Hosts |-> 0]
  /\ waiters = [h \in Hosts |-> << >>]

At(h, pc) == {r \in Requests : HostOf[r] = h /\ request[r].pc = pc}

-------------------------------------------------------------------------------
(* rateLimitTransport.                                                      *)

\* Ticks until a bucket with n tokens has one to give.
TicksToToken(n) == IF n >= 1 THEN 0 ELSE (1 - n + settings.rps - 1) \div settings.rps

\* A limiter that lets requests wait past their deadline.
ReservePatiently(r, left) ==
  LET h == HostOf[r]
  IN /\ RateLimited /\ request[r] = Idle
     /\ request' = [request EXCEPT ![r] =
                      [pc |-> "limited", wait |-> TicksToToken(tokens[h]), left |-> left]]
     /\ tokens' = [tokens EXCEPT ![h] = @ - 1]
     /\ UNCHANGED <<settings, taken, waiters>>

\* A request of a fetch with left ticks to go.
Reserve(r, left) ==
  LET h == HostOf[r]
  IN /\ RateLimited /\ request[r] = Idle
     /\ left = NoDeadline \/ TicksToToken(tokens[h]) <= left
     /\ request' = [request EXCEPT ![r] =
                      [pc |-> "limited", wait |-> TicksToToken(tokens[h]), left |-> left]]
     /\ tokens' = [tokens EXCEPT ![h] = @ - 1]
     /\ UNCHANGED <<settings, taken, waiters>>

\* There is no limiter.
PassLimiter(r, left) ==
  /\ ~RateLimited /\ request[r] = Idle
  /\ request' = [request EXCEPT ![r] = [pc |-> "limited", wait |-> 0, left |-> left]]
  /\ UNCHANGED <<settings, tokens, taken, waiters>>

-------------------------------------------------------------------------------
(* concurrencyTransport.                                                    *)

Sent(r) == [request EXCEPT ![r].pc = "sent", ![r].wait = 0]

\* A slot is free and nobody waits for one.
Acquire(r) ==
  LET h == HostOf[r]
  IN /\ SlotsLimited /\ request[r].pc = "limited" /\ request[r].wait = 0
     /\ taken[h] < settings.concurrency /\ waiters[h] = << >>
     /\ taken' = [taken EXCEPT ![h] = @ + 1]
     /\ request' = Sent(r)
     /\ UNCHANGED <<settings, tokens, waiters>>

\* There is no semaphore.
Send(r) ==
  /\ ~SlotsLimited /\ request[r].pc = "limited" /\ request[r].wait = 0
  /\ request' = Sent(r)
  /\ UNCHANGED <<settings, tokens, taken, waiters>>

Enqueue(r) ==
  LET h == HostOf[r]
  IN /\ SlotsLimited /\ request[r].pc = "limited" /\ request[r].wait = 0
     /\ taken[h] = settings.concurrency \/ waiters[h] # << >>
     /\ waiters' = [waiters EXCEPT ![h] = Append(@, r)]
     /\ request' = [request EXCEPT ![r].pc = "queued"]
     /\ UNCHANGED <<settings, tokens, taken>>

\* A caller that gives up without leaving the queue.
AbandonQueue(r) ==
  /\ request[r].pc = "queued" /\ request[r].left = 0
  /\ request' = [request EXCEPT ![r] = Idle]
  /\ UNCHANGED <<settings, tokens, taken, waiters>>

\* The deadline passes in the queue.
LeaveQueue(r) ==
  LET h == HostOf[r]
  IN /\ request[r].pc = "queued" /\ request[r].left = 0
     /\ \E i \in DOMAIN waiters[h] :
          waiters[h][i] = r /\ waiters' = [waiters EXCEPT ![h] = RemoveAt(@, i)]
     /\ request' = [request EXCEPT ![r] = Idle]
     /\ UNCHANGED <<settings, tokens, taken>>

\* A release that wakes nobody.
ReleaseSilently(r, pc) ==
  LET h == HostOf[r]
  IN /\ taken' = [taken EXCEPT ![h] = @ - 1]
     /\ request' = [request EXCEPT ![r] = IF pc = "idle" THEN Idle ELSE [@ EXCEPT !.pc = pc]]
     /\ UNCHANGED <<settings, tokens, waiters>>

\* r gives back the slot it has, and is at pc; the first in the queue gets the slot.
Release(r, pc) ==
  LET h == HostOf[r]
      returned == [request EXCEPT ![r] = IF pc = "idle" THEN Idle ELSE [@ EXCEPT !.pc = pc]]
  IN IF ~SlotsLimited THEN request' = returned /\ UNCHANGED <<settings, tokens, taken, waiters>>
     ELSE IF waiters[h] = << >>
     THEN /\ taken' = [taken EXCEPT ![h] = @ - 1]
          /\ request' = returned
          /\ UNCHANGED <<settings, tokens, waiters>>
     ELSE /\ request' = [returned EXCEPT ![Head(waiters[h])].pc = "sent"]
          /\ waiters' = [waiters EXCEPT ![h] = Tail(@)]
          /\ UNCHANGED <<settings, tokens, taken>>

\* A return that keeps the slot when there is no response.
FailKeepingSlot(r) ==
  /\ request[r].pc = "sent"
  /\ request' = [request EXCEPT ![r] = Idle]
  /\ UNCHANGED <<settings, tokens, taken, waiters>>

\* No response: refused, broken, or past the deadline.
Fail(r) == request[r].pc = "sent" /\ Release(r, "idle")

\* The header of the response is there.
Respond(r) == request[r].pc = "sent" /\ request[r].left # 0 /\ Release(r, "body")

\* The caller has read the body, or failed to.
Close(r) ==
  /\ request[r].pc = "body"
  /\ request' = [request EXCEPT ![r] = Idle]
  /\ UNCHANGED <<settings, tokens, taken, waiters>>

-------------------------------------------------------------------------------

\* No request outlives its deadline, and none sleeps past its token.
Tick ==
  /\ \A r \in Requests : request[r] # Idle =>
       request[r].left # 0 /\ (request[r].pc = "limited" => request[r].wait > 0)
  /\ request' = [r \in Requests |->
                   IF request[r] = Idle THEN Idle
                   ELSE [request[r] EXCEPT !.left = IF @ > 0 THEN @ - 1 ELSE @,
                                           !.wait = IF @ > 0 THEN @ - 1 ELSE 0]]
  /\ tokens' = [h \in Hosts |->
                  IF tokens[h] + settings.rps > Burst THEN Burst ELSE tokens[h] + settings.rps]
  /\ UNCHANGED <<settings, taken, waiters>>

RequestStep(r) ==
  Acquire(r) \/ Send(r) \/ Enqueue(r) \/ LeaveQueue(r) \/ Fail(r) \/ Respond(r) \/ Close(r)

Next ==
  \/ Tick
  \/ \E r \in Requests : RequestStep(r) \/ \E left \in TimeLeft : Reserve(r, left) \/ PassLimiter(r, left)

Spec == Init /\ [][Next]_vars

\* Time passes, timers fire, callers read on, and a request that was sent gets a
\* response, an error or its deadline.
FairSpec ==
  /\ Spec
  /\ WF_vars(Tick)
  /\ \A r \in Requests :
       /\ WF_vars(Acquire(r) \/ Send(r) \/ Enqueue(r))
       /\ WF_vars(LeaveQueue(r))
       /\ WF_vars(Fail(r) \/ Respond(r))
       /\ WF_vars(Close(r))

-------------------------------------------------------------------------------

\* The state is well typed.  What is reserved ahead is bounded by the deadline: a
\* request that could not be sent in time is refused and takes no token.
TypeOK ==
  /\ settings \in Settings
  /\ request \in [Requests -> [pc : {"idle", "limited", "queued", "sent", "body"},
                              wait : 0..MaxWait, left : TimeLeft \cup {0}]]
  /\ tokens \in [Hosts -> (-(settings.rps * MaxWait))..Burst]
  /\ taken \in [Hosts -> 0..settings.concurrency]
  /\ \A h \in Hosts : waiters[h] \in Seq(Requests)

\* Every slot taken is held by one request that waits for its response, and every
\* place in a queue by one that waits for a slot: none leaks, whichever of
\* response, error and deadline ends a request, and hosts do not mix
\* (transport.go: "bounds in-flight requests per host with a semaphore").
SlotsMatchRequests ==
  \A h \in Hosts :
    /\ taken[h] = IF SlotsLimited THEN Cardinality(At(h, "sent")) ELSE 0
    /\ ToSet(waiters[h]) = At(h, "queued")
    /\ Len(waiters[h]) = Cardinality(At(h, "queued"))

\* Nobody queues for a slot that is free.
NoIdleSlot ==
  \A h \in Hosts : waiters[h] # << >> => taken[h] = settings.concurrency

\* Every request ends: the queue of a host is served in order, so that with no
\* deadline to cut it off a request still gets its slot.
RequestsEnd ==
  \A r \in Requests : (request[r] # Idle) ~> (request[r] = Idle)

===============================================================================
