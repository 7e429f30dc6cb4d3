------------------------------- MODULE SecClient -------------------------------
(***************************************************************************)
(* The federated SEC client (src/populus/net/sec_client.py) under several  *)
(* threads: get() elects a leader per url, the others follow it; one gate  *)
(* serialises spacing, transport calls and backoff; a state lock guards    *)
(* the flights, the cache and the circuit breaker.                         *)
(*                                                                         *)
(* A section under _state is one step.  Times are kept as what the code    *)
(* computes from them: how long ago something was, no further than the     *)
(* bound it is compared with, and how long the sleep has still to last.    *)
(* A flight is named by the thread that leads it.                          *)
(***************************************************************************)
EXTENDS Integers, Sequences

CONSTANTS
    Threads,         \* callers of get()
    Urls,            \* what they ask for
    TTL,             \* TTL_S of each url's endpoint class, in ticks
    MinInterval,     \* MIN_INTERVAL_S
    Threshold,       \* CIRCUIT_403_THRESHOLD
    Backoff,         \* BACKOFF_SCHEDULE
    RetryAfterCap,   \* RETRY_AFTER_CAP_S
    Null             \* no thread, no url

ASSUME SecAssumption ==
    /\ TTL \in [Urls -> Nat]
    /\ MinInterval \in Nat /\ Threshold \in Nat \ {0} /\ RetryAfterCap \in Nat
    /\ Backoff \in Seq(0..RetryAfterCap)
    /\ Null \notin Threads \cup Urls

VARIABLES
    gate,        \* the thread that holds _gate
    nap,         \* what is left of its sleep
    since,       \* ticks since _last_request
    latched,     \* the url the breaker opened at
    forbidden,   \* _consecutive_403
    flights,     \* per url, the leader of its flight
    cached,      \* the urls with a cache entry
    age,         \* per url, ticks since the entry was stored
    pc, url,     \* per thread: where it is, and what it asks for
    leader,      \* per thread: whose flight it follows
    tries,       \* per thread: backoffs used up
    outcome,     \* per leader: what its flight came to
    calm,        \* no new calls from here on
    quiet        \* history: ticks since the last transport call

locks    == <<gate, nap, since>>
breaker  == <<latched, forbidden>>
store    == <<flights, cached, age>>
thread   == <<pc, url, leader, tries, outcome>>
secVars  == <<locks, breaker, store, thread, calm, quiet>>

Gated    == {"space", "send", "transport"}
Leading  == {"gate", "space", "send", "transport", "store", "fail", "announce"}
Places   == Leading \cup {"idle", "wait"}
Outcomes == {"none", "ok", "revalidated", "response", "open", "error"}

SecTypeOK ==
    /\ gate \in Threads \cup {Null}
    /\ nap \in Nat /\ since \in 0..MinInterval /\ quiet \in 0..MinInterval
    /\ latched \in Urls \cup {Null}
    /\ forbidden \in 0..Threshold
    /\ flights \in [Urls -> Threads \cup {Null}]
    /\ cached \subseteq Urls
    /\ age \in [Urls -> Nat]
    /\ pc \in [Threads -> Places]
    /\ url \in [Threads -> Urls \cup {Null}]
    /\ leader \in [Threads -> Threads \cup {Null}]
    /\ tries \in [Threads -> 0..Len(Backoff)]
    /\ outcome \in [Threads -> Outcomes]
    /\ calm \in BOOLEAN

SecInit ==
    /\ gate = Null /\ nap = 0 /\ since = MinInterval
    /\ latched = Null /\ forbidden = 0
    /\ flights = [u \in Urls |-> Null]
    /\ cached = {} /\ age = [u \in Urls |-> 0]
    /\ pc = [t \in Threads |-> "idle"] /\ url = [t \in Threads |-> Null]
    /\ leader = [t \in Threads |-> Null]
    /\ tries = [t \in Threads |-> 0]
    /\ outcome = [t \in Threads |-> "none"]
    /\ calm = FALSE /\ quiet = MinInterval

-----------------------------------------------------------------------------
(* get(), up to the gate.                                                  *)

Goto(t, s) == pc' = [pc EXCEPT ![t] = s]

Fresh(u) == u \in cached /\ age[u] < TTL[u]

(* Mutant: every caller that finds nothing in the cache leads a flight.    *)
JoinAlone(t, u) ==
    /\ pc[t] = "idle" /\ ~calm
    /\ latched = Null /\ ~Fresh(u)
    /\ url' = [url EXCEPT ![t] = u]
    /\ flights' = [flights EXCEPT ![u] = t]
    /\ Goto(t, "gate")
    /\ UNCHANGED <<locks, breaker, cached, age, leader, tries, outcome, calm, quiet>>

(* A call that finds the breaker open raises, and one that finds a fresh   *)
(* entry returns it: neither changes anything.  (The code looks at the     *)
(* breaker twice; it never closes again, so the second look decides.)  Any *)
(* other call leads a new flight or joins the one under way.               *)
Join(t, u) ==
    /\ pc[t] = "idle" /\ ~calm
    /\ latched = Null /\ ~Fresh(u)
    /\ url' = [url EXCEPT ![t] = u]
    /\ IF flights[u] = Null
       THEN /\ flights' = [flights EXCEPT ![u] = t]
            /\ Goto(t, "gate") /\ UNCHANGED leader
       ELSE /\ Goto(t, "wait") /\ leader' = [leader EXCEPT ![t] = flights[u]]
            /\ UNCHANGED flights
    /\ UNCHANGED <<locks, breaker, cached, age, tries, outcome, calm, quiet>>

(* The gate is left, by return or by exception, with this outcome.         *)
LeaveGate(t, s, o) ==
    /\ gate' = Null
    /\ Goto(t, s)
    /\ outcome' = [outcome EXCEPT ![t] = o]

(* The breaker may have opened while this leader queued.                   *)
EnterGate(t) ==
    /\ pc[t] = "gate" /\ gate = Null
    /\ IF latched # Null
       THEN LeaveGate(t, "fail", "open")
       ELSE gate' = t /\ Goto(t, "space") /\ UNCHANGED outcome
    /\ UNCHANGED <<nap, since, breaker, store, url, leader, tries, calm, quiet>>

-----------------------------------------------------------------------------
(* _perform: one attempt after another under the gate.                     *)

Space(t) ==
    /\ pc[t] = "space" /\ nap = 0
    /\ nap' = MinInterval - since
    /\ Goto(t, "send")
    /\ UNCHANGED <<gate, since, breaker, store, url, leader, tries, outcome,
                   calm, quiet>>

(* Mutant: the attempt is recorded only when it is answered.               *)
SendUnrecorded(t) ==
    /\ pc[t] = "send" /\ nap = 0
    /\ quiet' = 0
    /\ Goto(t, "transport")
    /\ UNCHANGED <<locks, breaker, store, url, leader, tries, outcome, calm>>

(* The attempt is recorded before the call, which may raise.               *)
Send(t) ==
    /\ pc[t] = "send" /\ nap = 0
    /\ since' = 0 /\ quiet' = 0
    /\ Goto(t, "transport")
    /\ UNCHANGED <<gate, nap, breaker, store, url, leader, tries, outcome, calm>>

Unanswered == UNCHANGED <<since, store, url, leader, calm, quiet>>

(* Mutant: the gate is released only on return.                            *)
TransportFailsInside(t) ==
    /\ pc[t] = "transport"
    /\ Goto(t, "fail") /\ outcome' = [outcome EXCEPT ![t] = "error"]
    /\ UNCHANGED <<gate, nap, breaker, tries>> /\ Unanswered

TransportFails(t) ==
    /\ pc[t] = "transport"
    /\ LeaveGate(t, "fail", "error")
    /\ UNCHANGED <<nap, breaker, tries>> /\ Unanswered

(* A 403 is never retried; the Threshold-th in a row opens the breaker.    *)
Refuse(t) ==
    /\ pc[t] = "transport"
    /\ forbidden' = forbidden + 1
    /\ IF forbidden' >= Threshold
       THEN latched' = url[t] /\ LeaveGate(t, "fail", "open")
       ELSE LeaveGate(t, "store", "response") /\ UNCHANGED latched
    /\ UNCHANGED <<nap, tries>> /\ Unanswered

(* 429 and 5xx: sleep for the schedule's delay or a longer Retry-After, up *)
(* to the cap, and try again until the schedule is used up.                *)
BackOff(t) ==
    /\ pc[t] = "transport"
    /\ forbidden' = 0
    /\ IF tries[t] < Len(Backoff)
       THEN /\ nap' \in Backoff[tries[t] + 1]..RetryAfterCap
            /\ tries' = [tries EXCEPT ![t] = @ + 1]
            /\ Goto(t, "space") /\ UNCHANGED <<gate, outcome>>
       ELSE /\ LeaveGate(t, "store", "response")
            /\ UNCHANGED <<nap, tries>>
    /\ UNCHANGED latched /\ Unanswered

(* Any other answer: a 200, a 304 to a request that had an entry, or what  *)
(* is handed on as it is.                                                  *)
Respond(t) ==
    /\ pc[t] = "transport"
    /\ forbidden' = 0
    /\ \E o \in {"ok", "revalidated", "response"} :
         /\ o = "revalidated" => url[t] \in cached
         /\ LeaveGate(t, "store", o)
    /\ UNCHANGED <<nap, latched, tries>> /\ Unanswered

-----------------------------------------------------------------------------
(* The flight ends.                                                        *)

(* The response is cached and the flight removed in one section.           *)
Store(t) ==
    LET u == url[t] IN
    /\ pc[t] = "store"
    /\ \/ /\ outcome[t] = "ok"
          /\ cached' = cached \cup {u}
          /\ age' = [age EXCEPT ![u] = 0]
       \/ /\ outcome[t] = "revalidated"
          /\ age' = [age EXCEPT ![u] = 0] /\ UNCHANGED cached
       \/ outcome[t] = "response" /\ UNCHANGED <<cached, age>>
    /\ flights' = [flights EXCEPT ![u] = Null]
    /\ Goto(t, "announce")
    /\ UNCHANGED <<locks, breaker, url, leader, tries, outcome, calm, quiet>>

(* Whatever was raised ends the flight; nothing is cached.                 *)
Fail(t) ==
    /\ pc[t] = "fail"
    /\ flights' = [flights EXCEPT ![url[t]] = Null]
    /\ Goto(t, "announce")
    /\ UNCHANGED <<locks, breaker, cached, age, url, leader, tries, outcome,
                   calm, quiet>>

Followers(t) == {f \in Threads : pc[f] = "wait" /\ leader[f] = t}

(* These calls return or raise; nothing of them is left.                   *)
Return(done) ==
    /\ pc' = [f \in Threads |-> IF f \in done THEN "idle" ELSE pc[f]]
    /\ url' = [f \in Threads |-> IF f \in done THEN Null ELSE url[f]]
    /\ leader' = [f \in Threads |-> IF f \in done THEN Null ELSE leader[f]]
    /\ tries' = [f \in Threads |-> IF f \in done THEN 0 ELSE tries[f]]
    /\ outcome' = [f \in Threads |-> IF f \in done THEN "none" ELSE outcome[f]]
    /\ UNCHANGED <<locks, breaker, store, calm, quiet>>

(* event.set(): the leader and all who follow it return its outcome.       *)
Announce(t) == pc[t] = "announce" /\ Return({t} \cup Followers(t))

-----------------------------------------------------------------------------

(* One tick of the monotonic clock.                                        *)
Tick ==
    /\ nap' = IF nap > 0 THEN nap - 1 ELSE 0
    /\ since' = IF since < MinInterval THEN since + 1 ELSE since
    /\ quiet' = IF quiet < MinInterval THEN quiet + 1 ELSE quiet
    /\ age' = [u \in Urls |-> IF age[u] < TTL[u] THEN age[u] + 1 ELSE age[u]]
    /\ UNCHANGED <<gate, breaker, flights, cached, thread, calm>>

CalmDown == ~calm /\ calm' = TRUE
            /\ UNCHANGED <<locks, breaker, store, thread, quiet>>

Advance(t) ==
    \/ EnterGate(t) \/ Space(t) \/ Send(t)
    \/ TransportFails(t) \/ Refuse(t) \/ BackOff(t) \/ Respond(t)
    \/ Store(t) \/ Fail(t) \/ Announce(t)

SecNext ==
    \/ \E t \in Threads :
         \/ \E u \in Urls : Join(t, u)
         \/ Advance(t)
    \/ Tick \/ CalmDown

SecSpec == SecInit /\ [][SecNext]_secVars

(* Threads are scheduled, transport calls time out, and the clock runs.    *)
SecFairSpec ==
    SecSpec /\ WF_secVars(Tick) /\ \A t \in Threads : WF_secVars(Advance(t))

-----------------------------------------------------------------------------
(* Properties.                                                             *)

(* The agency sees spaced, single requests, and none once the breaker has  *)
(* opened, whichever leaders queue for the gate, fail or back off.         *)
Agency == INSTANCE SecPoliteness WITH
    asking <- \E t \in Threads : pc[t] = "transport",
    refusals <- forbidden
ImplementsPoliteness == Agency!Politeness

(* A flight goes to SEC only for what the cache cannot answer: a burst of  *)
(* callers costs one request, however they interleave with its end.        *)
NoNeedlessRequest ==
    \A t \in Threads : pc[t] \in Leading \ {"announce"} => ~Fresh(url[t])

(* A follower waits for a thread that is still to announce an outcome for  *)
(* the very url it asked for.                                              *)
FollowersAreLed ==
    \A f \in Threads : pc[f] = "wait" =>
        /\ leader[f] \in Threads /\ pc[leader[f]] \in Leading
        /\ url[leader[f]] = url[f]

(* No caller hangs: once no new calls come, every pending one returns,     *)
(* whatever was raised, refused or slept through.                          *)
EveryCallReturns == calm ~> \A t \in Threads : pc[t] = "idle"

=============================================================================
