------------------------------ MODULE IngestProofs ------------------------------
(***************************************************************************)
(* Proofs about what every ingest rests on, two machines that share        *)
(* nothing.  SecClient, for any number of threads and urls and any         *)
(* interval, threshold and backoff schedule: the requests are spaced,      *)
(* single and end with the breaker, a flight is never needless, a follower *)
(* is never left.  IdentityRegistry, for any identifiers, securities,      *)
(* revisions of the reviewed file, observations and lists: the tables say  *)
(* what a build from nothing says, no id is lost, and the candidates and   *)
(* the holdings of a security are those of its identifiers.                *)
(***************************************************************************)
EXTENDS SecClient, IdentityRegistry, FiniteSetTheorems, WellFoundedInduction, TLAPS

(***************************************************************************)
(* The SEC client.                                                         *)
(***************************************************************************)

(* Under the gate: its holder, and nobody else, is in _perform.            *)
GateIsExclusive == \A t \in Threads : pc[t] \in Gated <=> gate = t

(* The flights table and the leaders agree until the flight is popped.     *)
Open == Leading \ {"announce"}
FlightsHaveLeaders ==
    /\ \A t \in Threads : pc[t] \in Open =>
         url[t] \in Urls /\ flights[url[t]] = t
    /\ \A u \in Urls : flights[u] # Null =>
         pc[flights[u]] \in Open /\ url[flights[u]] = u

(* The breaker is open exactly when the refusals reached the threshold,    *)
(* and nobody is in _perform then.                                         *)
BreakerCounts ==
    /\ latched # Null <=> forbidden = Threshold
    /\ gate # Null => latched = Null

(* A sleep about to end in a request covers what the interval still asks.  *)
SleepIsEnough ==
    /\ since = quiet
    /\ \A t \in Threads : pc[t] = "send" => MinInterval - since <= nap

SecInv ==
    /\ SecTypeOK
    /\ GateIsExclusive
    /\ FlightsHaveLeaders
    /\ BreakerCounts
    /\ SleepIsEnough
    /\ NoNeedlessRequest
    /\ FollowersAreLed

-----------------------------------------------------------------------------

LEMMA OpenPlaces ==
    /\ Open \subseteq Leading /\ Leading \subseteq Places /\ Gated \subseteq Open
    /\ {"gate", "store", "fail"} \subseteq Open
    /\ {"idle", "wait", "announce"} \cap Open = {}
    /\ {"idle", "wait"} \cap Leading = {} /\ "announce" \in Leading
    /\ {"idle", "wait"} \subseteq Places
  BY DEF Open, Leading, Places, Gated

LEMMA NullIsNobody == Null \notin Threads /\ Null \notin Urls
  BY SecAssumption DEF SecAssumption

LEMMA InitHolds == SecInit => SecInv
<1> SUFFICES ASSUME SecInit PROVE SecInv
  OBVIOUS
<1>1. SecTypeOK
  <2>1. 0 \in 0..Len(Backoff) /\ 0 \in 0..MinInterval /\ 0 \in 0..Threshold
    BY SecAssumption DEF SecAssumption
  <2>2. "idle" \in Places /\ "none" \in Outcomes
    BY DEF Places, Outcomes
  <2>3. MinInterval \in 0..MinInterval
    BY SecAssumption DEF SecAssumption
  <2> QED BY <2>1, <2>2, <2>3 DEF SecInit, SecTypeOK
<1>2. GateIsExclusive
  BY SecAssumption DEF SecAssumption, SecInit, GateIsExclusive, Gated
<1>3. FlightsHaveLeaders /\ NoNeedlessRequest /\ FollowersAreLed
  BY DEF SecInit, FlightsHaveLeaders, NoNeedlessRequest, FollowersAreLed, Open, Leading
<1>4. BreakerCounts /\ SleepIsEnough
  BY SecAssumption DEF SecAssumption, SecInit, BreakerCounts, SleepIsEnough
<1>5. QED BY <1>1, <1>2, <1>3, <1>4 DEF SecInv

LEMMA JoinKeeps ==
    ASSUME SecInv, NEW t \in Threads, NEW u \in Urls, Join(t, u)
    PROVE  SecInv'
<1> USE DEF SecInv
<1>1. pc' \in [Threads -> Places]
  BY DEF SecTypeOK, Places, Leading, Join, Goto
<1>2. SecTypeOK'
  BY <1>1 DEF SecTypeOK, Join, locks, breaker
<1>3. GateIsExclusive'
  BY DEF SecTypeOK, GateIsExclusive, Gated, Join, Goto, locks
<1>4. BreakerCounts' /\ SleepIsEnough'
  BY DEF SecTypeOK, BreakerCounts, SleepIsEnough, Join, Goto, locks, breaker
<1>5. FlightsHaveLeaders'
  <2>1. CASE flights[u] = Null
    <3>1. /\ pc' = [pc EXCEPT ![t] = "gate"] /\ url' = [url EXCEPT ![t] = u]
          /\ flights' = [flights EXCEPT ![u] = t]
      BY <2>1 DEF Join, Goto
    <3>2. pc[t] \notin Open
      BY OpenPlaces DEF Join
    <3>3. ASSUME NEW s \in Threads, pc'[s] \in Open
          PROVE  url'[s] \in Urls /\ flights'[url'[s]] = s
      BY <2>1, <3>1, <3>3, NullIsNobody DEF SecTypeOK, FlightsHaveLeaders
    <3>4. ASSUME NEW v \in Urls, flights'[v] # Null
          PROVE  pc'[flights'[v]] \in Open /\ url'[flights'[v]] = v
      <4>1. CASE v = u
        BY <3>1, <4>1, OpenPlaces DEF SecTypeOK
      <4>2. CASE v # u
        <5>1. flights'[v] = flights[v] /\ flights[v] \in Threads /\ flights[v] # t
          BY <3>1, <3>2, <3>4, <4>2 DEF SecTypeOK, FlightsHaveLeaders
        <5> QED BY <3>1, <3>4, <4>2, <5>1 DEF SecTypeOK, FlightsHaveLeaders
      <4> QED BY <4>1, <4>2
    <3> QED BY <3>3, <3>4 DEF FlightsHaveLeaders
  <2>2. CASE flights[u] # Null
    BY <2>2, OpenPlaces, NullIsNobody DEF SecTypeOK, FlightsHaveLeaders, Join, Goto
  <2> QED BY <2>1, <2>2
<1>6. NoNeedlessRequest'
  BY DEF SecTypeOK, NoNeedlessRequest, Fresh, Leading, Join, Goto
<1>7. FollowersAreLed'
  <2>1. CASE flights[u] = Null
    BY <2>1, OpenPlaces DEF SecTypeOK, FollowersAreLed, Join, Goto
  <2>2. CASE flights[u] # Null
    BY <2>2, OpenPlaces
       DEF SecTypeOK, FollowersAreLed, FlightsHaveLeaders, Join, Goto
  <2> QED BY <2>1, <2>2
<1>8. QED BY <1>2, <1>3, <1>4, <1>5, <1>6, <1>7

(* Between the gate and the end of the flight a leader changes neither the *)
(* flights nor the cache.                                                  *)
LEMMA FlightGoesOn ==
    ASSUME SecInv, NEW t \in Threads, NEW s \in Open, pc[t] \in Open,
           Goto(t, s), UNCHANGED <<store, url, leader>>
    PROVE  FlightsHaveLeaders' /\ NoNeedlessRequest' /\ FollowersAreLed'
<1> USE DEF SecInv
<1>1. /\ pc' = [pc EXCEPT ![t] = s] /\ flights' = flights /\ url' = url
      /\ cached' = cached /\ age' = age /\ leader' = leader
  BY DEF Goto, store
<1>2. FlightsHaveLeaders'
  BY <1>1, NullIsNobody DEF SecTypeOK, FlightsHaveLeaders
<1>3. NoNeedlessRequest'
  BY <1>1 DEF SecTypeOK, NoNeedlessRequest, Fresh, Open
<1>4. FollowersAreLed'
  BY <1>1, OpenPlaces DEF SecTypeOK, FollowersAreLed
<1>5. QED BY <1>2, <1>3, <1>4

LEMMA EnterGateKeeps ==
    ASSUME SecInv, NEW t \in Threads, EnterGate(t)
    PROVE  SecInv'
<1> USE DEF SecInv
<1>1. PICK s \in {"fail", "space"} : Goto(t, s)
  BY DEF EnterGate, LeaveGate
<1>2. s \in Open /\ pc[t] \in Open
  BY <1>1, OpenPlaces DEF EnterGate, Open, Leading
<1>3. FlightsHaveLeaders' /\ NoNeedlessRequest' /\ FollowersAreLed'
  BY <1>1, <1>2, FlightGoesOn DEF EnterGate, store
<1>4. SecTypeOK'
  <2>1. pc' \in [Threads -> Places]
    BY <1>1, <1>2, OpenPlaces DEF SecTypeOK, Goto
  <2> QED BY <2>1, SecAssumption
        DEF SecAssumption, SecTypeOK, Outcomes, EnterGate, LeaveGate, locks, breaker, store
<1>5. GateIsExclusive'
  BY NullIsNobody DEF SecTypeOK, GateIsExclusive, Gated, EnterGate, Goto, LeaveGate, locks
<1>6. BreakerCounts' /\ SleepIsEnough'
  BY NullIsNobody, SecAssumption
     DEF SecAssumption, SecTypeOK, BreakerCounts, SleepIsEnough, GateIsExclusive, Gated,
         EnterGate, Goto, LeaveGate, locks, breaker
<1>7. QED BY <1>3, <1>4, <1>5, <1>6

LEMMA SpaceKeeps ==
    ASSUME SecInv, NEW t \in Threads, Space(t)
    PROVE  SecInv'
<1> USE DEF SecInv
<1>1. PICK s \in {"send"} : Goto(t, s)
  BY DEF Space
<1>2. s \in Open /\ pc[t] \in Open
  BY <1>1, OpenPlaces DEF Space, Open, Leading
<1>3. FlightsHaveLeaders' /\ NoNeedlessRequest' /\ FollowersAreLed'
  BY <1>1, <1>2, FlightGoesOn DEF Space, store
<1>4. SecTypeOK'
  <2>1. pc' \in [Threads -> Places]
    BY <1>1, <1>2, OpenPlaces DEF SecTypeOK, Goto
  <2> QED BY <2>1, SecAssumption
        DEF SecAssumption, SecTypeOK, Outcomes, Space, locks, breaker, store
<1>5. GateIsExclusive'
  BY NullIsNobody DEF SecTypeOK, GateIsExclusive, Gated, Space, Goto, locks
<1>6. BreakerCounts' /\ SleepIsEnough'
  BY NullIsNobody, SecAssumption
     DEF SecAssumption, SecTypeOK, BreakerCounts, SleepIsEnough, GateIsExclusive, Gated,
         Space, Goto, locks, breaker
<1>7. QED BY <1>3, <1>4, <1>5, <1>6

LEMMA SendKeeps ==
    ASSUME SecInv, NEW t \in Threads, Send(t)
    PROVE  SecInv'
<1> USE DEF SecInv
<1>1. PICK s \in {"transport"} : Goto(t, s)
  BY DEF Send
<1>2. s \in Open /\ pc[t] \in Open
  BY <1>1, OpenPlaces DEF Send, Open, Leading
<1>3. FlightsHaveLeaders' /\ NoNeedlessRequest' /\ FollowersAreLed'
  BY <1>1, <1>2, FlightGoesOn DEF Send, store
<1>4. SecTypeOK'
  <2>1. pc' \in [Threads -> Places]
    BY <1>1, <1>2, OpenPlaces DEF SecTypeOK, Goto
  <2> QED BY <2>1, SecAssumption
        DEF SecAssumption, SecTypeOK, Outcomes, Send, locks, breaker, store
<1>5. GateIsExclusive'
  BY NullIsNobody DEF SecTypeOK, GateIsExclusive, Gated, Send, Goto, locks
<1>6. BreakerCounts' /\ SleepIsEnough'
  BY NullIsNobody, SecAssumption
     DEF SecAssumption, SecTypeOK, BreakerCounts, SleepIsEnough, GateIsExclusive, Gated,
         Send, Goto, locks, breaker
<1>7. QED BY <1>3, <1>4, <1>5, <1>6

LEMMA TransportFailsKeeps ==
    ASSUME SecInv, NEW t \in Threads, TransportFails(t)
    PROVE  SecInv'
<1> USE DEF SecInv
<1>1. PICK s \in {"fail"} : Goto(t, s)
  BY DEF TransportFails, LeaveGate
<1>2. s \in Open /\ pc[t] \in Open
  BY <1>1, OpenPlaces DEF TransportFails, Open, Leading
<1>3. FlightsHaveLeaders' /\ NoNeedlessRequest' /\ FollowersAreLed'
  BY <1>1, <1>2, FlightGoesOn DEF TransportFails, store, Unanswered
<1>4. SecTypeOK'
  <2>1. pc' \in [Threads -> Places]
    BY <1>1, <1>2, OpenPlaces DEF SecTypeOK, Goto
  <2> QED BY <2>1, SecAssumption
        DEF SecAssumption, SecTypeOK, Outcomes, TransportFails, LeaveGate, Unanswered, locks, breaker, store
<1>5. GateIsExclusive'
  BY NullIsNobody DEF SecTypeOK, GateIsExclusive, Gated, TransportFails, Goto, LeaveGate, Unanswered, locks
<1>6. BreakerCounts' /\ SleepIsEnough'
  BY NullIsNobody, SecAssumption
     DEF SecAssumption, SecTypeOK, BreakerCounts, SleepIsEnough, GateIsExclusive, Gated,
         TransportFails, Goto, LeaveGate, Unanswered, locks, breaker
<1>7. QED BY <1>3, <1>4, <1>5, <1>6

LEMMA RefuseKeeps ==
    ASSUME SecInv, NEW t \in Threads, Refuse(t)
    PROVE  SecInv'
<1> USE DEF SecInv
<1>1. PICK s \in {"fail", "store"} : Goto(t, s)
  BY DEF Refuse, LeaveGate
<1>2. s \in Open /\ pc[t] \in Open
  BY <1>1, OpenPlaces DEF Refuse, Open, Leading
<1>3. FlightsHaveLeaders' /\ NoNeedlessRequest' /\ FollowersAreLed'
  BY <1>1, <1>2, FlightGoesOn DEF Refuse, store, Unanswered
<1>0. forbidden + 1 \in 0..Threshold /\ latched = Null
  <2>1. gate = t /\ gate # Null
    BY NullIsNobody DEF Refuse, GateIsExclusive, Gated
  <2> QED BY <2>1, SecAssumption DEF SecAssumption, SecTypeOK, BreakerCounts
<1>4. SecTypeOK'
  <2>1. pc' \in [Threads -> Places]
    BY <1>1, <1>2, OpenPlaces DEF SecTypeOK, Goto
  <2>2. outcome' \in [Threads -> Outcomes]
    BY DEF SecTypeOK, Outcomes, Refuse, LeaveGate
  <2>3. latched' \in Urls \cup {Null}
    BY <1>2 DEF SecTypeOK, FlightsHaveLeaders, Refuse
  <2> QED BY <1>0, <2>1, <2>2, <2>3
        DEF SecTypeOK, Refuse, LeaveGate, Unanswered, store
<1>5. GateIsExclusive'
  BY NullIsNobody DEF SecTypeOK, GateIsExclusive, Gated, Refuse, Goto, LeaveGate, Unanswered, locks
<1>6. BreakerCounts'
  <2>1. gate' = Null
    BY DEF Refuse, LeaveGate
  <2>2. latched' # Null <=> forbidden' = Threshold
    <3>1. url[t] \in Urls /\ forbidden' = forbidden + 1
      BY <1>2 DEF FlightsHaveLeaders, Refuse
    <3> QED BY <1>0, <3>1, NullIsNobody, SecAssumption DEF SecAssumption, Refuse
  <2> QED BY <2>1, <2>2 DEF BreakerCounts
<1>8. SleepIsEnough'
  BY DEF SecTypeOK, SleepIsEnough, Refuse, Goto, LeaveGate, Unanswered
<1>7. QED BY <1>3, <1>4, <1>5, <1>6, <1>8

LEMMA BackOffKeeps ==
    ASSUME SecInv, NEW t \in Threads, BackOff(t)
    PROVE  SecInv'
<1> USE DEF SecInv
<1>1. PICK s \in {"space", "store"} : Goto(t, s)
  BY DEF BackOff, LeaveGate
<1>2. s \in Open /\ pc[t] \in Open
  BY <1>1, OpenPlaces DEF BackOff, Open, Leading
<1>3. FlightsHaveLeaders' /\ NoNeedlessRequest' /\ FollowersAreLed'
  BY <1>1, <1>2, FlightGoesOn DEF BackOff, store, Unanswered
<1>4. SecTypeOK'
  <2>1. pc' \in [Threads -> Places]
    BY <1>1, <1>2, OpenPlaces DEF SecTypeOK, Goto
  <2>2. outcome' \in [Threads -> Outcomes]
    BY DEF SecTypeOK, Outcomes, BackOff, LeaveGate
  <2>3. nap' \in Nat /\ tries' \in [Threads -> 0..Len(Backoff)]
    <3>1. CASE tries[t] < Len(Backoff)
      <4>1. /\ tries[t] \in 0..Len(Backoff) /\ Len(Backoff) \in Nat
            /\ Backoff[tries[t] + 1] \in 0..RetryAfterCap /\ RetryAfterCap \in Nat
        BY <3>1, SecAssumption DEF SecAssumption, SecTypeOK
      <4>2. /\ nap' \in Backoff[tries[t] + 1]..RetryAfterCap
            /\ tries' = [tries EXCEPT ![t] = @ + 1]
        BY <3>1 DEF BackOff
      <4>3. nap' \in Nat /\ tries[t] + 1 \in 0..Len(Backoff)
        BY <3>1, <4>1, <4>2
      <4> QED BY <4>2, <4>3 DEF SecTypeOK
    <3>2. CASE ~(tries[t] < Len(Backoff))
      BY <3>2 DEF SecTypeOK, BackOff
    <3> QED BY <3>1, <3>2
  <2>4. gate' \in Threads \cup {Null} /\ latched' = latched /\ forbidden' \in 0..Threshold
    BY SecAssumption DEF SecAssumption, SecTypeOK, BackOff, LeaveGate
  <2> QED BY <2>1, <2>2, <2>3, <2>4 DEF SecTypeOK, BackOff, Unanswered, store
<1>5. GateIsExclusive'
  BY NullIsNobody DEF SecTypeOK, GateIsExclusive, Gated, BackOff, Goto, LeaveGate, Unanswered, locks
<1>6. BreakerCounts' /\ SleepIsEnough'
  BY NullIsNobody, SecAssumption
     DEF SecAssumption, SecTypeOK, BreakerCounts, SleepIsEnough, GateIsExclusive, Gated,
         BackOff, Goto, LeaveGate, Unanswered, locks, breaker
<1>7. QED BY <1>3, <1>4, <1>5, <1>6

LEMMA RespondKeeps ==
    ASSUME SecInv, NEW t \in Threads, Respond(t)
    PROVE  SecInv'
<1> USE DEF SecInv
<1>1. PICK s \in {"store"} : Goto(t, s)
  BY DEF Respond, LeaveGate
<1>2. s \in Open /\ pc[t] \in Open
  BY <1>1, OpenPlaces DEF Respond, Open, Leading
<1>3. FlightsHaveLeaders' /\ NoNeedlessRequest' /\ FollowersAreLed'
  BY <1>1, <1>2, FlightGoesOn DEF Respond, store, Unanswered
<1>4. SecTypeOK'
  <2>1. pc' \in [Threads -> Places]
    BY <1>1, <1>2, OpenPlaces DEF SecTypeOK, Goto
  <2>2. outcome' \in [Threads -> Outcomes]
    BY DEF SecTypeOK, Outcomes, Respond, LeaveGate
  <2> QED BY <2>1, <2>2, SecAssumption
        DEF SecAssumption, SecTypeOK, Respond, LeaveGate, Unanswered, store
<1>5. GateIsExclusive'
  BY NullIsNobody DEF SecTypeOK, GateIsExclusive, Gated, Respond, Goto, LeaveGate, Unanswered, locks
<1>6. BreakerCounts' /\ SleepIsEnough'
  BY NullIsNobody, SecAssumption
     DEF SecAssumption, SecTypeOK, BreakerCounts, SleepIsEnough, GateIsExclusive, Gated,
         Respond, Goto, LeaveGate, Unanswered, locks, breaker
<1>7. QED BY <1>3, <1>4, <1>5, <1>6

(* A leader that pops its flight: no other leader holds that flight, so    *)
(* whatever it does to the entry of its url disturbs none of them.         *)
LEMMA FlightEnds ==
    ASSUME SecInv, NEW t \in Threads, pc[t] \in {"store", "fail"},
           Goto(t, "announce"),
           flights' = [flights EXCEPT ![url[t]] = Null],
           UNCHANGED <<url, leader>>
    PROVE  FlightsHaveLeaders' /\ FollowersAreLed'
<1> USE DEF SecInv
<1>1. pc[t] \in Open /\ url[t] \in Urls /\ flights[url[t]] = t
  BY OpenPlaces DEF FlightsHaveLeaders
<1>2. pc' = [pc EXCEPT ![t] = "announce"] /\ url' = url /\ leader' = leader
  BY DEF Goto
<1>3. ASSUME NEW s \in Threads, pc'[s] \in Open
      PROVE  url'[s] \in Urls /\ flights'[url'[s]] = s
  <2>1. s # t /\ pc'[s] = pc[s]
    BY <1>2, <1>3, OpenPlaces DEF SecTypeOK
  <2>2. url[s] \in Urls /\ flights[url[s]] = s
    BY <1>3, <2>1 DEF FlightsHaveLeaders
  <2> QED BY <1>1, <1>2, <2>1, <2>2 DEF SecTypeOK
<1>4. ASSUME NEW v \in Urls, flights'[v] # Null
      PROVE  pc'[flights'[v]] \in Open /\ url'[flights'[v]] = v
  <2>1. v # url[t] /\ flights'[v] = flights[v] /\ flights[v] \in Threads
    BY <1>1, <1>4 DEF SecTypeOK
  <2>2. pc[flights[v]] \in Open /\ url[flights[v]] = v
    BY <1>4, <2>1 DEF FlightsHaveLeaders
  <2> QED BY <1>2, <2>1, <2>2 DEF SecTypeOK
<1>5. FollowersAreLed'
  BY <1>2, OpenPlaces DEF SecTypeOK, FollowersAreLed
<1>6. QED BY <1>3, <1>4, <1>5 DEF FlightsHaveLeaders

LEMMA StoreKeeps ==
    ASSUME SecInv, NEW t \in Threads, Store(t)
    PROVE  SecInv'
<1> USE DEF SecInv
<1>1. FlightsHaveLeaders' /\ FollowersAreLed'
  BY FlightEnds DEF Store
<1>2. pc[t] \in Open /\ url[t] \in Urls /\ flights[url[t]] = t
  BY OpenPlaces DEF Store, FlightsHaveLeaders
<1>3. NoNeedlessRequest'
  <2> SUFFICES ASSUME NEW s \in Threads, pc'[s] \in Open PROVE ~Fresh(url[s])'
    BY DEF NoNeedlessRequest, Open
  <2>1. s # t /\ pc[s] \in Open /\ url'[s] = url[s]
    BY OpenPlaces DEF SecTypeOK, Store, Goto
  <2>2. url[s] # url[t] /\ url[s] \in Urls
    BY <1>2, <2>1 DEF FlightsHaveLeaders
  <2>3. ~Fresh(url[s])
    BY <2>1 DEF NoNeedlessRequest, Open
  <2> QED BY <2>1, <2>2, <2>3 DEF SecTypeOK, Fresh, Store
<1>4. SecTypeOK'
  <2>1. pc' \in [Threads -> Places]
    BY OpenPlaces DEF SecTypeOK, Store, Goto
  <2> QED BY <1>2, <2>1 DEF SecTypeOK, Store, locks, breaker
<1>5. GateIsExclusive'
  BY DEF SecTypeOK, GateIsExclusive, Gated, Store, Goto, locks
<1>6. BreakerCounts' /\ SleepIsEnough'
  BY DEF SecTypeOK, BreakerCounts, SleepIsEnough, Store, Goto, locks, breaker
<1>7. QED BY <1>1, <1>3, <1>4, <1>5, <1>6

LEMMA FailKeeps ==
    ASSUME SecInv, NEW t \in Threads, Fail(t)
    PROVE  SecInv'
<1> USE DEF SecInv
<1>1. FlightsHaveLeaders' /\ FollowersAreLed'
  BY FlightEnds DEF Fail
<1>2. NoNeedlessRequest'
  BY OpenPlaces DEF SecTypeOK, NoNeedlessRequest, Fresh, Open, Fail, Goto
<1>3. SecTypeOK'
  <2>1. pc' \in [Threads -> Places]
    BY OpenPlaces DEF SecTypeOK, Fail, Goto
  <2> QED BY <2>1 DEF SecTypeOK, Fail, locks, breaker
<1>4. GateIsExclusive'
  BY DEF SecTypeOK, GateIsExclusive, Gated, Fail, Goto, locks
<1>5. BreakerCounts' /\ SleepIsEnough'
  BY DEF SecTypeOK, BreakerCounts, SleepIsEnough, Fail, Goto, locks, breaker
<1>6. QED BY <1>1, <1>2, <1>3, <1>4, <1>5

LEMMA AnnounceKeeps ==
    ASSUME SecInv, NEW t \in Threads, Announce(t)
    PROVE  SecInv'
<1> DEFINE done == {t} \cup Followers(t)
<1> USE DEF SecInv
<1>1. \A f \in Threads : pc[f] \in Open \/ pc[f] \in Gated => f \notin done
  BY OpenPlaces DEF Announce, Followers
<1>2. \A f \in Threads :
        /\ pc'[f] = IF f \in done THEN "idle" ELSE pc[f]
        /\ url'[f] = IF f \in done THEN Null ELSE url[f]
        /\ leader'[f] = IF f \in done THEN Null ELSE leader[f]
  BY DEF Announce, Return
<1>3. UNCHANGED <<locks, breaker, store, calm, quiet>>
  BY DEF Announce, Return
<1>4. SecTypeOK'
  <2>1. pc' \in [Threads -> Places]
    BY OpenPlaces DEF SecTypeOK, Announce, Return
  <2>2. "none" \in Outcomes /\ 0 \in 0..Len(Backoff)
    BY SecAssumption DEF SecAssumption, Outcomes
  <2> QED BY <2>1, <2>2 DEF SecTypeOK, Announce, Return, locks, breaker, store
<1>5. GateIsExclusive'
  BY <1>1, <1>2, <1>3 DEF GateIsExclusive, Gated, locks
<1>6. FlightsHaveLeaders'
  <2>1. ASSUME NEW s \in Threads, pc'[s] \in Open
        PROVE  url'[s] \in Urls /\ flights'[url'[s]] = s
    BY <1>2, <1>3, <2>1, OpenPlaces DEF FlightsHaveLeaders, store
  <2>2. ASSUME NEW v \in Urls, flights'[v] # Null
        PROVE  pc'[flights'[v]] \in Open /\ url'[flights'[v]] = v
    <3>1. flights'[v] = flights[v] /\ flights[v] \in Threads
      BY <1>3, <2>2 DEF SecTypeOK, store
    <3>2. pc[flights[v]] \in Open /\ url[flights[v]] = v
      BY <2>2, <3>1 DEF FlightsHaveLeaders
    <3> QED BY <1>1, <1>2, <3>1, <3>2
  <2> QED BY <2>1, <2>2 DEF FlightsHaveLeaders
<1>7. BreakerCounts' /\ SleepIsEnough'
  BY <1>2, <1>3 DEF BreakerCounts, SleepIsEnough, locks, breaker
<1>8. NoNeedlessRequest'
  BY <1>2, <1>3, OpenPlaces DEF NoNeedlessRequest, Fresh, Open, store
<1>9. FollowersAreLed'
  <2> SUFFICES ASSUME NEW f \in Threads, pc'[f] = "wait"
               PROVE  /\ leader'[f] \in Threads /\ pc'[leader'[f]] \in Leading
                      /\ url'[leader'[f]] = url'[f]
    BY DEF FollowersAreLed
  <2>1. f \notin done /\ pc[f] = "wait" /\ leader'[f] = leader[f] /\ url'[f] = url[f]
    BY <1>2
  <2>2. /\ leader[f] \in Threads /\ pc[leader[f]] \in Leading
        /\ url[leader[f]] = url[f]
    BY <2>1 DEF FollowersAreLed
  <2>3. leader[f] # t
    BY <2>1 DEF Followers
  <2>4. leader[f] \notin done
    BY <2>2, <2>3, OpenPlaces DEF Followers
  <2> QED BY <1>2, <2>1, <2>2, <2>4
<1>10. QED BY <1>4, <1>5, <1>6, <1>7, <1>8, <1>9

LEMMA TickKeeps ==
    ASSUME SecInv, Tick
    PROVE  SecInv'
<1> USE DEF SecInv
<1>1. UNCHANGED <<gate, latched, forbidden, flights, cached, pc, url, leader,
                  tries, outcome, calm>>
  BY DEF Tick, breaker, thread
<1>2. SecTypeOK'
  BY <1>1, SecAssumption DEF SecAssumption, SecTypeOK, Tick
<1>3. GateIsExclusive' /\ FlightsHaveLeaders' /\ BreakerCounts' /\ FollowersAreLed'
  BY <1>1 DEF GateIsExclusive, FlightsHaveLeaders, BreakerCounts, FollowersAreLed
<1>4. SleepIsEnough'
  BY <1>1, SecAssumption DEF SecAssumption, SecTypeOK, SleepIsEnough, Tick
<1>5. NoNeedlessRequest'
  <2>1. \A u \in Urls : ~Fresh(u) => ~Fresh(u)'
    BY <1>1, SecAssumption DEF SecAssumption, SecTypeOK, Fresh, Tick
  <2> QED BY <1>1, <2>1 DEF NoNeedlessRequest, FlightsHaveLeaders, Open
<1>6. QED BY <1>2, <1>3, <1>4, <1>5

LEMMA StutterKeeps ==
    ASSUME SecInv, UNCHANGED <<locks, breaker, store, thread, quiet>>,
           calm' \in BOOLEAN
    PROVE  SecInv'
  BY DEF SecInv, SecTypeOK, GateIsExclusive, FlightsHaveLeaders, BreakerCounts,
         SleepIsEnough, NoNeedlessRequest, Fresh, FollowersAreLed,
         locks, breaker, store, thread

-----------------------------------------------------------------------------

(* Whatever the threads do, the strengthened invariant holds.              *)
THEOREM SecInvHolds == SecSpec => []SecInv
<1>1. ASSUME SecInv, [SecNext]_secVars
      PROVE  SecInv'
  <2>1. ASSUME NEW t \in Threads, Advance(t) PROVE SecInv'
    BY <1>1, <2>1, EnterGateKeeps, SpaceKeeps, SendKeeps, TransportFailsKeeps,
       RefuseKeeps, BackOffKeeps, RespondKeeps, StoreKeeps, FailKeeps,
       AnnounceKeeps DEF Advance
  <2>2. ASSUME NEW t \in Threads, NEW u \in Urls, Join(t, u) PROVE SecInv'
    BY <1>1, <2>2, JoinKeeps
  <2>3. CASE Tick
    BY <1>1, <2>3, TickKeeps
  <2>4. CASE CalmDown
    BY <1>1, <2>4, StutterKeeps DEF CalmDown
  <2>5. CASE UNCHANGED secVars
    <3>1. UNCHANGED <<locks, breaker, store, thread, quiet>> /\ calm' = calm
      BY <2>5 DEF secVars
    <3>2. calm' \in BOOLEAN
      BY <1>1, <3>1 DEF SecInv, SecTypeOK
    <3> QED BY <1>1, <3>1, <3>2, StutterKeeps
  <2> QED BY <1>1, <2>1, <2>2, <2>3, <2>4, <2>5 DEF SecNext
<1> QED BY <1>1, InitHolds, PTL DEF SecSpec

(* The client's state is what sec_client.py can hold, for any thread count.*)
THEOREM TypeCorrect == SecSpec => []SecTypeOK
  BY SecInvHolds, PTL DEF SecInv

(* No flight goes to SEC for what the cache answers (get()'s single        *)
(* flight, and the section that caches and pops).                          *)
THEOREM NeverNeedless == SecSpec => []NoNeedlessRequest
  BY SecInvHolds, PTL DEF SecInv

(* A follower always waits for a leader of its own url that has still to   *)
(* set the event, whatever the leader ran into.                            *)
THEOREM AlwaysLed == SecSpec => []FollowersAreLed
  BY SecInvHolds, PTL DEF SecInv

-----------------------------------------------------------------------------
(* The client is polite.                                                   *)

Asking == \E t \in Threads : pc[t] = "transport"

LEMMA InitIsPolite == SecInit => Agency!PolitenessInit
  BY DEF SecInit, Agency!PolitenessInit

(* A request goes out with the interval over, none under way, and the      *)
(* breaker closed.                                                         *)
LEMMA SendIsAsk ==
    ASSUME SecInv, NEW t \in Threads, Send(t)
    PROVE  Agency!Ask
<1> USE DEF SecInv
<1>1. gate = t /\ gate # Null
  BY NullIsNobody DEF Send, GateIsExclusive, Gated
<1>2. ~Asking
  BY <1>1 DEF Asking, Send, GateIsExclusive, Gated
<1>3. Asking'
  BY DEF Asking, Send, Goto, SecTypeOK
<1>4. quiet = MinInterval
  BY SecAssumption DEF SecAssumption, SecTypeOK, SleepIsEnough, Send
<1>5. forbidden < Threshold
  BY <1>1, SecAssumption DEF SecAssumption, SecTypeOK, BreakerCounts
<1>6. quiet' = 0 /\ forbidden' = forbidden
  BY DEF Send, breaker
<1> QED BY <1>2, <1>3, <1>4, <1>5, <1>6 DEF Agency!Ask, Asking

(* The one request under way is over, whatever came of it.                 *)
LEMMA AnswerIsAnswered ==
    ASSUME SecInv, NEW t \in Threads,
           TransportFails(t) \/ Refuse(t) \/ BackOff(t) \/ Respond(t)
    PROVE  Agency!Answered
<1> USE DEF SecInv
<1>1. pc[t] = "transport" /\ quiet' = quiet
  BY DEF TransportFails, Refuse, BackOff, Respond, Unanswered
<1>2. forbidden' \in {forbidden + 1, 0, forbidden}
  BY DEF TransportFails, Refuse, BackOff, Respond, breaker
<1>3. \A s \in Threads : pc[s] = "transport" => s = t
  BY <1>1 DEF GateIsExclusive, Gated
<1>4. PICK p \in {"fail", "store", "space"} : Goto(t, p)
  BY DEF TransportFails, Refuse, BackOff, Respond, LeaveGate
<1>5. ~Asking'
  BY <1>3, <1>4 DEF Asking, Goto, SecTypeOK
<1> QED BY <1>1, <1>2, <1>5 DEF Agency!Answered, Asking

(* Every other step of a thread is nothing the agency can see.             *)
LEMMA OthersStutter ==
    ASSUME SecInv, NEW t \in Threads,
           \/ EnterGate(t) \/ Space(t) \/ Store(t) \/ Fail(t) \/ Announce(t)
           \/ \E u \in Urls : Join(t, u)
    PROVE  UNCHANGED Agency!manners
<1> USE DEF SecInv
<1>1. quiet' = quiet /\ forbidden' = forbidden
  BY DEF EnterGate, Space, Store, Fail, Announce, Return, Join, breaker
<1>2. \A s \in Threads : pc[s] = "transport" <=> pc'[s] = "transport"
  <2>1. CASE Announce(t)
    BY <2>1 DEF Announce, Return, Followers
  <2>2. CASE ~Announce(t)
    BY <2>2 DEF SecTypeOK, EnterGate, Space, Store, Fail, Join, Goto, LeaveGate
  <2> QED BY <2>1, <2>2
<1>3. Asking' <=> Asking
  BY <1>2 DEF Asking
<1> QED BY <1>1, <1>3 DEF Agency!manners, Asking

(* The clock.                                                              *)
LEMMA TickIsElapse ==
    ASSUME SecInv, Tick
    PROVE  Agency!Elapse \/ UNCHANGED Agency!manners
<1>1. pc' = pc /\ forbidden' = forbidden
  BY DEF Tick, thread, breaker
<1>2. Asking' <=> Asking
  BY <1>1 DEF Asking
<1> QED BY <1>1, <1>2 DEF Tick, Agency!Elapse, Agency!manners, Asking

(* ARCHITECTURE.md 11.4, for any threads, urls, interval and threshold:    *)
(* one request at a time, spaced, and none once the breaker is open.       *)
THEOREM Polite == SecSpec => ImplementsPoliteness
<1>1. ASSUME SecInv, [SecNext]_secVars
      PROVE  [Agency!Ask \/ Agency!Answered \/ Agency!Elapse]_(Agency!manners)
  <2>1. ASSUME NEW t \in Threads, Advance(t)
        PROVE  \/ Agency!Ask \/ Agency!Answered \/ UNCHANGED Agency!manners
    BY <1>1, <2>1, SendIsAsk, AnswerIsAnswered, OthersStutter DEF Advance
  <2>2. ASSUME NEW t \in Threads, NEW u \in Urls, Join(t, u)
        PROVE  UNCHANGED Agency!manners
    BY <1>1, <2>2, OthersStutter
  <2>3. CASE Tick
    BY <1>1, <2>3, TickIsElapse
  <2>4. CASE CalmDown \/ UNCHANGED secVars
    <3>1. pc' = pc /\ quiet' = quiet /\ forbidden' = forbidden
      BY <2>4 DEF CalmDown, secVars, thread, breaker
    <3> QED BY <3>1 DEF Agency!manners
  <2> QED BY <1>1, <2>1, <2>2, <2>3, <2>4 DEF SecNext
<1> QED BY <1>1, InitIsPolite, SecInvHolds, PTL
        DEF SecSpec, ImplementsPoliteness, Agency!Politeness

(***************************************************************************)
(* The identity registry.                                                  *)
(***************************************************************************)

-----------------------------------------------------------------------------
(* The least and the greatest of some days.                                *)

LEMMA MinInSet ==
    ASSUME NEW S \in SUBSET Nat, S # {}
    PROVE  Min(S) \in S /\ \A y \in S : Min(S) <= y
<1>1. PICK x \in S : \A y \in S : ~(<<y, x>> \in OpToRel(<, Nat))
  BY NatLessThanWellFounded, WFMin
<1>2. \A y \in S : ~(y < x)
  BY <1>1, Zenon DEF OpToRel
<1>3. \A y \in S : x <= y
  BY <1>2
<1> QED
  BY <1>3, Zenon DEF Min

LEMMA GreatestBelow ==
    ASSUME NEW n \in Nat, NEW S \in SUBSET (0..n), S # {}
    PROVE  \E x \in S : \A y \in S : y <= x
<1> DEFINE T == {n - x : x \in S}
<1>1. T \subseteq Nat
  OBVIOUS
<1>2. T # {}
  <2>1. PICK x \in S : TRUE
    OBVIOUS
  <2>2. n - x \in T
    BY <2>1
  <2> QED
    BY <2>2
<1>3. Min(T) \in T /\ \A y \in T : Min(T) <= y
  <2> HIDE DEF T
  <2> QED
    BY <1>1, <1>2, MinInSet
<1>4. PICK x \in S : Min(T) = n - x
  BY <1>3
<1>5. ASSUME NEW y \in S PROVE y <= x
  <2>1. n - y \in T
    OBVIOUS
  <2>2. n - x <= n - y
    BY <1>3, <1>4, <2>1
  <2> QED
    BY <2>2
<1> QED
  BY <1>5

-----------------------------------------------------------------------------
(* Rows.  What is cut may have no owner yet, as an identifier that comes   *)
(* from a list.                                                            *)

RawRow == [value : Values, from : Days, to : 1..(LastDay + 1),
           sid : SecurityIds \cup {None}, review : Reviews]
RawListRow == [value : Values, from : Days, to : 1..(LastDay + 1),
               sid : SecurityIds \cup {None}, review : Reviews,
               quarter : DOMAIN Lists]

Holds(r, d) == r.from <= d /\ d < r.to

(* All the days of a row have its security for an owner.                   *)
Owned(reg, r) == \A d \in Days : Holds(r, d) => OwnerOf(reg, r.value, d) = r.sid

Disjoint(rows) ==
    \A r, p \in rows :
        r.value = p.value /\ r.from < p.to /\ p.from < r.to => r = p

LEMMA RowsAreRaw == Row \subseteq RawRow /\ ListRow \subseteq RawListRow
BY DEF Row, RawRow, ListRow, RawListRow

(* From a boundary to the next the owner stays the same.                   *)
LEMMA OwnerStays ==
    ASSUME NEW reg \in Registry, NEW v \in Values, NEW a \in Days, NEW d \in Days,
           a <= d, \A b \in Boundaries(reg, v) : ~(a < b /\ b <= d)
    PROVE  OwnerOf(reg, v, d) = OwnerOf(reg, v, a)
<1> USE RegistryAssumption DEF Days
<1> DEFINE Odd == {e \in a..d : OwnerOf(reg, v, e) # OwnerOf(reg, v, a)}
<1> SUFFICES ASSUME Odd # {} PROVE FALSE
  OBVIOUS
<1>1. PICK m \in Odd : \A y \in Odd : m <= y
  <2>1. Odd \in SUBSET Nat
    OBVIOUS
  <2> HIDE DEF Odd
  <2> QED
    BY <2>1, MinInSet
<1>2. m \in a..d /\ m # a /\ m - 1 \in a..d
  BY <1>1
<1>3. OwnerOf(reg, v, m - 1) = OwnerOf(reg, v, a)
  BY <1>1, <1>2
<1>4. m \in Boundaries(reg, v)
  BY <1>1, <1>2, <1>3 DEF Boundaries
<1> QED
  BY <1>2, <1>4

-----------------------------------------------------------------------------
(* cut_interval (registry.py 702-761): its pieces lie in the row, each has *)
(* one owner, and together they hold each day of the row once.             *)

Starts(reg, r) ==
    {r.from} \cup {b \in Boundaries(reg, r.value) : r.from < b /\ b < r.to}
EndOf(reg, r, a) == Min({r.to} \cup {b \in Starts(reg, r) : b > a})

LEMMA CutIs ==
    ASSUME NEW reg, NEW r
    PROVE  CutInterval(reg, r) =
             {[r EXCEPT !.sid = OwnerOf(reg, r.value, a), !.from = a,
                        !.to = EndOf(reg, r, a)] : a \in Starts(reg, r)}
BY DEF CutInterval, Starts, EndOf

LEMMA Ends ==
    ASSUME NEW reg \in Registry, NEW r \in RawRow \cup RawListRow, r.from < r.to,
           NEW a \in Starts(reg, r)
    PROVE  /\ a \in Days /\ r.from <= a /\ a < r.to
           /\ EndOf(reg, r, a) \in 1..(LastDay + 1)
           /\ a < EndOf(reg, r, a) /\ EndOf(reg, r, a) <= r.to
           /\ \A b \in Starts(reg, r) : b > a => EndOf(reg, r, a) <= b
           /\ \A b \in Boundaries(reg, r.value) :
                 ~(a < b /\ b < EndOf(reg, r, a))
<1> USE RegistryAssumption DEF Days
<1> DEFINE later == {r.to} \cup {b \in Starts(reg, r) : b > a}
<1>1. r.from \in Days /\ r.to \in 1..(LastDay + 1) /\ r.value \in Values
  BY DEF RawRow, RawListRow
<1>2. Boundaries(reg, r.value) \subseteq 1..LastDay
  BY DEF Boundaries
<1>3. Starts(reg, r) \subseteq Days
  BY <1>1, <1>2 DEF Starts
<1>4. r.from <= a /\ a < r.to
  BY <1>1, <1>2 DEF Starts
<1>5. Min(later) \in later /\ \A y \in later : Min(later) <= y
  <2>1. later \in SUBSET Nat /\ later # {}
    BY <1>1, <1>3
  <2> HIDE DEF later
  <2> QED
    BY <2>1, MinInSet
<1>6. EndOf(reg, r, a) = Min(later)
  BY DEF EndOf
<1>7. a < Min(later) /\ Min(later) <= r.to
  BY <1>1, <1>3, <1>4, <1>5
<1>8. \A b \in Starts(reg, r) : b > a => Min(later) <= b
  BY <1>5
<1>9. ASSUME NEW b \in Boundaries(reg, r.value), a < b, b < Min(later) PROVE FALSE
  <2>1. b \in Starts(reg, r)
    BY <1>1, <1>2, <1>3, <1>4, <1>7, <1>9, <1>5 DEF Starts
  <2>2. Min(later) <= b
    BY <1>8, <1>9, <2>1
  <2>3. b \in Int /\ Min(later) \in Int
    BY <1>1, <1>2, <1>3, <1>5
  <2> QED
    BY <1>9, <2>2, <2>3
<1>10. Min(later) \in 1..(LastDay + 1)
  <2>1. Min(later) \in Nat
    BY <1>1, <1>3, <1>5
  <2> QED
    BY <2>1, <1>1, <1>3, <1>7
<1> HIDE DEF later
<1> QED
  BY <1>1, <1>3, <1>4, <1>6, <1>7, <1>8, <1>9, <1>10

LEMMA Piece ==
    ASSUME NEW reg \in Registry, NEW r \in RawRow \cup RawListRow, r.from < r.to,
           NEW p \in CutInterval(reg, r)
    PROVE  /\ r \in RawRow => p \in Row
           /\ r \in RawListRow => p \in ListRow /\ p.quarter = r.quarter
           /\ p.value = r.value /\ p.review = r.review
           /\ r.from <= p.from /\ p.from < p.to /\ p.to <= r.to
           /\ p.from \in Starts(reg, r) /\ p.to = EndOf(reg, r, p.from)
           /\ Owned(reg, p)
<1> USE RegistryAssumption
<1>1. PICK a \in Starts(reg, r) :
         p = [r EXCEPT !.sid = OwnerOf(reg, r.value, a), !.from = a,
                       !.to = EndOf(reg, r, a)]
  BY CutIs
<1>2. /\ a \in Days /\ EndOf(reg, r, a) \in 1..(LastDay + 1)
      /\ r.from <= a /\ a < EndOf(reg, r, a) /\ EndOf(reg, r, a) <= r.to
      /\ \A b \in Boundaries(reg, r.value) : ~(a < b /\ b < EndOf(reg, r, a))
  BY Ends
<1>3. r.value \in Values /\ r.review \in Reviews
  BY DEF RawRow, RawListRow
<1>4. OwnerOf(reg, r.value, a) \in SecurityIds
  BY <1>2, <1>3 DEF Registry, OwnerOf
<1>7. /\ p.value = r.value /\ p.review = r.review
      /\ p.from = a /\ p.to = EndOf(reg, r, a) /\ p.sid = OwnerOf(reg, r.value, a)
  <2>1. CASE r \in RawRow
    BY <1>1, <2>1 DEF RawRow
  <2>2. CASE r \in RawListRow
    BY <1>1, <2>2 DEF RawListRow
  <2> QED
    BY <2>1, <2>2
<1>8. r \in RawRow => p \in Row
  BY <1>1, <1>2, <1>4 DEF RawRow, Row
<1>9. r \in RawListRow => p \in ListRow /\ p.quarter = r.quarter
  BY <1>1, <1>2, <1>4 DEF RawListRow, ListRow
<1>10. Owned(reg, p)
  <2> SUFFICES ASSUME NEW d \in Days, Holds(p, d)
               PROVE  OwnerOf(reg, r.value, d) = OwnerOf(reg, r.value, a)
    BY <1>7 DEF Owned
  <2>1. a <= d /\ d < EndOf(reg, r, a)
    BY <1>7 DEF Holds
  <2>2. \A b \in Boundaries(reg, r.value) : ~(a < b /\ b <= d)
    <3>1. Boundaries(reg, r.value) \subseteq Nat /\ d \in Nat
      BY DEF Boundaries, Days
    <3> QED
      BY <1>2, <2>1, <3>1
  <2> QED
    BY <1>2, <1>3, <2>1, <2>2, OwnerStays
<1> QED
  BY <1>2, <1>7, <1>8, <1>9, <1>10

LEMMA PiecesCover ==
    ASSUME NEW reg \in Registry, NEW r \in RawRow \cup RawListRow, r.from < r.to,
           NEW d \in Days, Holds(r, d)
    PROVE  \E p \in CutInterval(reg, r) : Holds(p, d)
<1> USE RegistryAssumption
<1>1. r.from \in Nat /\ r.to \in Nat /\ d \in Nat /\ r.value \in Values
  BY DEF RawRow, RawListRow, Days
<1>2. Starts(reg, r) \subseteq Nat
  BY Ends DEF Days
<1> DEFINE early == {b \in Starts(reg, r) : b <= d}
<1>3. PICK a \in early : \A y \in early : y <= a
  <2>1. early \in SUBSET (0..d)
    BY <1>1, <1>2
  <2>2. r.from \in early
    BY <1>1 DEF Starts, Holds
  <2> HIDE DEF early
  <2> QED
    BY <1>1, <2>1, <2>2, GreatestBelow
<1>4. a \in Starts(reg, r) /\ a <= d
  BY <1>3
<1>5. d < EndOf(reg, r, a)
  <2>1. EndOf(reg, r, a) \in {r.to} \cup {b \in Starts(reg, r) : b > a}
    <3>1. {r.to} \cup {b \in Starts(reg, r) : b > a} \in SUBSET Nat
      BY <1>1, <1>2
    <3> DEFINE later == {r.to} \cup {b \in Starts(reg, r) : b > a}
    <3>2. later # {}
      OBVIOUS
    <3> HIDE DEF later
    <3>3. Min(later) \in later
      BY <3>1, <3>2, MinInSet DEF later
    <3> QED
      BY <3>3 DEF later, EndOf
  <2>2. CASE EndOf(reg, r, a) = r.to
    BY <2>2 DEF Holds
  <2>3. CASE EndOf(reg, r, a) \in Starts(reg, r) /\ EndOf(reg, r, a) > a
    BY <1>1, <1>2, <1>3, <2>3
  <2> QED
    BY <2>1, <2>2, <2>3
<1> DEFINE p == [r EXCEPT !.sid = OwnerOf(reg, r.value, a), !.from = a,
                          !.to = EndOf(reg, r, a)]
<1>6. p \in CutInterval(reg, r)
  BY <1>4, CutIs
<1>7. p.from = a /\ p.to = EndOf(reg, r, a)
  <2>1. CASE r \in RawRow
    BY <2>1 DEF RawRow
  <2>2. CASE r \in RawListRow
    BY <2>2 DEF RawListRow
  <2> QED
    BY <2>1, <2>2
<1> QED
  BY <1>4, <1>5, <1>6, <1>7 DEF Holds

LEMMA PiecesDisjoint ==
    ASSUME NEW reg \in Registry, NEW r \in RawRow \cup RawListRow, r.from < r.to
    PROVE  Disjoint(CutInterval(reg, r))
<1> USE RegistryAssumption
<1> SUFFICES ASSUME NEW p \in CutInterval(reg, r), NEW q \in CutInterval(reg, r),
                    p.from < q.to, q.from < p.to
             PROVE  p = q
  BY DEF Disjoint
<1>1. /\ p.from \in Starts(reg, r) /\ p.to = EndOf(reg, r, p.from)
      /\ q.from \in Starts(reg, r) /\ q.to = EndOf(reg, r, q.from)
  BY Piece
<1>2. p.from \in Nat /\ q.from \in Nat /\ p.to \in Nat /\ q.to \in Nat
  BY <1>1, Ends DEF Days
<1>3. p.from = q.from
  <2>1. ~(p.from < q.from) /\ ~(q.from < p.from)
    BY <1>1, <1>2, Ends
  <2> QED
    BY <1>2, <2>1
<1>4. PICK a \in Starts(reg, r) :
         p = [r EXCEPT !.sid = OwnerOf(reg, r.value, a), !.from = a,
                       !.to = EndOf(reg, r, a)]
  BY CutIs
<1>5. PICK b \in Starts(reg, r) :
         q = [r EXCEPT !.sid = OwnerOf(reg, r.value, b), !.from = b,
                       !.to = EndOf(reg, r, b)]
  BY CutIs
<1>6. p.from = a /\ q.from = b
  <2>1. CASE r \in RawRow
    BY <1>4, <1>5, <2>1 DEF RawRow
  <2>2. CASE r \in RawListRow
    BY <1>4, <1>5, <2>2 DEF RawListRow
  <2> QED
    BY <2>1, <2>2
<1> QED
  BY <1>3, <1>4, <1>5, <1>6

-----------------------------------------------------------------------------
(* Tables of rows (registry.py 1590-1680).                                 *)

Spans(rows) == \A r \in rows : r.from < r.to

(* p is what the cut made of a piece q of the row r.                       *)
IsPieceOf(reg, p, q, r) ==
    /\ q \in CutInterval(reg, r)
    /\ p.from = q.from /\ p.to = q.to /\ p.sid = q.sid
    /\ r.from <= p.from /\ p.from < p.to /\ p.to <= r.to
    /\ p.value = r.value /\ Owned(reg, p)
    /\ r \in RawRow => p \in Row
    /\ r \in RawListRow => p \in ListRow /\ p.quarter = r.quarter
    /\ p = q \/ p = [q EXCEPT !.review = reg.review[q.sid]]

Verdicts(reg, pieces) == {[p EXCEPT !.review = reg.review[p.sid]] : p \in pieces}

LEMMA CutRow ==
    ASSUME NEW reg \in Registry, NEW r \in RawRow \cup RawListRow, r.from < r.to,
           NEW q \in CutInterval(reg, r), NEW p,
           p = q \/ p = [q EXCEPT !.review = reg.review[q.sid]]
    PROVE  IsPieceOf(reg, p, q, r)
<1>1. /\ r \in RawRow => q \in Row
      /\ r \in RawListRow => q \in ListRow /\ q.quarter = r.quarter
      /\ q.value = r.value
      /\ r.from <= q.from /\ q.from < q.to /\ q.to <= r.to
      /\ Owned(reg, q)
  BY Piece
<1>2. CASE p = q
  BY <1>1, <1>2 DEF IsPieceOf
<1>3. CASE p = [q EXCEPT !.review = reg.review[q.sid]]
  <2>1. q.sid \in SecurityIds
    BY <1>1 DEF Row, ListRow
  <2>2. reg.review[q.sid] \in Reviews
    BY <2>1 DEF Registry
  <2>3. /\ p.from = q.from /\ p.to = q.to /\ p.sid = q.sid /\ p.value = q.value
        /\ r \in RawRow => p \in Row
        /\ r \in RawListRow => p \in ListRow /\ p.quarter = q.quarter
    <3>1. CASE r \in RawRow
      <4>1. q \in Row
        BY <1>1, <3>1
      <4>2. p \in Row /\ p.from = q.from /\ p.to = q.to /\ p.sid = q.sid /\ p.value = q.value
        BY <1>3, <2>2, <4>1 DEF Row
      <4>3. r \notin RawListRow
        <5> SUFFICES ASSUME r \in RawListRow PROVE FALSE
          OBVIOUS
        <5>1. q \in ListRow
          BY <1>1
        <5>2. DOMAIN q = {"value", "from", "to", "sid", "review", "quarter"}
          BY <5>1 DEF ListRow
        <5>3. DOMAIN q = {"value", "from", "to", "sid", "review"}
          BY <4>1 DEF Row
        <5> QED
          BY <5>2, <5>3
      <4> QED
        BY <4>2, <4>3
    <3>2. CASE r \in RawListRow
      <4>1. q \in ListRow
        BY <1>1, <3>2
      <4>2. /\ p \in ListRow /\ p.from = q.from /\ p.to = q.to /\ p.sid = q.sid
            /\ p.value = q.value /\ p.quarter = q.quarter
        BY <1>3, <2>2, <4>1 DEF ListRow
      <4>3. r \notin RawRow
        <5> SUFFICES ASSUME r \in RawRow PROVE FALSE
          OBVIOUS
        <5>1. q \in Row
          BY <1>1
        <5>2. DOMAIN q = {"value", "from", "to", "sid", "review", "quarter"}
          BY <4>1 DEF ListRow
        <5>3. DOMAIN q = {"value", "from", "to", "sid", "review"}
          BY <5>1 DEF Row
        <5> QED
          BY <5>2, <5>3
      <4> QED
        BY <4>2, <4>3
    <3> QED
      BY <3>1, <3>2
  <2>4. Owned(reg, p)
    BY <1>1, <2>3 DEF Owned, Holds
  <2> QED
    BY <1>1, <1>3, <2>3, <2>4 DEF IsPieceOf
<1> QED
  BY <1>2, <1>3

LEMMA CutTableFrom ==
    ASSUME NEW reg \in Registry, NEW T \in SUBSET (RawRow \cup RawListRow), Spans(T),
           NEW p \in CutTable(reg, T)
    PROVE  \E r \in T : \E q \in CutInterval(reg, r) : IsPieceOf(reg, p, q, r)
<1>1. PICK r \in T : p \in (IF CutInterval(reg, r) = {r} THEN {r}
                            ELSE Verdicts(reg, CutInterval(reg, r)))
  BY DEF CutTable, Verdicts
<1>2. PICK q \in CutInterval(reg, r) :
         p = q \/ p = [q EXCEPT !.review = reg.review[q.sid]]
  BY <1>1 DEF Verdicts
<1> QED
  BY <1>2, CutRow DEF Spans

LEMMA CutTableKeeps ==
    ASSUME NEW reg \in Registry, NEW T \in SUBSET (RawRow \cup RawListRow), Spans(T),
           NEW r \in T, NEW q \in CutInterval(reg, r)
    PROVE  \E p \in CutTable(reg, T) : IsPieceOf(reg, p, q, r)
<1> DEFINE p == IF CutInterval(reg, r) = {r} THEN q
                ELSE [q EXCEPT !.review = reg.review[q.sid]]
<1>1. p \in (IF CutInterval(reg, r) = {r} THEN {r}
             ELSE {[x EXCEPT !.review = reg.review[x.sid]] : x \in CutInterval(reg, r)})
  OBVIOUS
<1>2. p \in CutTable(reg, T)
  BY <1>1 DEF CutTable
<1>3. p = q \/ p = [q EXCEPT !.review = reg.review[q.sid]]
  OBVIOUS
<1> QED
  BY <1>2, <1>3, CutRow DEF Spans

LEMMA CutTableCovers ==
    ASSUME NEW reg \in Registry, NEW T \in SUBSET (RawRow \cup RawListRow), Spans(T),
           NEW r \in T, NEW d \in Days, Holds(r, d)
    PROVE  \E p \in CutTable(reg, T) : \E q \in CutInterval(reg, r) :
              IsPieceOf(reg, p, q, r) /\ Holds(p, d)
<1>1. PICK q \in CutInterval(reg, r) : Holds(q, d)
  BY PiecesCover DEF Spans
<1>2. PICK p \in CutTable(reg, T) : IsPieceOf(reg, p, q, r)
  BY CutTableKeeps
<1> QED
  BY <1>1, <1>2 DEF IsPieceOf, Holds

(* A row is cut in one way.                                                *)
LEMMA CutTableOnce ==
    ASSUME NEW reg \in Registry, NEW T \in SUBSET (RawRow \cup RawListRow), Spans(T),
           NEW p \in CutTable(reg, T), Disjoint(T)
    PROVE  \E r \in T : \E q \in CutInterval(reg, r) :
              /\ IsPieceOf(reg, p, q, r)
              /\ p = IF CutInterval(reg, r) = {r} THEN r
                     ELSE [q EXCEPT !.review = reg.review[q.sid]]
<1>1. PICK r \in T : p \in (IF CutInterval(reg, r) = {r} THEN {r}
                            ELSE Verdicts(reg, CutInterval(reg, r)))
  BY DEF CutTable, Verdicts
<1>2. PICK q \in CutInterval(reg, r) :
         p = IF CutInterval(reg, r) = {r} THEN r
             ELSE [q EXCEPT !.review = reg.review[q.sid]]
  BY <1>1 DEF Verdicts
<1>3. p = q \/ p = [q EXCEPT !.review = reg.review[q.sid]]
  BY <1>2
<1> QED
  BY <1>2, <1>3, CutRow DEF Spans

LEMMA CutTableDisjoint ==
    ASSUME NEW reg \in Registry, NEW T \in SUBSET (RawRow \cup RawListRow), Spans(T),
           Disjoint(T)
    PROVE  Disjoint(CutTable(reg, T))
<1> SUFFICES ASSUME NEW p \in CutTable(reg, T), NEW o \in CutTable(reg, T),
                    p.value = o.value, p.from < o.to, o.from < p.to
             PROVE  p = o
  BY DEF Disjoint
<1> DEFINE Made(x, r, q) ==
        /\ IsPieceOf(reg, x, q, r)
        /\ x = IF CutInterval(reg, r) = {r} THEN r
               ELSE [q EXCEPT !.review = reg.review[q.sid]]
<1>1. PICK r \in T : \E q \in CutInterval(reg, r) : Made(p, r, q)
  BY CutTableOnce
<1>2. PICK s \in T : \E m \in CutInterval(reg, s) : Made(o, s, m)
  BY CutTableOnce
<1>5. PICK q \in CutInterval(reg, r) : Made(p, r, q)
  BY <1>1
<1>6. PICK m \in CutInterval(reg, s) : Made(o, s, m)
  BY <1>2
<1>3. r = s
  <2>1. /\ r.from \in Int /\ r.to \in Int /\ s.from \in Int /\ s.to \in Int
        /\ p.from \in Int /\ p.to \in Int /\ o.from \in Int /\ o.to \in Int
    BY <1>5, <1>6, RegistryAssumption
       DEF RawRow, RawListRow, Row, ListRow, IsPieceOf, Days
  <2>2. r.from < s.to /\ s.from < r.to /\ r.value = s.value
    <3>1. r.from <= p.from /\ p.to <= r.to /\ p.value = r.value
      BY <1>5 DEF IsPieceOf
    <3>2. s.from <= o.from /\ o.to <= s.to /\ o.value = s.value
      BY <1>6 DEF IsPieceOf
    <3>3. r.from < s.to
      BY <2>1, <3>1, <3>2
    <3>4. s.from < r.to
      BY <2>1, <3>1, <3>2
    <3>5. r.value = s.value
      BY <3>1, <3>2
    <3> QED
      BY <3>3, <3>4, <3>5
  <2> QED
    BY <2>2 DEF Disjoint
<1>4. q = m
  <2>1. q.from < m.to /\ m.from < q.to /\ q.value = m.value
    <3>1. q.value = r.value /\ m.value = r.value
      BY <1>3, Piece DEF Spans
    <3> QED
      BY <1>5, <1>6, <3>1 DEF IsPieceOf
  <2> QED
    BY <1>3, <2>1, PiecesDisjoint DEF Disjoint, Spans
<1> QED
  BY <1>5, <1>6, <1>3, <1>4

-----------------------------------------------------------------------------
(* union_intervals (registry.py 772-803).                                  *)

LEMMA UnionIs ==
    ASSUME NEW days \in SUBSET Days, NEW i \in UnionIntervals(days)
    PROVE  /\ i.from \in Days /\ i.to \in 1..(LastDay + 1) /\ i.from < i.to
           /\ i = [from |-> i.from, to |-> i.to]
           /\ i.from \in days /\ i.from - 1 \notin days /\ i.to \notin days
           /\ \A d \in Days : Holds(i, d) => d \in days
<1> USE RegistryAssumption DEF Days
<1>1. PICK a \in {d \in days : d - 1 \notin days} :
         i = [from |-> a, to |-> Min({d \in a..(LastDay + 1) : d \notin days})]
  BY DEF UnionIntervals
<1> DEFINE out == {d \in a..(LastDay + 1) : d \notin days}
<1>2. Min(out) \in out /\ \A y \in out : Min(out) <= y
  <2>1. out \in SUBSET Nat
    OBVIOUS
  <2>2. LastDay + 1 \in out
    OBVIOUS
  <2> HIDE DEF out
  <2> QED
    BY <2>1, <2>2, MinInSet
<1>3. i.from = a /\ i.to = Min(out) /\ i = [from |-> a, to |-> Min(out)]
  BY <1>1
<1>4. Min(out) # a
  BY <1>2
<1>5. ASSUME NEW d \in Days, a <= d, d < Min(out) PROVE d \in days
  BY <1>2, <1>5
<1>6. /\ a \in Days /\ Min(out) \in 1..(LastDay + 1) /\ a < Min(out)
      /\ Min(out) \notin days
  BY <1>2, <1>4
<1> HIDE DEF out
<1> QED
  BY <1>3, <1>5, <1>6 DEF Holds

LEMMA UnionCovers ==
    ASSUME NEW days \in SUBSET Days, NEW d \in days
    PROVE  \E i \in UnionIntervals(days) : Holds(i, d)
<1> USE RegistryAssumption DEF Days
<1> DEFINE gone == {e \in 0..d : e = 0 \/ e - 1 \notin days}
<1>1. PICK a \in gone : \A y \in gone : y <= a
  <2>1. gone \in SUBSET (0..d) /\ d \in Nat /\ 0 \in gone
    OBVIOUS
  <2> HIDE DEF gone
  <2> QED
    BY <2>1, GreatestBelow
<1>2. \A e \in a..d : e \in days
  <2> SUFFICES ASSUME NEW e \in a..d, e \notin days PROVE FALSE
    OBVIOUS
  <2>1. e # d /\ e + 1 \in 0..d
    OBVIOUS
  <2>2. e + 1 \in gone
    BY <2>1
  <2>3. e + 1 <= a
    BY <1>1, <2>2
  <2> QED
    BY <2>3
<1>3. a \in days /\ a - 1 \notin days
  BY <1>1, <1>2
<1> DEFINE i == [from |-> a, to |-> Min({e \in a..(LastDay + 1) : e \notin days})]
<1>4. i \in UnionIntervals(days)
  BY <1>3 DEF UnionIntervals
<1>5. i.to \notin days /\ i.from = a
  BY <1>4, UnionIs
<1>6. i.to \in Int /\ i.from < i.to
  BY <1>4, UnionIs
<1> HIDE DEF i
<1>7. d < i.to
  BY <1>2, <1>5, <1>6
<1> QED
  BY <1>4, <1>5, <1>7 DEF Holds

LEMMA UnionDisjoint ==
    ASSUME NEW days \in SUBSET Days, NEW i \in UnionIntervals(days),
           NEW j \in UnionIntervals(days), i.from < j.to, j.from < i.to
    PROVE  i = j
<1> USE RegistryAssumption DEF Days
<1>1. /\ i.from \in Nat /\ i.to \in Nat /\ j.from \in Nat /\ j.to \in Nat
      /\ i.to <= LastDay + 1 /\ j.to <= LastDay + 1
      /\ i = [from |-> i.from, to |-> i.to] /\ j = [from |-> j.from, to |-> j.to]
      /\ i.from \in days /\ i.from - 1 \notin days /\ i.to \notin days
      /\ j.from \in days /\ j.from - 1 \notin days /\ j.to \notin days
      /\ i.from < i.to /\ j.from < j.to
  BY UnionIs
<1>2. (\A d \in Days : Holds(i, d) => d \in days) /\ (\A d \in Days : Holds(j, d) => d \in days)
  BY UnionIs
<1>3. ~(i.from < j.from)
  <2> SUFFICES ASSUME i.from < j.from PROVE FALSE
    OBVIOUS
  <2>1. j.from - 1 \in Days /\ Holds(i, j.from - 1)
    BY <1>1 DEF Holds
  <2> QED
    BY <1>1, <1>2, <2>1
<1>4. ~(j.from < i.from)
  <2> SUFFICES ASSUME j.from < i.from PROVE FALSE
    OBVIOUS
  <2>1. i.from - 1 \in Days /\ Holds(j, i.from - 1)
    BY <1>1 DEF Holds
  <2> QED
    BY <1>1, <1>2, <2>1
<1>5. ~(i.to < j.to)
  <2> SUFFICES ASSUME i.to < j.to PROVE FALSE
    OBVIOUS
  <2>1. i.to \in Days /\ Holds(j, i.to)
    BY <1>1 DEF Holds
  <2> QED
    BY <1>1, <1>2, <2>1
<1>6. ~(j.to < i.to)
  <2> SUFFICES ASSUME j.to < i.to PROVE FALSE
    OBVIOUS
  <2>1. j.to \in Days /\ Holds(i, j.to)
    BY <1>1 DEF Holds
  <2> QED
    BY <1>1, <1>2, <2>1
<1>7. i.from = j.from /\ i.to = j.to
  BY <1>1, <1>3, <1>4, <1>5, <1>6
<1> QED
  BY <1>1, <1>7

-----------------------------------------------------------------------------
(* The observed intervals: they hold the observed days, each once and with *)
(* its owner.                                                              *)

Corpora == SUBSET Observation

IdRows(reg, rows, obs) ==
    /\ rows \in SUBSET Row /\ Spans(rows) /\ Disjoint(rows)
    /\ \A r \in rows : Owned(reg, r)
    /\ \A r \in rows : \A d \in Days :
          Holds(r, d) => \E o \in obs : o.value = r.value /\ o.day = d
    /\ \A o \in obs : \E r \in rows : r.value = o.value /\ Holds(r, o.day)

LEMMA CutKeepsIds ==
    ASSUME NEW old, NEW reg \in Registry, NEW rows, NEW obs \in Corpora,
           IdRows(old, rows, obs)
    PROVE  IdRows(reg, CutTable(reg, rows), obs)
<1>1. rows \in SUBSET (RawRow \cup RawListRow) /\ rows \in SUBSET RawRow /\ Spans(rows)
  BY RowsAreRaw DEF IdRows
<1>2. \A p \in CutTable(reg, rows) : \E r \in rows : \E q \in CutInterval(reg, r) :
         IsPieceOf(reg, p, q, r)
  BY <1>1, CutTableFrom
<1>3. Disjoint(CutTable(reg, rows))
  BY <1>1, CutTableDisjoint DEF IdRows
<1>4. ASSUME NEW p \in CutTable(reg, rows)
      PROVE  /\ p \in Row /\ p.from < p.to /\ Owned(reg, p)
             /\ \A d \in Days : Holds(p, d) => \E o \in obs : o.value = p.value /\ o.day = d
  <2>1. PICK r \in rows : \E q \in CutInterval(reg, r) : IsPieceOf(reg, p, q, r)
    BY <1>2
  <2>2. /\ r.from <= p.from /\ p.from < p.to /\ p.to <= r.to
        /\ p.value = r.value /\ Owned(reg, p) /\ p \in Row
    BY <1>1, <2>1 DEF IsPieceOf
  <2>3. ASSUME NEW d \in Days, Holds(p, d) PROVE Holds(r, d)
    <3>1. r \in Row /\ p \in Row
      BY <2>2 DEF IdRows
    <3>2. r.from \in Int /\ r.to \in Int /\ p.from \in Int /\ p.to \in Int /\ d \in Int
      BY <3>1, RegistryAssumption DEF Row, Days
    <3> QED
      BY <2>2, <2>3, <3>2 DEF Holds
  <2> QED
    BY <2>2, <2>3 DEF IdRows
<1>5. ASSUME NEW o \in obs
      PROVE  \E p \in CutTable(reg, rows) : p.value = o.value /\ Holds(p, o.day)
  <2>1. PICK r \in rows : r.value = o.value /\ Holds(r, o.day)
    BY DEF IdRows
  <2>2. o.day \in Days
    BY DEF Observation, Corpora
  <2>3. PICK p \in CutTable(reg, rows) :
           \E q \in CutInterval(reg, r) : IsPieceOf(reg, p, q, r) /\ Holds(p, o.day)
    BY <1>1, <2>1, <2>2, CutTableCovers
  <2> QED
    BY <2>1, <2>3 DEF IsPieceOf
<1> QED
  BY <1>3, <1>4, <1>5 DEF IdRows, Spans

(* New verdicts leave the rows what they are.                              *)
LEMMA ReviewsKeepIds ==
    ASSUME NEW reg, NEW rows, NEW obs, IdRows(reg, rows, obs),
           NEW f \in [rows -> Reviews],
           NEW new, new = {[r EXCEPT !.review = f[r]] : r \in rows}
    PROVE  IdRows(reg, new, obs)
<1>1. \A r \in rows : /\ [r EXCEPT !.review = f[r]] \in Row
                      /\ [r EXCEPT !.review = f[r]].from = r.from
                      /\ [r EXCEPT !.review = f[r]].to = r.to
                      /\ [r EXCEPT !.review = f[r]].sid = r.sid
                      /\ [r EXCEPT !.review = f[r]].value = r.value
  BY DEF IdRows, Row
<1>2. \A p \in new : \E r \in rows : p = [r EXCEPT !.review = f[r]]
  OBVIOUS
<1>3. new \in SUBSET Row /\ Spans(new)
  <2> SUFFICES ASSUME NEW p \in new PROVE p \in Row /\ p.from < p.to
    BY DEF Spans
  <2>1. PICK r \in rows : p = [r EXCEPT !.review = f[r]]
    BY <1>2
  <2>2. r.from < r.to
    BY DEF IdRows, Spans
  <2> QED
    BY <1>1, <2>1, <2>2
<1>4. Disjoint(new)
  <2> SUFFICES ASSUME NEW p \in new, NEW q \in new, p.value = q.value,
                      p.from < q.to, q.from < p.to
               PROVE  p = q
    BY DEF Disjoint
  <2>1. PICK r \in rows : p = [r EXCEPT !.review = f[r]]
    BY <1>2
  <2>2. PICK s \in rows : q = [s EXCEPT !.review = f[s]]
    BY <1>2
  <2>3. r.value = s.value /\ r.from < s.to /\ s.from < r.to
    BY <1>1, <2>1, <2>2
  <2>4. r = s
    BY <2>3 DEF IdRows, Disjoint
  <2> QED
    BY <2>1, <2>2, <2>4
<1>5. ASSUME NEW p \in new
      PROVE  /\ Owned(reg, p)
             /\ \A d \in Days : Holds(p, d) => \E o \in obs : o.value = p.value /\ o.day = d
  <2>1. PICK r \in rows : p = [r EXCEPT !.review = f[r]]
    BY <1>2
  <2>2. p.from = r.from /\ p.to = r.to /\ p.sid = r.sid /\ p.value = r.value
    BY <1>1, <2>1
  <2>3. Owned(reg, r) /\ \A d \in Days : Holds(r, d) => \E o \in obs : o.value = r.value /\ o.day = d
    BY DEF IdRows
  <2> QED
    BY <2>2, <2>3 DEF Owned, Holds
<1>6. ASSUME NEW o \in obs PROVE \E p \in new : p.value = o.value /\ Holds(p, o.day)
  <2>1. PICK r \in rows : r.value = o.value /\ Holds(r, o.day)
    BY DEF IdRows
  <2>2. [r EXCEPT !.review = f[r]] \in new
    OBVIOUS
  <2> QED
    BY <1>1, <2>1, <2>2 DEF Holds
<1> QED
  BY <1>3, <1>4, <1>5, <1>6 DEF IdRows

-----------------------------------------------------------------------------
(* The review of reuse looks at days only (registry.py 1001-1062).         *)

DayGaps(days) ==
    {g \in (1..(LastDay + 1)) \X Days :
        /\ g[1] - 1 \in days /\ g[2] \in days /\ g[2] - g[1] >= Horizon
        /\ \A d \in days : ~(g[1] <= d /\ d < g[2])}

(* The verdict on an identifier that was observed on these days.           *)
DayVerdict(reg, days, v) ==
    LET open == {g \in DayGaps(days) : ~AtBoundary(reg, v, g)} IN
    IF open = {} THEN None
    ELSE IF \A g \in open : Continued(reg, v, g) THEN "reviewed"
    ELSE "disputed"

LEMMA GapIs ==
    ASSUME NEW rows, NEW v, NEW g
    PROVE  g \in Gaps(rows, v) <=>
             \E p, c \in {r \in rows : r.value = v} :
                 /\ g = <<p.to, c.from>> /\ c.from - p.to >= Horizon
                 /\ ~ \E r \in rows : r.value = v /\ p.from < r.from /\ r.from < c.from
BY DEF Gaps

LEMMA GapsAreDays ==
    ASSUME NEW reg, NEW rows, NEW obs \in Corpora, IdRows(reg, rows, obs),
           NEW v
    PROVE  Gaps(rows, v) = DayGaps(DaysOf(obs, v))
<1> USE RegistryAssumption DEF Days
<1> DEFINE D == DaysOf(obs, v)
           mine == {r \in rows : r.value = v}
<1>1. D \in SUBSET Days
  BY DEF DaysOf, Observation, Corpora
<1>2. \A r \in mine : /\ r.from \in Nat /\ r.to \in Nat /\ r.from < r.to
                      /\ r.from \in Days /\ r.to \in 1..(LastDay + 1)
  BY DEF IdRows, Row, Spans
<1>3. \A r, p \in mine : r.from < p.to /\ p.from < r.to => r = p
  BY DEF IdRows, Disjoint
<1>4. \A r \in mine : \A d \in Days : r.from <= d /\ d < r.to => d \in D
  BY DEF IdRows, Holds, DaysOf
<1>5. \A d \in D : \E r \in mine : r.from <= d /\ d < r.to
  BY DEF IdRows, Holds, DaysOf
<1>6. ASSUME NEW g \in Gaps(rows, v) PROVE g \in DayGaps(D)
  <2>1. PICK p \in mine : \E c \in mine :
                 /\ g = <<p.to, c.from>> /\ c.from - p.to >= Horizon
                 /\ ~ \E r \in rows : r.value = v /\ p.from < r.from /\ r.from < c.from
    BY <1>6, GapIs
  <2>2. PICK c \in mine :
                 /\ g = <<p.to, c.from>> /\ c.from - p.to >= Horizon
                 /\ ~ \E r \in rows : r.value = v /\ p.from < r.from /\ r.from < c.from
    BY <2>1
  <2>3. p.to - 1 \in D /\ c.from \in D
    BY <1>2, <1>4
  <2>4. ASSUME NEW d \in D, p.to <= d, d < c.from PROVE FALSE
    <3>1. PICK r \in mine : r.from <= d /\ d < r.to
      BY <1>5
    <3>2. r # c /\ r # p /\ d \in Nat
      BY <1>1, <1>2, <2>4, <3>1
    <3>3. r.from < c.from
      BY <1>1, <1>2, <2>4, <3>1
    <3>4. p.from < r.from
      BY <1>2, <1>3, <3>1, <3>2, <2>4
    <3> QED
      BY <2>2, <3>3, <3>4
  <2>5. g \in (1..(LastDay + 1)) \X Days /\ g[1] = p.to /\ g[2] = c.from
    BY <1>2, <2>2
  <2> QED
    BY <2>2, <2>3, <2>4, <2>5 DEF DayGaps
<1>7. ASSUME NEW g \in DayGaps(D) PROVE g \in Gaps(rows, v)
  <2>1. /\ g[1] \in 1..(LastDay + 1) /\ g[2] \in Days /\ g = <<g[1], g[2]>>
        /\ g[1] - 1 \in D /\ g[2] \in D /\ g[2] - g[1] >= Horizon
        /\ \A d \in D : ~(g[1] <= d /\ d < g[2])
    BY <1>7 DEF DayGaps
  <2>2. PICK p \in mine : p.from <= g[1] - 1 /\ g[1] - 1 < p.to
    BY <1>5, <2>1
  <2>3. PICK c \in mine : c.from <= g[2] /\ g[2] < c.to
    BY <1>5, <2>1
  <2>4. g[1] < g[2]
    BY <2>1
  <2>5. p.to = g[1]
    <3>1. ~(g[1] < p.to)
      BY <1>2, <1>4, <2>1, <2>2, <2>4
    <3> QED
      BY <1>2, <2>1, <2>2, <3>1
  <2>6. c.from = g[2]
    <3>1. ~(c.from < g[2])
      <4> SUFFICES ASSUME c.from < g[2] PROVE FALSE
        OBVIOUS
      <4>1. g[2] - 1 \in D
        <5>1. g[2] - 1 \in Days /\ c.from <= g[2] - 1 /\ g[2] - 1 < c.to
          BY <1>2, <2>1, <2>3, <2>4
        <5> QED
          BY <1>4, <5>1
      <4> QED
        BY <2>1, <2>4, <4>1
    <3> QED
      BY <1>2, <2>1, <2>3, <3>1
  <2>7. ASSUME NEW r \in mine, p.from < r.from, r.from < c.from PROVE FALSE
    <3>1. r.from \in D
      BY <1>2, <1>4
    <3>2. r.from < g[1]
      BY <1>2, <2>1, <2>6, <2>7, <3>1
    <3>3. r = p
      BY <1>2, <1>3, <2>5, <2>7, <3>2
    <3> QED
      BY <1>2, <2>7, <3>3
  <2> QED
    BY <2>1, <2>5, <2>6, <2>7, GapIs
<1> QED
  BY <1>6, <1>7

LEMMA VerdictIsOfDays ==
    ASSUME NEW reg, NEW law, NEW rows, NEW obs \in Corpora,
           IdRows(reg, rows, obs), NEW v
    PROVE  ReuseVerdict(law, rows, v) = DayVerdict(law, DaysOf(obs, v), v)
BY GapsAreDays DEF ReuseVerdict, DayVerdict

LEMMA VerdictType ==
    ASSUME NEW reg, NEW days, NEW v, DayVerdict(reg, days, v) # None
    PROVE  DayVerdict(reg, days, v) \in Reviews
BY DEF DayVerdict, Reviews

(* What the rows of an identifier say in the end: the verdict on its reuse *)
(* or, without one, the review of their owner.                             *)
Judgement(reg, obs, v, x) ==
    IF DayVerdict(reg, DaysOf(obs, v), v) = None THEN reg.review[x]
    ELSE DayVerdict(reg, DaysOf(obs, v), v)

Judged(reg, rows, obs) ==
    \A r \in rows : r.review = Judgement(reg, obs, r.value, r.sid)

(* _reconcile_review_state (registry.py 1898-1978) judges every row.       *)
LEMMA ReconcileJudges ==
    ASSUME NEW reg \in Registry, NEW rows, NEW obs \in Corpora,
           IdRows(reg, rows, obs)
    PROVE  /\ IdRows(reg, ReconcileReview(reg, rows), obs)
           /\ Judged(reg, ReconcileReview(reg, rows), obs)
<1> DEFINE f == [r \in rows |-> Judgement(reg, obs, r.value, r.sid)]
           plain == {[r EXCEPT !.review = reg.review[r.sid]] : r \in rows}
           verdict == [v \in ValuesOf(rows) |-> ReuseVerdict(reg, rows, v)]
           new == ReconcileReview(reg, rows)
<1>1. new = Stamp(plain, verdict)
  BY DEF ReconcileReview
<1>2. rows \in SUBSET Row
  BY DEF IdRows
<1>3. \A r \in rows : r.value \in ValuesOf(rows)
  BY DEF ValuesOf
<1>4. \A r \in rows : verdict[r.value] = DayVerdict(reg, DaysOf(obs, r.value), r.value)
  BY <1>3, VerdictIsOfDays
<1>5. f \in [rows -> Reviews]
  <2> SUFFICES ASSUME NEW r \in rows PROVE Judgement(reg, obs, r.value, r.sid) \in Reviews
    OBVIOUS
  <2>1. reg.review[r.sid] \in Reviews
    BY <1>2 DEF Row, Registry
  <2> QED
    BY <2>1, VerdictType DEF Judgement
<1>6. ASSUME NEW r \in rows
      PROVE  LET q == [r EXCEPT !.review = reg.review[r.sid]] IN
             (IF verdict[q.value] = None THEN q
              ELSE [q EXCEPT !.review = verdict[q.value]]) = [r EXCEPT !.review = f[r]]
  <2> DEFINE q == [r EXCEPT !.review = reg.review[r.sid]]
  <2>1. r \in Row
    BY <1>2
  <2>2. q.value = r.value
    BY <2>1 DEF Row
  <2>3. f[r] = IF verdict[r.value] = None THEN reg.review[r.sid] ELSE verdict[r.value]
    BY <1>4 DEF Judgement
  <2>4. \A x : [q EXCEPT !.review = x] = [r EXCEPT !.review = x]
    BY <2>1 DEF Row
  <2> HIDE DEF f, verdict
  <2> QED
    BY <2>2, <2>3, <2>4
<1>7. new = {[r EXCEPT !.review = f[r]] : r \in rows}
  <2> DEFINE Stamped(q) == IF verdict[q.value] = None THEN q
                           ELSE [q EXCEPT !.review = verdict[q.value]]
  <2>1. new = {Stamped(q) : q \in plain}
    BY <1>1 DEF Stamp
  <2>2. \A r \in rows : Stamped([r EXCEPT !.review = reg.review[r.sid]]) = [r EXCEPT !.review = f[r]]
    BY <1>6
  <2> HIDE DEF f, Stamped, new
  <2>3. ASSUME NEW p \in new PROVE \E r \in rows : p = [r EXCEPT !.review = f[r]]
    <3>1. PICK q \in plain : p = Stamped(q)
      BY <2>1
    <3>2. PICK r \in rows : q = [r EXCEPT !.review = reg.review[r.sid]]
      BY <3>1
    <3> QED
      BY <2>2, <3>1, <3>2
  <2>4. ASSUME NEW r \in rows PROVE [r EXCEPT !.review = f[r]] \in new
    <3>1. [r EXCEPT !.review = reg.review[r.sid]] \in plain
      OBVIOUS
    <3> HIDE DEF plain
    <3> QED
      BY <2>1, <2>2, <3>1
  <2> QED
    BY <2>3, <2>4
<1>8. IdRows(reg, new, obs)
  <2> HIDE DEF f, new
  <2> QED
    BY <1>5, <1>7, ReviewsKeepIds
<1>9. Judged(reg, new, obs)
  <2> SUFFICES ASSUME NEW p \in new PROVE p.review = Judgement(reg, obs, p.value, p.sid)
    BY DEF Judged
  <2>1. PICK r \in rows : p = [r EXCEPT !.review = f[r]]
    BY <1>7
  <2>2. p.review = f[r] /\ p.value = r.value /\ p.sid = r.sid
    BY <1>2, <2>1 DEF Row
  <2> QED
    BY <2>2
<1> QED
  BY <1>8, <1>9

-----------------------------------------------------------------------------
(* rewrite_identifier_intervals (registry.py 1315-1379): the intervals of  *)
(* one owner hold its days, old and new.                                   *)

OldAndNew(reg, rows, obs, x, v) ==
    Covered({r \in rows : r.sid = x /\ r.value = v}) \cup DaysOf(OwnedBy(reg, obs, x), v)

LEMMA RewriteIs ==
    ASSUME NEW reg \in Registry, NEW rows, NEW old \in Corpora,
           IdRows(reg, rows, old), NEW obs \in Corpora,
           NEW x \in SecurityIds, NEW v \in Values
    PROVE  /\ Rewrite(reg, rows, obs, x, v) \in SUBSET Row
           /\ \A r \in Rewrite(reg, rows, obs, x, v) :
                 /\ r.sid = x /\ r.value = v /\ r.from < r.to
                 /\ r \in rows \/ r.review = reg.review[x]
                 /\ \A d \in Days : Holds(r, d) => d \in OldAndNew(reg, rows, obs, x, v)
           /\ \A d \in OldAndNew(reg, rows, obs, x, v) :
                 \E r \in Rewrite(reg, rows, obs, x, v) : Holds(r, d)
           /\ Disjoint(Rewrite(reg, rows, obs, x, v))
           /\ OldAndNew(reg, rows, obs, x, v) \in SUBSET Days
<1> USE RegistryAssumption
<1> DEFINE mine == {r \in rows : r.sid = x /\ r.value = v}
           D == OldAndNew(reg, rows, obs, x, v)
           after == UnionIntervals(D)
           fresh == {[sid |-> x, value |-> v, from |-> i.from, to |-> i.to,
                      review |-> reg.review[x]] : i \in after}
           new == Rewrite(reg, rows, obs, x, v)
<1>1. \A r \in mine : r \in Row /\ r.from < r.to
  BY DEF IdRows, Spans
<1>2. D \in SUBSET Days
  <2>1. Covered(mine) \in SUBSET Days
    <3> SUFFICES ASSUME NEW d \in Covered(mine) PROVE d \in Days
      OBVIOUS
    <3>1. PICK r \in mine : d \in r.from..(r.to - 1)
      BY DEF Covered
    <3>2. r.from \in Nat /\ r.to \in 1..(LastDay + 1)
      BY <1>1 DEF Row, Days
    <3> QED
      BY <3>1, <3>2 DEF Days
  <2>2. DaysOf(OwnedBy(reg, obs, x), v) \in SUBSET Days
    BY DEF DaysOf, OwnedBy, Observation, Corpora
  <2> QED
    BY <2>1, <2>2 DEF OldAndNew
<1>3. new = IF {[from |-> r.from, to |-> r.to] : r \in mine} = after THEN mine ELSE fresh
  BY DEF Rewrite, OldAndNew
<1>4. \A i \in after : /\ i.from \in Days /\ i.to \in 1..(LastDay + 1) /\ i.from < i.to
                       /\ i = [from |-> i.from, to |-> i.to]
                       /\ \A d \in Days : Holds(i, d) => d \in D
  <2> HIDE DEF D
  <2> QED
    BY <1>2, UnionIs
<1>5. \A d \in D : \E i \in after : Holds(i, d)
  <2> HIDE DEF D
  <2> QED
    BY <1>2, UnionCovers
<1>6. \A i, j \in after : i.from < j.to /\ j.from < i.to => i = j
  <2> HIDE DEF D
  <2> QED
    BY <1>2, UnionDisjoint
<1> HIDE DEF D, after
<1>7. CASE {[from |-> r.from, to |-> r.to] : r \in mine} = after
  <2>1. new = mine
    BY <1>3, <1>7
  <2>2. Disjoint(mine)
    BY DEF IdRows, Disjoint
  <2>3. \A r \in mine : \A d \in Days : Holds(r, d) => d \in D
    <3> SUFFICES ASSUME NEW r \in mine, NEW d \in Days, Holds(r, d) PROVE d \in D
      OBVIOUS
    <3>1. [from |-> r.from, to |-> r.to] \in after
      BY <1>7
    <3> QED
      BY <1>4, <3>1 DEF Holds
  <2>4. \A d \in D : \E r \in mine : Holds(r, d)
    <3> SUFFICES ASSUME NEW d \in D PROVE \E r \in mine : Holds(r, d)
      OBVIOUS
    <3>1. PICK i \in after : Holds(i, d)
      BY <1>5
    <3>2. PICK r \in mine : i = [from |-> r.from, to |-> r.to]
      BY <1>7, <3>1
    <3> QED
      BY <3>1, <3>2 DEF Holds
  <2>5. \A r \in mine : /\ r \in Row /\ r.sid = x /\ r.value = v /\ r.from < r.to
                        /\ r \in rows
    BY <1>1
  <2> HIDE DEF new, mine
  <2> QED
    BY <1>2, <2>1, <2>2, <2>3, <2>4, <2>5 DEF D, new
<1>8. CASE {[from |-> r.from, to |-> r.to] : r \in mine} # after
  <2>1. new = fresh
    BY <1>3, <1>8
  <2>2. reg.review[x] \in Reviews
    BY DEF Registry
  <2>3. \A r \in fresh : \E i \in after :
           /\ r = [sid |-> x, value |-> v, from |-> i.from, to |-> i.to, review |-> reg.review[x]]
           /\ r.from = i.from /\ r.to = i.to
    OBVIOUS
  <2>4. \A i \in after : \E r \in fresh : r.from = i.from /\ r.to = i.to
    <3> SUFFICES ASSUME NEW i \in after PROVE \E r \in fresh : r.from = i.from /\ r.to = i.to
      OBVIOUS
    <3>1. [sid |-> x, value |-> v, from |-> i.from, to |-> i.to, review |-> reg.review[x]] \in fresh
      OBVIOUS
    <3> QED
      BY <3>1
  <2>5. fresh \in SUBSET Row
    <3> SUFFICES ASSUME NEW r \in fresh PROVE r \in Row
      OBVIOUS
    <3>1. PICK i \in after : r = [sid |-> x, value |-> v, from |-> i.from, to |-> i.to,
                                  review |-> reg.review[x]]
      BY <2>3
    <3> QED
      BY <1>4, <2>2, <3>1 DEF Row
  <2>6. \A r \in fresh : r.sid = x /\ r.value = v /\ r.review = reg.review[x]
    OBVIOUS
  <2> HIDE DEF fresh, new
  <2>7. \A r \in fresh : r.from < r.to /\ \A d \in Days : Holds(r, d) => d \in D
    BY <1>4, <2>3 DEF Holds
  <2>8. \A d \in D : \E r \in fresh : Holds(r, d)
    BY <1>5, <2>4 DEF Holds
  <2>9. Disjoint(fresh)
    <3> SUFFICES ASSUME NEW r \in fresh, NEW p \in fresh, r.from < p.to, p.from < r.to
                 PROVE  r = p
      BY DEF Disjoint
    <3>1. PICK i \in after :
           /\ r = [sid |-> x, value |-> v, from |-> i.from, to |-> i.to, review |-> reg.review[x]]
           /\ r.from = i.from /\ r.to = i.to
      BY <2>3
    <3>2. PICK j \in after :
           /\ p = [sid |-> x, value |-> v, from |-> j.from, to |-> j.to, review |-> reg.review[x]]
           /\ p.from = j.from /\ p.to = j.to
      BY <2>3
    <3>3. i = j
      BY <1>6, <3>1, <3>2
    <3> QED
      BY <3>1, <3>2, <3>3
  <2> QED
    BY <1>2, <2>1, <2>5, <2>6, <2>7, <2>8, <2>9 DEF new, D
<1> QED
  BY <1>7, <1>8

LEMMA RewriteRow ==
    ASSUME NEW reg \in Registry, NEW rows, NEW old \in Corpora,
           IdRows(reg, rows, old), NEW obs \in Corpora,
           NEW x \in SecurityIds, NEW v \in Values,
           NEW r \in Rewrite(reg, rows, obs, x, v)
    PROVE  /\ r.sid = x /\ r.value = v
           /\ r \in rows \/ r.review = reg.review[x]
BY RewriteIs

-----------------------------------------------------------------------------
(* bootstrap_ftd (bootstrap.py 841-973).                                   *)

Owners(reg, obs) == {<<OwnerOf(reg, o.value, o.day), o.value>> : o \in obs}

FtdRows(reg, rows, obs) ==
    {r \in rows : <<r.sid, r.value>> \notin Owners(reg, obs)}
      \cup UNION {Rewrite(reg, rows, obs, o[1], o[2]) : o \in Owners(reg, obs)}

LEMMA FtdRowIs ==
    ASSUME NEW reg \in Registry, NEW rows, NEW old \in Corpora,
           IdRows(reg, rows, old), NEW obs \in Corpora,
           NEW r \in FtdRows(reg, rows, obs)
    PROVE  \/ r \in rows /\ <<r.sid, r.value>> \notin Owners(reg, obs)
           \/ /\ <<r.sid, r.value>> \in Owners(reg, obs)
              /\ r.sid \in SecurityIds /\ r.value \in Values
              /\ r \in Rewrite(reg, rows, obs, r.sid, r.value)
<1>1. CASE r \in rows /\ <<r.sid, r.value>> \notin Owners(reg, obs)
  BY <1>1
<1>2. ASSUME NEW o \in Owners(reg, obs), r \in Rewrite(reg, rows, obs, o[1], o[2])
      PROVE  r.sid = o[1] /\ r.value = o[2] /\ o = <<o[1], o[2]>>
             /\ o[1] \in SecurityIds /\ o[2] \in Values
  <2>1. PICK b \in obs : o = <<OwnerOf(reg, b.value, b.day), b.value>>
    BY DEF Owners
  <2>2. b.value \in Values /\ b.day \in Days
    BY DEF Observation, Corpora
  <2>3. o[1] \in SecurityIds /\ o[2] \in Values /\ o = <<o[1], o[2]>>
    BY <2>1, <2>2 DEF OwnerOf, Registry
  <2> QED
    BY <1>2, <2>3, RewriteIs
<1>3. CASE \E o \in Owners(reg, obs) : r \in Rewrite(reg, rows, obs, o[1], o[2])
  BY <1>2, <1>3
<1> QED
  BY <1>1, <1>3 DEF FtdRows

LEMMA FtdRowsHold ==
    ASSUME NEW reg \in Registry, NEW rows, NEW old \in Corpora,
           IdRows(reg, rows, old), NEW obs \in Corpora
    PROVE  IdRows(reg, FtdRows(reg, rows, obs), old \cup obs)
<1> USE RegistryAssumption
<1> DEFINE new == FtdRows(reg, rows, obs)
           Same(r) == r \in rows /\ <<r.sid, r.value>> \notin Owners(reg, obs)
           Redone(r) == /\ <<r.sid, r.value>> \in Owners(reg, obs)
                        /\ r.sid \in SecurityIds /\ r.value \in Values
                        /\ r \in Rewrite(reg, rows, obs, r.sid, r.value)
<1>1. \A r \in new : Same(r) \/ Redone(r)
  BY FtdRowIs
<1>2. \A r \in rows : r \in Row /\ r.from < r.to /\ Owned(reg, r)
  BY DEF IdRows, Spans
<1>3. ASSUME NEW x \in SecurityIds, NEW v \in Values,
             NEW d \in OldAndNew(reg, rows, obs, x, v)
      PROVE  /\ d \in Days /\ OwnerOf(reg, v, d) = x
             /\ \E o \in old \cup obs : o.value = v /\ o.day = d
  <2>1. CASE d \in Covered({r \in rows : r.sid = x /\ r.value = v})
    <3>1. PICK r \in {r \in rows : r.sid = x /\ r.value = v} : d \in r.from..(r.to - 1)
      BY <2>1 DEF Covered
    <3>2. r.from \in Nat /\ r.to \in 1..(LastDay + 1)
      BY <1>2, <3>1 DEF Row, Days
    <3>3. d \in Days /\ Holds(r, d)
      BY <3>1, <3>2 DEF Days, Holds
    <3> QED
      BY <1>2, <3>1, <3>3 DEF Owned, IdRows
  <2>2. CASE d \in DaysOf(OwnedBy(reg, obs, x), v)
    <3>1. PICK o \in obs : OwnerOf(reg, o.value, o.day) = x /\ o.value = v /\ o.day = d
      BY <2>2 DEF DaysOf, OwnedBy
    <3> QED
      BY <3>1 DEF Observation, Corpora
  <2> QED
    BY <2>1, <2>2 DEF OldAndNew
<1>4. ASSUME NEW r \in new
      PROVE  /\ r \in Row /\ r.from < r.to /\ Owned(reg, r)
             /\ \A d \in Days : Holds(r, d) =>
                   \E o \in old \cup obs : o.value = r.value /\ o.day = d
  <2>1. CASE Same(r)
    BY <1>2, <2>1 DEF IdRows
  <2>2. CASE Redone(r)
    <3>1. /\ r \in Row /\ r.from < r.to
          /\ \A d \in Days : Holds(r, d) => d \in OldAndNew(reg, rows, obs, r.sid, r.value)
      BY <2>2, RewriteIs
    <3> QED
      BY <1>3, <2>2, <3>1 DEF Owned
  <2> QED
    BY <1>1, <2>1, <2>2
<1>5. Disjoint(new)
  <2> SUFFICES ASSUME NEW r \in new, NEW p \in new, r.value = p.value,
                      r.from < p.to, p.from < r.to
               PROVE  r = p
    BY DEF Disjoint
  <2>1. /\ r \in Row /\ p \in Row /\ r.from < r.to /\ p.from < p.to
        /\ Owned(reg, r) /\ Owned(reg, p)
    BY <1>4
  <2>2. r.sid = p.sid
    <3>1. r.from \in Days /\ p.from \in Days /\ r.to \in Int /\ p.to \in Int
      BY <2>1 DEF Row
    <3>2. CASE r.from <= p.from
      <4>1. Holds(r, p.from) /\ Holds(p, p.from)
        BY <2>1, <3>1, <3>2 DEF Holds, Days
      <4> QED
        BY <2>1, <3>1, <4>1 DEF Owned
    <3>3. CASE p.from <= r.from
      <4>1. Holds(r, r.from) /\ Holds(p, r.from)
        BY <2>1, <3>1, <3>3 DEF Holds, Days
      <4> QED
        BY <2>1, <3>1, <4>1 DEF Owned
    <3> QED
      BY <3>1, <3>2, <3>3 DEF Days
  <2>3. CASE Same(r)
    <3>1. Same(p)
      BY <1>1, <2>2, <2>3
    <3> QED
      BY <2>3, <3>1 DEF IdRows, Disjoint
  <2>4. CASE Redone(r)
    <3>1. Redone(p)
      BY <1>1, <2>2, <2>4
    <3>2. Disjoint(Rewrite(reg, rows, obs, r.sid, r.value))
      BY <2>4, RewriteIs
    <3>3. p \in Rewrite(reg, rows, obs, r.sid, r.value)
      BY <2>2, <3>1
    <3> QED
      BY <2>4, <3>2, <3>3 DEF Disjoint
  <2> QED
    BY <1>1, <2>3, <2>4
<1>6. ASSUME NEW o \in old \cup obs
      PROVE  \E r \in new : r.value = o.value /\ Holds(r, o.day)
  <2> DEFINE x == OwnerOf(reg, o.value, o.day)
             v == o.value
  <2>1. v \in Values /\ o.day \in Days /\ x \in SecurityIds
    BY DEF Observation, Corpora, OwnerOf, Registry
  <2>2. CASE <<x, v>> \in Owners(reg, obs)
    <3>1. o.day \in OldAndNew(reg, rows, obs, x, v)
      <4>1. CASE o \in obs
        BY <4>1 DEF OldAndNew, DaysOf, OwnedBy
      <4>2. CASE o \in old
        <5>1. PICK r \in rows : r.value = v /\ Holds(r, o.day)
          BY <4>2 DEF IdRows
        <5>2. r.sid = x
          BY <1>2, <2>1, <5>1 DEF Owned
        <5>3. r.from \in Nat /\ r.to \in Nat /\ o.day \in Nat
          BY <1>2, <2>1, <5>1 DEF Row, Days
        <5>4. o.day \in r.from..(r.to - 1)
          BY <5>1, <5>3 DEF Holds
        <5> QED
          BY <5>1, <5>2, <5>4 DEF OldAndNew, Covered
      <4> QED
        BY <4>1, <4>2
    <3>2. PICK r \in Rewrite(reg, rows, obs, x, v) : Holds(r, o.day)
      BY <2>1, <3>1, RewriteIs
    <3>3. r \in new
      <4>1. \E w \in Owners(reg, obs) : r \in Rewrite(reg, rows, obs, w[1], w[2])
        BY <2>2, <3>2
      <4> QED
        BY <4>1 DEF FtdRows
    <3>4. r.value = v
      <4>1. \A y \in SecurityIds, w \in Values :
               \A p \in Rewrite(reg, rows, obs, y, w) : p.value = w
        BY RewriteRow
      <4> HIDE DEF x, v
      <4> QED
        BY <2>1, <3>2, <4>1
    <3> QED
      BY <3>2, <3>3, <3>4
  <2>3. CASE <<x, v>> \notin Owners(reg, obs)
    <3>1. o \in old
      BY <2>3 DEF Owners
    <3>2. PICK r \in rows : r.value = v /\ Holds(r, o.day)
      BY <3>1 DEF IdRows
    <3>3. r.sid = x
      BY <1>2, <2>1, <3>2 DEF Owned
    <3>4. r \in new
      BY <2>3, <3>2, <3>3 DEF FtdRows
    <3> QED
      BY <3>2, <3>4
  <2> QED
    BY <2>2, <2>3
<1> HIDE DEF new
<1> QED
  BY <1>4, <1>5, <1>6 DEF IdRows, Spans, new

LEMMA CorporaJoin ==
    ASSUME NEW old \in Corpora, NEW obs \in Corpora PROVE old \cup obs \in Corpora
BY DEF Corpora

(* A store's fields.                                                       *)
IsStore(s) ==
    s = [ids |-> s.ids, lists |-> s.lists, links |-> s.links, ledger |-> s.ledger,
         holdings |-> s.holdings, listed |-> s.listed]

LEMMA WithLinks ==
    ASSUME NEW s, IsStore(s), NEW l
    PROVE  [s EXCEPT !.links = l] =
             [ids |-> s.ids, lists |-> s.lists, links |-> l, ledger |-> s.ledger,
              holdings |-> s.holdings, listed |-> s.listed]
<1> DEFINE all == {"ids", "lists", "links", "ledger", "holdings", "listed"}
<1>1. DOMAIN s = all /\ s = [f \in DOMAIN s |-> s[f]]
  BY DEF IsStore
<1> QED
  BY <1>1

FtdVerdict(reg, rows, obs) ==
    [v \in ValuesOf(FtdRows(reg, rows, obs)) |->
        IF DaysOf(obs, v) = {} THEN None
        ELSE ReuseVerdict(reg, FtdRows(reg, rows, obs), v)]

FtdLinks(reg, s, obs) ==
    [x \in {o[1] : o \in Owners(reg, obs)} \cup Stored(s) |->
        (IF x \in Stored(s) THEN s.links[x] ELSE {}) \cup Entities(OwnedBy(reg, obs, x))]

LEMMA FtdStore ==
    ASSUME NEW reg, NEW s, IsStore(s), NEW obs
    PROVE  BootstrapFtd(reg, s, obs) =
             [ids |-> Stamp(FtdRows(reg, s.ids, obs), FtdVerdict(reg, s.ids, obs)),
              lists |-> s.lists, links |-> FtdLinks(reg, s, obs), ledger |-> s.ledger,
              holdings |-> s.holdings, listed |-> s.listed]
<1> DEFINE known == EnsureSecurity(s, {o[1] : o \in Owners(reg, obs)})
           ids == Stamp(FtdRows(reg, s.ids, obs), FtdVerdict(reg, s.ids, obs))
           links == [x \in DOMAIN known.links |->
                        known.links[x] \cup Entities(OwnedBy(reg, obs, x))]
           new == BootstrapFtd(reg, s, obs)
<1>1. /\ known = [ids |-> s.ids, lists |-> s.lists,
                  links |-> [x \in {o[1] : o \in Owners(reg, obs)} \cup Stored(s) |->
                               IF x \in Stored(s) THEN s.links[x] ELSE {}],
                  ledger |-> s.ledger, holdings |-> s.holdings, listed |-> s.listed]
  BY WithLinks DEF EnsureSecurity
<1>2. new = [known EXCEPT !.ids = ids, !.links = links]
  BY DEF BootstrapFtd, FtdRows, FtdVerdict, Owners
<1>3. new = [ids |-> ids, lists |-> s.lists, links |-> links, ledger |-> s.ledger,
             holdings |-> s.holdings, listed |-> s.listed]
  <2> HIDE DEF new, ids, links, known
  <2> QED
    BY <1>1, <1>2
<1>4. links = FtdLinks(reg, s, obs)
  <2> HIDE DEF known
  <2> QED
    BY <1>1 DEF FtdLinks
<1> HIDE DEF new, ids, links, known
<1> QED
  BY <1>3, <1>4 DEF new, ids

LEMMA FtdIds ==
    ASSUME NEW reg, NEW s, IsStore(s), NEW obs
    PROVE  BootstrapFtd(reg, s, obs).ids =
             Stamp(FtdRows(reg, s.ids, obs), FtdVerdict(reg, s.ids, obs))
BY FtdStore

(* What bootstrap_ftd leaves holds old and new observations; where the old *)
(* rows had been judged for both, all rows are.                            *)
LEMMA FtdJudges ==
    ASSUME NEW reg \in Registry, NEW rows, NEW old \in Corpora,
           IdRows(reg, rows, old), NEW obs \in Corpora,
           NEW verdict, verdict = FtdVerdict(reg, rows, obs)
    PROVE  LET new == Stamp(FtdRows(reg, rows, obs), verdict) IN
           /\ IdRows(reg, new, old \cup obs)
           /\ Judged(reg, rows, old \cup obs) => Judged(reg, new, old \cup obs)
<1> DEFINE mid == FtdRows(reg, rows, obs)
           f == [r \in mid |-> IF verdict[r.value] = None THEN r.review
                               ELSE verdict[r.value]]
           Stamped(r) == IF verdict[r.value] = None THEN r
                         ELSE [r EXCEPT !.review = verdict[r.value]]
           new == Stamp(mid, verdict)
<1>1. IdRows(reg, mid, old \cup obs) /\ mid \in SUBSET Row
  <2>1. IdRows(reg, mid, old \cup obs)
    BY FtdRowsHold
  <2> QED
    BY <2>1 DEF IdRows
<1>2. \A r \in mid : verdict[r.value] =
         IF DaysOf(obs, r.value) = {} THEN None
         ELSE DayVerdict(reg, DaysOf(old \cup obs, r.value), r.value)
  <2> SUFFICES ASSUME NEW r \in mid
               PROVE verdict[r.value] =
                       IF DaysOf(obs, r.value) = {} THEN None
                       ELSE DayVerdict(reg, DaysOf(old \cup obs, r.value), r.value)
    OBVIOUS
  <2>1. r.value \in ValuesOf(mid)
    BY DEF ValuesOf
  <2>3. verdict[r.value] = IF DaysOf(obs, r.value) = {} THEN None
                           ELSE ReuseVerdict(reg, mid, r.value)
    BY <2>1 DEF FtdVerdict
  <2>2. ReuseVerdict(reg, mid, r.value) = DayVerdict(reg, DaysOf(old \cup obs, r.value), r.value)
    <3> HIDE DEF mid
    <3> QED
      BY <1>1, VerdictIsOfDays, CorporaJoin
  <2> QED
    BY <2>2, <2>3
<1> HIDE DEF mid
<1>3. f \in [mid -> Reviews]
  <2> SUFFICES ASSUME NEW r \in mid PROVE f[r] \in Reviews
    OBVIOUS
  <2>1. r.review \in Reviews
    BY <1>1 DEF Row
  <2>2. verdict[r.value] # None => verdict[r.value] \in Reviews
    BY <1>2, VerdictType
  <2> QED
    BY <2>1, <2>2
<1>4. \A r \in mid : Stamped(r) = [r EXCEPT !.review = f[r]]
  <2> SUFFICES ASSUME NEW r \in mid PROVE Stamped(r) = [r EXCEPT !.review = f[r]]
    OBVIOUS
  <2>1. r = [r EXCEPT !.review = r.review]
    BY <1>1 DEF Row
  <2>2. f[r] = IF verdict[r.value] = None THEN r.review ELSE verdict[r.value]
    OBVIOUS
  <2> HIDE DEF f
  <2> QED
    BY <2>1, <2>2
<1>5. new = {Stamped(r) : r \in mid}
  BY DEF Stamp
<1>6. new = {[r EXCEPT !.review = f[r]] : r \in mid}
  <2> HIDE DEF f, Stamped, new
  <2> QED
    BY <1>4, <1>5
<1>7. IdRows(reg, new, old \cup obs)
  <2> HIDE DEF f, new
  <2> QED
    BY <1>1, <1>3, <1>6, ReviewsKeepIds
<1>8. ASSUME Judged(reg, rows, old \cup obs) PROVE Judged(reg, new, old \cup obs)
  <2> SUFFICES ASSUME NEW p \in new PROVE p.review = Judgement(reg, old \cup obs, p.value, p.sid)
    BY DEF Judged
  <2>1. PICK r \in mid : p = [r EXCEPT !.review = f[r]]
    BY <1>6
  <2>2. p.review = f[r] /\ p.value = r.value /\ p.sid = r.sid
    BY <1>1, <2>1 DEF Row
  <2>3. f[r] = IF verdict[r.value] = None THEN r.review ELSE verdict[r.value]
    OBVIOUS
  <2>4. CASE verdict[r.value] # None
    BY <1>2, <2>2, <2>3, <2>4 DEF Judgement
  <2>5. CASE verdict[r.value] = None /\ r \in rows
    BY <1>8, <2>2, <2>3, <2>5 DEF Judged
  <2>6. CASE verdict[r.value] = None /\ r \notin rows
    <3>1. <<r.sid, r.value>> \in Owners(reg, obs) /\ r.review = reg.review[r.sid]
      <4>1. /\ <<r.sid, r.value>> \in Owners(reg, obs)
            /\ r.sid \in SecurityIds /\ r.value \in Values
            /\ r \in Rewrite(reg, rows, obs, r.sid, r.value)
        BY <2>6, FtdRowIs DEF mid
      <4>2. \A y \in SecurityIds, w \in Values :
               \A k \in Rewrite(reg, rows, obs, y, w) : k \in rows \/ k.review = reg.review[y]
        BY RewriteRow
      <4> QED
        BY <2>6, <4>1, <4>2
    <3>2. DaysOf(obs, r.value) # {}
      BY <3>1 DEF Owners, DaysOf
    <3>3. DayVerdict(reg, DaysOf(old \cup obs, r.value), r.value) = None
      BY <1>2, <2>6, <3>2
    <3> QED
      BY <2>2, <2>3, <2>6, <3>1, <3>3 DEF Judgement
  <2> QED
    BY <2>4, <2>5, <2>6
<1> QED
  BY <1>7, <1>8 DEF mid

LEMMA FtdKeepsIds ==
    ASSUME NEW reg \in Registry, NEW s, IsStore(s), NEW old \in Corpora,
           IdRows(reg, s.ids, old), NEW obs \in Corpora
    PROVE  /\ IdRows(reg, BootstrapFtd(reg, s, obs).ids, old \cup obs)
           /\ Judged(reg, s.ids, old \cup obs)
                => Judged(reg, BootstrapFtd(reg, s, obs).ids, old \cup obs)
<1>1. BootstrapFtd(reg, s, obs).ids =
        Stamp(FtdRows(reg, s.ids, obs), FtdVerdict(reg, s.ids, obs))
  BY FtdIds, Zenon
<1> QED
  BY <1>1, FtdJudges

-----------------------------------------------------------------------------
(* Two judged tables of the same observations say the same each day.       *)

LEMMA JudgedSayTheSame ==
    ASSUME NEW reg \in Registry, NEW rows, NEW obs \in Corpora,
           IdRows(reg, rows, obs), Judged(reg, rows, obs)
    PROVE  ByDay(rows) =
             {<<o.value, o.day, OwnerOf(reg, o.value, o.day),
                Judgement(reg, obs, o.value, OwnerOf(reg, o.value, o.day))>> : o \in obs}
<1> USE RegistryAssumption
<1> DEFINE Say(o) == <<o.value, o.day, OwnerOf(reg, o.value, o.day),
                Judgement(reg, obs, o.value, OwnerOf(reg, o.value, o.day))>>
<1>1. \A r \in rows : /\ r \in Row /\ Owned(reg, r)
                      /\ r.review = Judgement(reg, obs, r.value, r.sid)
                      /\ r.from \in Nat /\ r.to \in 1..(LastDay + 1)
  BY DEF IdRows, Row, Days, Judged
<1>2. ASSUME NEW e \in ByDay(rows) PROVE \E o \in obs : e = Say(o)
  <2>1. PICK r \in rows : \E d \in r.from..(r.to - 1) : e = <<r.value, d, r.sid, r.review>>
    BY <1>2 DEF ByDay
  <2>2. PICK d \in r.from..(r.to - 1) : e = <<r.value, d, r.sid, r.review>>
    BY <2>1
  <2>3. d \in Days /\ Holds(r, d)
    BY <1>1, <2>2 DEF Days, Holds
  <2>4. OwnerOf(reg, r.value, d) = r.sid
    BY <1>1, <2>3 DEF Owned
  <2>5. PICK o \in obs : o.value = r.value /\ o.day = d
    BY <2>3 DEF IdRows
  <2> QED
    BY <1>1, <2>2, <2>4, <2>5
<1>3. ASSUME NEW o \in obs PROVE Say(o) \in ByDay(rows)
  <2>1. PICK r \in rows : r.value = o.value /\ Holds(r, o.day)
    BY DEF IdRows
  <2>2. o.day \in Days
    BY DEF Observation, Corpora
  <2>3. o.day \in r.from..(r.to - 1)
    BY <1>1, <2>1, <2>2 DEF Holds, Days
  <2>4. <<r.value, o.day, r.sid, r.review>> \in ByDay(rows)
    BY <2>3 DEF ByDay
  <2>5. r.sid = OwnerOf(reg, o.value, o.day)
    BY <1>1, <2>1, <2>2 DEF Owned
  <2> QED
    BY <1>1, <2>1, <2>4, <2>5
<1> QED
  BY <1>2, <1>3

-----------------------------------------------------------------------------
(* The intervals of the lists: they hold each quarter's days for each      *)
(* identifier on its list, with the owner of the day.                      *)

LstRow(reg, listed, r) ==
    /\ r \in ListRow /\ r.from < r.to /\ Owned(reg, r)
    /\ r.quarter \in DOMAIN listed /\ r.value \in listed[r.quarter]
    /\ Quarter[r.quarter].from <= r.from /\ r.to <= Quarter[r.quarter].to

Listed(rows, q, list) ==
    \A v \in list : \A d \in Days : Holds(Quarter[q], d) =>
        \E r \in rows : r.quarter = q /\ r.value = v /\ Holds(r, d)

IsListed(listed) ==
    /\ DOMAIN listed \subseteq DOMAIN Lists
    /\ \A q \in DOMAIN listed : listed[q] \subseteq Values

LstRows(reg, rows, listed) ==
    /\ IsListed(listed)
    /\ \A r \in rows : LstRow(reg, listed, r)
    /\ \A q \in DOMAIN listed : Listed(rows, q, listed[q])

LstJudged(reg, rows) == \A r \in rows : r.review = reg.review[r.sid]

LEMMA QuarterIs ==
    ASSUME NEW q \in DOMAIN Lists
    PROVE  /\ Quarter[q].from \in Days /\ Quarter[q].to \in 1..(LastDay + 1)
           /\ Quarter[q].from < Quarter[q].to
BY ListAssumption

LEMMA CutKeepsLists ==
    ASSUME NEW old, NEW reg \in Registry, NEW rows, NEW listed, LstRows(old, rows, listed)
    PROVE  LstRows(reg, CutTable(reg, rows), listed)
<1> USE RegistryAssumption
<1>1. rows \in SUBSET (RawRow \cup RawListRow) /\ rows \in SUBSET RawListRow /\ Spans(rows)
  BY RowsAreRaw DEF LstRows, LstRow, Spans
<1>2. ASSUME NEW p \in CutTable(reg, rows) PROVE LstRow(reg, listed, p)
  <2>1. PICK r \in rows : \E q \in CutInterval(reg, r) : IsPieceOf(reg, p, q, r)
    BY <1>1, CutTableFrom
  <2>2. /\ r.from <= p.from /\ p.from < p.to /\ p.to <= r.to
        /\ p.value = r.value /\ Owned(reg, p) /\ p \in ListRow /\ p.quarter = r.quarter
    BY <1>1, <2>1 DEF IsPieceOf
  <2>3. /\ r.quarter \in DOMAIN listed /\ r.value \in listed[r.quarter]
        /\ Quarter[r.quarter].from <= r.from /\ r.to <= Quarter[r.quarter].to
        /\ r \in ListRow /\ DOMAIN listed \subseteq DOMAIN Lists
    BY DEF LstRows, LstRow, IsListed
  <2>4. /\ r.from \in Int /\ r.to \in Int /\ p.from \in Int /\ p.to \in Int
        /\ Quarter[r.quarter].from \in Int /\ Quarter[r.quarter].to \in Int
    BY <2>2, <2>3, QuarterIs DEF ListRow, Days
  <2> QED
    BY <2>2, <2>3, <2>4 DEF LstRow
<1>3. ASSUME NEW q \in DOMAIN listed, NEW v \in listed[q], NEW d \in Days,
             Holds(Quarter[q], d)
      PROVE  \E p \in CutTable(reg, rows) : p.quarter = q /\ p.value = v /\ Holds(p, d)
  <2>1. PICK r \in rows : r.quarter = q /\ r.value = v /\ Holds(r, d)
    BY <1>3 DEF LstRows, Listed
  <2>2. PICK p \in CutTable(reg, rows) : \E i \in CutInterval(reg, r) :
           IsPieceOf(reg, p, i, r) /\ Holds(p, d)
    BY <1>1, <2>1, CutTableCovers
  <2> QED
    BY <1>1, <2>1, <2>2 DEF IsPieceOf
<1> QED
  BY <1>2, <1>3 DEF LstRows, Listed

LEMMA ReviewsKeepLists ==
    ASSUME NEW reg \in Registry, NEW rows, NEW listed, LstRows(reg, rows, listed),
           NEW new, new = {[r EXCEPT !.review = reg.review[r.sid]] : r \in rows}
    PROVE  LstRows(reg, new, listed) /\ LstJudged(reg, new)
<1>1. ASSUME NEW r \in rows, NEW p, p = [r EXCEPT !.review = reg.review[r.sid]]
      PROVE  /\ p \in ListRow /\ p.from = r.from /\ p.to = r.to /\ p.value = r.value
             /\ p.quarter = r.quarter /\ p.sid = r.sid /\ p.review = reg.review[r.sid]
  <2>1. r \in ListRow
    BY DEF LstRows, LstRow
  <2>2. reg.review[r.sid] \in Reviews
    BY <2>1 DEF ListRow, Registry
  <2> QED
    BY <1>1, <2>1, <2>2 DEF ListRow
<1>2. ASSUME NEW p \in new PROVE LstRow(reg, listed, p) /\ p.review = reg.review[p.sid]
  <2>1. PICK r \in rows : p = [r EXCEPT !.review = reg.review[r.sid]]
    OBVIOUS
  <2>2. /\ p \in ListRow /\ p.from = r.from /\ p.to = r.to /\ p.value = r.value
        /\ p.quarter = r.quarter /\ p.sid = r.sid /\ p.review = reg.review[r.sid]
    BY <1>1, <2>1
  <2>3. LstRow(reg, listed, r)
    BY DEF LstRows
  <2> QED
    BY <2>2, <2>3 DEF LstRow, Owned, Holds
<1>3. ASSUME NEW q \in DOMAIN listed, NEW v \in listed[q], NEW d \in Days,
             Holds(Quarter[q], d)
      PROVE  \E p \in new : p.quarter = q /\ p.value = v /\ Holds(p, d)
  <2>1. PICK r \in rows : r.quarter = q /\ r.value = v /\ Holds(r, d)
    BY <1>3 DEF LstRows, Listed
  <2>2. [r EXCEPT !.review = reg.review[r.sid]] \in new
    OBVIOUS
  <2> QED
    BY <1>1, <2>1, <2>2 DEF Holds
<1> QED
  BY <1>2, <1>3 DEF LstRows, Listed, LstJudged

(* One list's rows (list13f_seed.py 135-200).                              *)
LEMMA ListRowsAre ==
    ASSUME NEW reg \in Registry, NEW q \in DOMAIN Lists, NEW list \in SUBSET Values
    PROVE  /\ \A r \in ListRows(reg, q, list) :
                 /\ r \in ListRow /\ r.from < r.to /\ Owned(reg, r)
                 /\ r.quarter = q /\ r.value \in list
                 /\ Quarter[q].from <= r.from /\ r.to <= Quarter[q].to
                 /\ r.review = reg.review[r.sid]
           /\ Listed(ListRows(reg, q, list), q, list)
<1> USE RegistryAssumption
<1> DEFINE Bare(v) == [sid |-> None, value |-> v, from |-> Quarter[q].from,
                       to |-> Quarter[q].to, review |-> "auto", quarter |-> q]
           raw == {Bare(v) : v \in list}
           new == ListRows(reg, q, list)
<1>1. new = CutTable(reg, raw)
  BY DEF ListRows
<1>2. ASSUME NEW v \in list
      PROVE  /\ Bare(v) \in raw /\ Bare(v) \in RawListRow /\ Bare(v).from < Bare(v).to
             /\ Bare(v).value = v /\ Bare(v).quarter = q
             /\ Bare(v).from = Quarter[q].from /\ Bare(v).to = Quarter[q].to
             /\ Bare(v).sid = None
  <2>1. Bare(v) \in RawListRow
    BY QuarterIs DEF RawListRow, Reviews
  <2> QED
    BY <2>1, QuarterIs
<1>3. \A r \in raw : \E v \in list : r = Bare(v)
  OBVIOUS
<1> HIDE DEF raw, Bare
<1>4. raw \in SUBSET (RawRow \cup RawListRow) /\ raw \in SUBSET RawListRow /\ Spans(raw)
  BY <1>2, <1>3 DEF Spans
<1>5. None \notin SecurityIds
  <2>1. SecurityIds \subseteq STRING
    BY DEF SecurityIds, Range
  <2> QED
    BY <2>1, NoneAssumption
<1>6. ASSUME NEW p \in new
      PROVE  /\ p \in ListRow /\ p.from < p.to /\ Owned(reg, p)
             /\ p.quarter = q /\ p.value \in list
             /\ Quarter[q].from <= p.from /\ p.to <= Quarter[q].to
             /\ p.review = reg.review[p.sid]
  <2>1. PICK r \in raw : p \in (IF CutInterval(reg, r) = {r} THEN {r}
                                ELSE Verdicts(reg, CutInterval(reg, r)))
    BY <1>1 DEF CutTable, Verdicts
  <2>2. PICK v \in list : r = Bare(v)
    BY <1>3
  <2>3. CutInterval(reg, r) # {r}
    <3> SUFFICES ASSUME r \in CutInterval(reg, r) PROVE FALSE
      OBVIOUS
    <3>1. r \in ListRow
      BY <1>4, Piece DEF Spans
    <3> QED
      BY <1>2, <1>5, <2>2, <3>1 DEF ListRow
  <2>4. PICK i \in CutInterval(reg, r) : p = [i EXCEPT !.review = reg.review[i.sid]]
    BY <2>1, <2>3 DEF Verdicts
  <2>5. IsPieceOf(reg, p, i, r)
    BY <1>4, <2>4, CutRow DEF Spans
  <2>6. p \in ListRow /\ p.quarter = r.quarter /\ p.sid = i.sid
    BY <1>4, <2>5 DEF IsPieceOf
  <2>7. p.review = reg.review[i.sid]
    <3>1. i \in ListRow
      BY <1>4, Piece DEF Spans
    <3> QED
      BY <2>4, <3>1 DEF ListRow
  <2> QED
    BY <1>2, <2>2, <2>5, <2>6, <2>7 DEF IsPieceOf
<1>7. ASSUME NEW v \in list, NEW d \in Days, Holds(Quarter[q], d)
      PROVE  \E p \in new : p.quarter = q /\ p.value = v /\ Holds(p, d)
  <2>1. Holds(Bare(v), d)
    BY <1>2, <1>7 DEF Holds
  <2>2. PICK p \in CutTable(reg, raw) : \E i \in CutInterval(reg, Bare(v)) :
           IsPieceOf(reg, p, i, Bare(v)) /\ Holds(p, d)
    BY <1>2, <1>4, <2>1, CutTableCovers
  <2> QED
    BY <1>1, <1>2, <2>2 DEF IsPieceOf
<1> HIDE DEF new
<1> QED
  BY <1>6, <1>7 DEF Listed, new

KeptLists(s, q, list) ==
    IF q \in DOMAIN s.listed => s.listed[q] = list THEN s.lists
    ELSE {r \in s.lists : r.quarter # q}

NewLists(reg, s, q, list) ==
    {r \in ListRows(reg, q, list) :
        ~ \E k \in KeptLists(s, q, list) : k.value = r.value /\ k.from = r.from}

ListsAfter(reg, s, q, list) == KeptLists(s, q, list) \cup NewLists(reg, s, q, list)

ListedAfter(s, q, list) ==
    [p \in {q} \cup DOMAIN s.listed |-> IF p = q THEN list ELSE s.listed[p]]

ListLinks(reg, s, q, list) ==
    [x \in {r.sid : r \in ListRows(reg, q, list)} \cup Stored(s) |->
        IF x \in Stored(s) THEN s.links[x] ELSE {}]

LEMMA ListStore ==
    ASSUME NEW reg, NEW s, IsStore(s), NEW q, NEW list
    PROVE  Bootstrap13fList(reg, s, q, list) =
             [ids |-> s.ids, lists |-> ListsAfter(reg, s, q, list),
              links |-> ListLinks(reg, s, q, list), ledger |-> s.ledger,
              holdings |-> s.holdings, listed |-> ListedAfter(s, q, list)]
<1> DEFINE known == EnsureSecurity(s, {r.sid : r \in ListRows(reg, q, list)})
           lists == ListsAfter(reg, s, q, list)
           listed == [p \in {q} \cup DOMAIN known.listed |->
                        IF p = q THEN list ELSE known.listed[p]]
           new == Bootstrap13fList(reg, s, q, list)
<1>1. known = [ids |-> s.ids, lists |-> s.lists, links |-> ListLinks(reg, s, q, list),
               ledger |-> s.ledger, holdings |-> s.holdings, listed |-> s.listed]
  BY WithLinks DEF EnsureSecurity, ListLinks
<1>2. new = [known EXCEPT !.lists = lists, !.listed = listed]
  BY DEF Bootstrap13fList, ListsAfter, KeptLists, NewLists
<1>3. new = [ids |-> s.ids, lists |-> lists, links |-> ListLinks(reg, s, q, list),
             ledger |-> s.ledger, holdings |-> s.holdings, listed |-> listed]
  <2> HIDE DEF new, lists, listed, known
  <2> QED
    BY <1>1, <1>2
<1>4. listed = ListedAfter(s, q, list)
  <2> HIDE DEF known
  <2> QED
    BY <1>1 DEF ListedAfter
<1> HIDE DEF new, lists, listed, known
<1> QED
  BY <1>3, <1>4 DEF new, lists

LEMMA ListsHold ==
    ASSUME NEW reg \in Registry, NEW s, LstRows(reg, s.lists, s.listed),
           LstJudged(reg, s.lists), NEW q \in DOMAIN Lists, NEW list \in SUBSET Values
    PROVE  /\ LstRows(reg, ListsAfter(reg, s, q, list), ListedAfter(s, q, list))
           /\ LstJudged(reg, ListsAfter(reg, s, q, list))
<1> USE RegistryAssumption
<1> DEFINE kept == KeptLists(s, q, list)
           lists == ListsAfter(reg, s, q, list)
           listed == ListedAfter(s, q, list)
           rows == ListRows(reg, q, list)
<1>1. IsListed(s.listed) /\ IsListed(listed)
  BY DEF LstRows, IsListed, ListedAfter
<1>2. ASSUME NEW r \in s.lists PROVE LstRow(reg, s.listed, r) /\ r.review = reg.review[r.sid]
  BY DEF LstRows, LstJudged
<1>3. ASSUME NEW r \in kept
      PROVE  /\ r \in s.lists
             /\ r.quarter # q \/ (q \in DOMAIN s.listed /\ s.listed[q] = list)
  <2>1. r \in s.lists
    BY DEF KeptLists
  <2>2. r.quarter \in DOMAIN s.listed
    BY <1>2, <2>1 DEF LstRow
  <2> QED
    BY <2>1, <2>2 DEF KeptLists
<1>4. ASSUME NEW r \in kept PROVE LstRow(reg, listed, r) /\ r.review = reg.review[r.sid]
  <2>1. LstRow(reg, s.listed, r) /\ r.review = reg.review[r.sid]
    BY <1>2, <1>3
  <2>2. r.quarter \in DOMAIN listed /\ listed[r.quarter] = s.listed[r.quarter]
    BY <1>3, <2>1 DEF ListedAfter, LstRow
  <2> HIDE DEF listed
  <2> QED
    BY <2>1, <2>2 DEF LstRow
<1>5. ASSUME NEW r \in rows PROVE LstRow(reg, listed, r) /\ r.review = reg.review[r.sid]
  <2>1. /\ r \in ListRow /\ r.from < r.to /\ Owned(reg, r)
        /\ r.quarter = q /\ r.value \in list
        /\ Quarter[q].from <= r.from /\ r.to <= Quarter[q].to
        /\ r.review = reg.review[r.sid]
    BY ListRowsAre
  <2>2. q \in DOMAIN listed /\ listed[q] = list
    BY DEF ListedAfter
  <2> HIDE DEF listed
  <2> QED
    BY <2>1, <2>2 DEF LstRow
<1>6. ASSUME NEW p \in DOMAIN listed, NEW v \in listed[p], NEW d \in Days,
             Holds(Quarter[p], d)
      PROVE  \E r \in lists : r.quarter = p /\ r.value = v /\ Holds(r, d)
  <2>1. CASE p # q
    <3>1. p \in DOMAIN s.listed /\ v \in s.listed[p]
      BY <2>1 DEF ListedAfter
    <3>2. PICK r \in s.lists : r.quarter = p /\ r.value = v /\ Holds(r, d)
      BY <1>6, <3>1 DEF LstRows, Listed
    <3>3. r \in kept
      BY <2>1, <3>2 DEF KeptLists
    <3> QED
      BY <3>2, <3>3 DEF ListsAfter
  <2>2. CASE p = q /\ q \in DOMAIN s.listed /\ s.listed[q] = list
    <3>1. v \in s.listed[p]
      BY <2>2 DEF ListedAfter
    <3>2. PICK r \in s.lists : r.quarter = p /\ r.value = v /\ Holds(r, d)
      BY <1>6, <2>2, <3>1 DEF LstRows, Listed
    <3>3. r \in kept
      BY <2>2 DEF KeptLists
    <3> QED
      BY <3>2, <3>3 DEF ListsAfter
  <2>3. CASE p = q /\ ~(q \in DOMAIN s.listed /\ s.listed[q] = list)
    <3>1. v \in list
      BY <2>3 DEF ListedAfter
    <3>2. PICK r \in rows : r.quarter = q /\ r.value = v /\ Holds(r, d)
      BY <1>6, <2>3, <3>1, ListRowsAre DEF Listed
    <3>3. ASSUME NEW k \in kept PROVE k.from # r.from
      <4>1. LstRow(reg, s.listed, k) /\ k.quarter # q
        BY <1>2, <1>3, <2>3
      <4>2. k.quarter \in DOMAIN Lists /\ k.from \in Int /\ k.to \in Int
        BY <4>1 DEF LstRow, ListRow, Days
      <4>3. /\ Quarter[q].from <= r.from /\ r.to <= Quarter[q].to /\ r.from < r.to
            /\ r.from \in Int /\ r.to \in Int
        BY ListRowsAre DEF ListRow, Days
      <4>4. Quarter[q].to <= Quarter[k.quarter].from \/ Quarter[k.quarter].to <= Quarter[q].from
        BY <4>1, <4>2, ListAssumption
      <4>5. /\ Quarter[q].to \in Int /\ Quarter[k.quarter].from \in Int
            /\ Quarter[k.quarter].to \in Int /\ Quarter[q].from \in Int
        BY <4>2, QuarterIs DEF Days
      <4>6. /\ Quarter[k.quarter].from <= k.from /\ k.from < k.to
            /\ k.to <= Quarter[k.quarter].to
        BY <4>1 DEF LstRow
      <4> QED
        BY <4>2, <4>3, <4>4, <4>5, <4>6
    <3>4. r \in lists
      BY <3>3 DEF ListsAfter, NewLists
    <3> QED
      BY <2>3, <3>2, <3>4
  <2> QED
    BY <2>1, <2>2, <2>3
<1>7. \A r \in lists : r \in kept \/ r \in rows
  BY DEF ListsAfter, NewLists
<1> HIDE DEF lists, listed, kept, rows
<1> QED
  BY <1>1, <1>4, <1>5, <1>6, <1>7 DEF LstRows, LstJudged, Listed, lists, listed

(* What the lists say each day.                                            *)
LEMMA ListsSay ==
    ASSUME NEW reg \in Registry, NEW rows, NEW listed, LstRows(reg, rows, listed),
           LstJudged(reg, rows)
    PROVE  \A e : e \in ByDay(rows) <=>
             \E q \in DOMAIN listed : \E v \in listed[q] : \E d \in Days :
                 /\ Holds(Quarter[q], d)
                 /\ e = <<v, d, OwnerOf(reg, v, d), reg.review[OwnerOf(reg, v, d)]>>
<1> USE RegistryAssumption
<1>1. ASSUME NEW e \in ByDay(rows)
      PROVE  \E q \in DOMAIN listed : \E v \in listed[q] : \E d \in Days :
                 /\ Holds(Quarter[q], d)
                 /\ e = <<v, d, OwnerOf(reg, v, d), reg.review[OwnerOf(reg, v, d)]>>
  <2>1. PICK r \in rows : \E d \in r.from..(r.to - 1) : e = <<r.value, d, r.sid, r.review>>
    BY <1>1 DEF ByDay
  <2>2. PICK d \in r.from..(r.to - 1) : e = <<r.value, d, r.sid, r.review>>
    BY <2>1
  <2>3. LstRow(reg, listed, r) /\ r.review = reg.review[r.sid]
    BY DEF LstRows, LstJudged
  <2>4. r.from \in Days /\ r.to \in 1..(LastDay + 1) /\ r.quarter \in DOMAIN Lists
    BY <2>3 DEF LstRow, ListRow
  <2>5. d \in Days /\ Holds(r, d)
    BY <2>2, <2>4 DEF Days, Holds
  <2>6. OwnerOf(reg, r.value, d) = r.sid
    BY <2>3, <2>5 DEF LstRow, Owned
  <2>7. Holds(Quarter[r.quarter], d)
    <3>1. Quarter[r.quarter].from \in Days /\ Quarter[r.quarter].to \in 1..(LastDay + 1)
      BY <2>4, QuarterIs
    <3>2. Quarter[r.quarter].from <= r.from /\ r.to <= Quarter[r.quarter].to
      BY <2>3 DEF LstRow
    <3> QED
      BY <2>4, <2>5, <3>1, <3>2 DEF Holds, Days
  <2>8. r.quarter \in DOMAIN listed /\ r.value \in listed[r.quarter]
    BY <2>3 DEF LstRow
  <2> QED
    BY <2>2, <2>3, <2>5, <2>6, <2>7, <2>8
<1>2. ASSUME NEW q \in DOMAIN listed, NEW v \in listed[q], NEW d \in Days,
             Holds(Quarter[q], d)
      PROVE  <<v, d, OwnerOf(reg, v, d), reg.review[OwnerOf(reg, v, d)]>> \in ByDay(rows)
  <2>1. PICK r \in rows : r.quarter = q /\ r.value = v /\ Holds(r, d)
    BY <1>2 DEF LstRows, Listed
  <2>2. LstRow(reg, listed, r) /\ r.review = reg.review[r.sid]
    BY DEF LstRows, LstJudged
  <2>3. r.from \in Days /\ r.to \in 1..(LastDay + 1)
    BY <2>2 DEF LstRow, ListRow
  <2>4. d \in r.from..(r.to - 1)
    BY <2>1, <2>3 DEF Holds, Days
  <2>5. <<r.value, d, r.sid, r.review>> \in ByDay(rows)
    BY <2>4 DEF ByDay
  <2>6. r.sid = OwnerOf(reg, v, d)
    BY <2>1, <2>2 DEF LstRow, Owned
  <2> QED
    BY <2>1, <2>2, <2>5, <2>6
<1> QED
  BY <1>1, <1>2

LEMMA ListsSayTheSame ==
    ASSUME NEW reg \in Registry, NEW rows, NEW listed, LstRows(reg, rows, listed),
           LstJudged(reg, rows)
    PROVE  ByDay(rows) = ByDay(UNION {ListRows(reg, q, listed[q]) : q \in DOMAIN listed})
<1> DEFINE clean == UNION {ListRows(reg, q, listed[q]) : q \in DOMAIN listed}
<1>1. \A r \in clean : \E q \in DOMAIN listed : r \in ListRows(reg, q, listed[q])
  OBVIOUS
<1>2. \A q \in DOMAIN listed : \A r \in ListRows(reg, q, listed[q]) : r \in clean
  OBVIOUS
<1> HIDE DEF clean
<1>3. IsListed(listed)
  BY DEF LstRows
<1>4. ASSUME NEW q \in DOMAIN listed
      PROVE  /\ \A r \in ListRows(reg, q, listed[q]) :
                   LstRow(reg, listed, r) /\ r.review = reg.review[r.sid]
             /\ Listed(ListRows(reg, q, listed[q]), q, listed[q])
  <2>1. q \in DOMAIN Lists /\ listed[q] \in SUBSET Values
    BY <1>3 DEF IsListed
  <2> QED
    BY <2>1, ListRowsAre DEF LstRow
<1>5. LstRows(reg, clean, listed)
  <2>1. \A r \in clean : LstRow(reg, listed, r)
    BY <1>1, <1>4
  <2>2. \A q \in DOMAIN listed : Listed(clean, q, listed[q])
    BY <1>2, <1>4 DEF Listed
  <2> QED
    BY <1>3, <2>1, <2>2 DEF LstRows
<1>6. LstJudged(reg, clean)
  BY <1>1, <1>4 DEF LstJudged
<1> DEFINE Said(e) == \E q \in DOMAIN listed : \E v \in listed[q] : \E d \in Days :
                 /\ Holds(Quarter[q], d)
                 /\ e = <<v, d, OwnerOf(reg, v, d), reg.review[OwnerOf(reg, v, d)]>>
<1>7. \A e : e \in ByDay(rows) <=> Said(e)
  BY ListsSay
<1>8. \A e : e \in ByDay(clean) <=> Said(e)
  BY <1>5, <1>6, ListsSay
<1> HIDE DEF Said
<1> QED
  BY <1>7, <1>8 DEF clean

-----------------------------------------------------------------------------
(* Recursion over an interval, once as a fact about sets.                  *)

LEMMA Climb ==
    ASSUME NEW N \in Nat, NEW S, 0 \in S, \A n \in 1..N : n - 1 \in S => n \in S
    PROVE  \A n \in 0..N : n \in S
<1> DEFINE out == {n \in 0..N : n \notin S}
<1> SUFFICES ASSUME out # {} PROVE FALSE
  OBVIOUS
<1>1. Min(out) \in out /\ \A y \in out : Min(out) <= y
  <2>1. out \in SUBSET Nat
    OBVIOUS
  <2> HIDE DEF out
  <2> QED
    BY <2>1, MinInSet
<1>2. Min(out) \in 1..N /\ Min(out) - 1 \in 0..N
  BY <1>1
<1>3. Min(out) - 1 \notin out
  BY <1>1, <1>2
<1> QED
  BY <1>1, <1>2, <1>3

(* f goes through step[1], ..., step[N], beginning with base.              *)
IsFold(f, N, T, base, step) ==
    /\ f \in [0..N -> T] /\ f[0] = base
    /\ \A n \in 1..N : f[n] = step[n][f[n - 1]]

LEMMA FoldExists ==
    ASSUME NEW N \in Nat, NEW T, NEW base \in T, NEW step \in [1..N -> [T -> T]]
    PROVE  \E f : IsFold(f, N, T, base, step)
<1> DEFINE S == {n \in 0..N : \E f : IsFold(f, n, T, base, step)}
<1>1. 0 \in S
  <2>1. IsFold([n \in 0..0 |-> base], 0, T, base, step)
    BY DEF IsFold
  <2> QED
    BY <2>1
<1>2. ASSUME NEW n \in 1..N, n - 1 \in S PROVE n \in S
  <2>1. PICK f : IsFold(f, n - 1, T, base, step)
    BY <1>2
  <2> DEFINE g == [m \in 0..n |-> IF m = n THEN step[n][f[n - 1]] ELSE f[m]]
  <2>2. f[n - 1] \in T /\ step[n] \in [T -> T]
    BY <2>1 DEF IsFold
  <2>3. g \in [0..n -> T]
    BY <2>1, <2>2 DEF IsFold
  <2>4. g[0] = base
    BY <2>1 DEF IsFold
  <2>5. ASSUME NEW m \in 1..n PROVE g[m] = step[m][g[m - 1]]
    <3>1. m = n \/ m \in 1..(n - 1)
      OBVIOUS
    <3>2. g[m - 1] = f[m - 1]
      OBVIOUS
    <3> QED
      BY <2>1, <3>1, <3>2 DEF IsFold
  <2>6. IsFold(g, n, T, base, step)
    <3> HIDE DEF g
    <3> QED
      BY <2>3, <2>4, <2>5 DEF IsFold
  <2> QED
    BY <2>6
<1>3. N \in S
  <2> HIDE DEF S
  <2>1. \A n \in 1..N : n - 1 \in S => n \in S
    BY <1>2
  <2>2. \A n \in 0..N : n \in S
    BY <1>1, <2>1, Climb
  <2> QED
    BY <2>2
<1> QED
  BY <1>3

LEMMA FoldKeeps ==
    ASSUME NEW N \in Nat, NEW T, NEW base, NEW step, NEW f, IsFold(f, N, T, base, step),
           NEW Good, base \in Good, \A n \in 1..N : \A t \in Good : step[n][t] \in Good
    PROVE  f[N] \in Good
<1> DEFINE S == {n \in 0..N : f[n] \in Good}
<1>1. 0 \in S
  BY DEF IsFold
<1>2. ASSUME NEW n \in 1..N, n - 1 \in S PROVE n \in S
  <2>1. f[n] = step[n][f[n - 1]] /\ f[n - 1] \in Good
    BY <1>2 DEF IsFold
  <2> QED
    BY <2>1
<1>3. N \in S
  <2> HIDE DEF S
  <2>1. \A n \in 1..N : n - 1 \in S => n \in S
    BY <1>2
  <2>2. \A n \in 0..N : n \in S
    BY <1>1, <2>1, Climb
  <2> QED
    BY <2>2
<1> QED
  BY <1>3

(* What one step establishes and the others keep holds in the end.         *)
Reaches(step, N, Good, Done, k) ==
    /\ \A n \in 1..N : \A t \in Good : step[n][t] \in Good
    /\ k \in 1..N /\ \A t \in Good : step[k][t] \in Done
    /\ \A n \in 1..N : \A t \in Good \cap Done : step[n][t] \in Done

LEMMA FoldReaches ==
    ASSUME NEW N \in Nat, NEW T, NEW base, NEW step, NEW f, IsFold(f, N, T, base, step),
           NEW Good, base \in Good, NEW Done, NEW k, Reaches(step, N, Good, Done, k)
    PROVE  f[N] \in Good \cap Done
<1> USE DEF Reaches
<1> DEFINE S == {n \in 0..N : f[n] \in Good /\ (n >= k => f[n] \in Done)}
<1>1. 0 \in S
  BY DEF IsFold
<1>2. ASSUME NEW n \in 1..N, n - 1 \in S PROVE n \in S
  <2>1. f[n] = step[n][f[n - 1]] /\ f[n - 1] \in Good
    BY <1>2 DEF IsFold
  <2>2. f[n] \in Good
    BY <2>1
  <2>3. n = k => f[n] \in Done
    BY <2>1
  <2>4. n > k => f[n] \in Done
    <3> SUFFICES ASSUME n > k PROVE f[n] \in Done
      OBVIOUS
    <3>1. f[n - 1] \in Good \cap Done
      BY <1>2, <2>1
    <3> QED
      BY <2>1, <3>1
  <2> QED
    BY <2>2, <2>3, <2>4
<1>3. N \in S
  <2> HIDE DEF S
  <2>1. \A n \in 1..N : n - 1 \in S => n \in S
    BY <1>2
  <2>2. \A n \in 0..N : n \in S
    BY <1>1, <2>1, Climb
  <2> QED
    BY <2>2
<1> QED
  BY <1>3

-----------------------------------------------------------------------------
(* The destinations of what is stored (registry.py 1683-1712).             *)

LEMMA SecurityIdsFinite == IsFiniteSet(SecurityIds)
<1> USE RegistryAssumption
<1>1. Order \in [1..Len(Order) -> STRING] /\ Len(Order) \in Nat /\ DOMAIN Order = 1..Len(Order)
  OBVIOUS
<1>2. Order \in Surjection(1..Len(Order), SecurityIds)
  <2>1. Order \in [1..Len(Order) -> SecurityIds]
    BY <1>1 DEF SecurityIds, Range
  <2>2. \A x \in SecurityIds : \E n \in 1..Len(Order) : Order[n] = x
    BY <1>1 DEF SecurityIds, Range
  <2> QED
    BY <2>1, <2>2 DEF Surjection
<1>3. IsFiniteSet(1..Len(Order))
  BY <1>1, FS_Interval
<1> QED
  BY <1>2, <1>3, FS_Surjection

(* Every security goes somewhere.                                          *)
IsPlan(dest) ==
    \A x \in DOMAIN dest : /\ x \in SecurityIds /\ dest[x] \in SUBSET SecurityIds
                           /\ dest[x] # {}

(* A security stays, is renamed to one other, or is split.                 *)
LEMMA Fates ==
    ASSUME NEW dest, IsPlan(dest)
    PROVE  /\ \A x \in DOMAIN dest : dest[x] = {x} \/ x \in Renamed(dest) \/ x \in Split(dest)
           /\ \A x \in Renamed(dest) : /\ x \in DOMAIN dest /\ x \in SecurityIds
                                       /\ NewId(dest, x) \in SecurityIds
                                       /\ dest[x] = {NewId(dest, x)} /\ NewId(dest, x) # x
                                       /\ NewId(dest, x) \in Receivers(dest)
                                       /\ x \notin Split(dest)
           /\ \A x \in Split(dest) : /\ x \in DOMAIN dest /\ x \in SecurityIds
                                     /\ dest[x] # {} /\ dest[x] # {x}
                                     /\ dest[x] \subseteq Receivers(dest)
           /\ Receivers(dest) \subseteq SecurityIds
<1>1. ASSUME NEW x \in DOMAIN dest
      PROVE  IsFiniteSet(dest[x]) /\ Cardinality(dest[x]) \in Nat
             /\ Cardinality(dest[x]) # 0
  <2>1. IsFiniteSet(dest[x])
    BY SecurityIdsFinite, FS_Subset DEF IsPlan
  <2> QED
    BY <2>1, FS_CardinalityType, FS_EmptySet DEF IsPlan
<1>2. ASSUME NEW x \in Renamed(dest)
      PROVE  /\ x \in DOMAIN dest /\ x \in SecurityIds
             /\ NewId(dest, x) \in SecurityIds
             /\ dest[x] = {NewId(dest, x)} /\ NewId(dest, x) # x
             /\ NewId(dest, x) \in Receivers(dest) /\ x \notin Split(dest)
  <2>1. x \in DOMAIN dest /\ dest[x] # {x} /\ Cardinality(dest[x]) = 1
    BY DEF Renamed
  <2>2. PICK y : dest[x] = {y}
    BY <1>1, <2>1, FS_Singleton
  <2>3. NewId(dest, x) = y
    BY <2>2 DEF NewId
  <2>4. y \in Receivers(dest)
    BY <2>2 DEF Receivers
  <2>5. x \notin Split(dest)
    BY <2>1 DEF Split
  <2> QED
    BY <2>1, <2>2, <2>3, <2>4, <2>5 DEF IsPlan
<1>3. ASSUME NEW x \in Split(dest)
      PROVE  /\ x \in DOMAIN dest /\ x \in SecurityIds /\ dest[x] # {} /\ dest[x] # {x}
             /\ dest[x] \subseteq Receivers(dest)
  <2>1. x \in DOMAIN dest /\ Cardinality(dest[x]) > 1
    BY DEF Split
  <2>2. dest[x] # {x}
    BY <2>1, FS_Singleton
  <2> QED
    BY <2>1, <2>2 DEF IsPlan, Receivers
<1>4. ASSUME NEW x \in DOMAIN dest, dest[x] # {x}, x \notin Split(dest)
      PROVE  x \in Renamed(dest)
  <2>1. Cardinality(dest[x]) = 1
    BY <1>1, <1>4 DEF Split
  <2> QED
    BY <1>4, <2>1 DEF Renamed
<1>5. Receivers(dest) \subseteq SecurityIds
  BY DEF Receivers, Renamed, Split, IsPlan
<1> QED
  BY <1>2, <1>3, <1>4, <1>5

-----------------------------------------------------------------------------
(* What a rename and a split make of each part of the store.               *)

RepointLedger(t, old, new) ==
    {l \in {IF l[2] = old THEN <<l[1], new>> ELSE l : l \in t.ledger} : l[1] # l[2]}

RenameLedger(t, dest, old) ==
    RepointLedger(t, old, NewId(dest, old))
       \cup (IF old \in Receivers(dest) THEN {} ELSE {<<old, NewId(dest, old)>>})

RenameLinks(t, dest, links, old) ==
    IF old \in Receivers(dest) THEN t.links
    ELSE [[x \in Stored(t) \ {old} |-> t.links[x]]
             EXCEPT ![NewId(dest, old)] = @ \cup links[old]]

RenameHoldings(t, dest, old) ==
    [h \in Holdings |-> IF t.holdings[h] = old THEN NewId(dest, old) ELSE t.holdings[h]]

FanLedger(t, dest, old) ==
    {l \in t.ledger : l[2] # old}
       \cup {l \in ({l[1] : l \in {l \in t.ledger : l[2] = old}} \cup {old}) \X dest[old] :
                l[1] # l[2]}

SplitLedger(t, dest, old) == IF old \in dest[old] THEN t.ledger ELSE FanLedger(t, dest, old)

SplitLinks(t, dest, old) ==
    IF old \in dest[old] \/ old \in Receivers(dest) THEN t.links
    ELSE [x \in Stored(t) \ {old} |-> t.links[x]]

SplitHoldings(t, old) ==
    [h \in Holdings |-> IF t.holdings[h] = old THEN ResolveCusip(t, h[1], h[2])
                        ELSE t.holdings[h]]

LEMMA WithLinksAndLedger ==
    ASSUME NEW s, IsStore(s), NEW l, NEW m
    PROVE  [s EXCEPT !.links = l, !.ledger = m] =
             [ids |-> s.ids, lists |-> s.lists, links |-> l, ledger |-> m,
              holdings |-> s.holdings, listed |-> s.listed]
<1> DEFINE all == {"ids", "lists", "links", "ledger", "holdings", "listed"}
           a == [s EXCEPT !.links = l, !.ledger = m]
           b == [ids |-> s.ids, lists |-> s.lists, links |-> l, ledger |-> m,
              holdings |-> s.holdings, listed |-> s.listed]
<1>1. DOMAIN s = all /\ s = [f \in DOMAIN s |-> s[f]]
  BY DEF IsStore
<1>2. DOMAIN a = all /\ a = [f \in all |-> a[f]]
  BY <1>1
<1>3. DOMAIN b = all /\ b = [f \in all |-> b[f]]
  OBVIOUS
<1>4. \A f \in all : a[f] = b[f]
  <2>1. a.ids = b.ids /\ a.lists = b.lists /\ a.links = b.links
    BY <1>1
  <2>2. a.ledger = b.ledger
    BY <1>1
  <2>3. a.holdings = b.holdings /\ a.listed = b.listed
    BY <1>1
  <2> HIDE DEF a, b
  <2> QED
    BY <2>1, <2>2, <2>3
<1> HIDE DEF a, b, all
<1>5. a = b
  BY <1>2, <1>3, <1>4
<1> QED
  BY <1>5 DEF a, b

LEMMA RetireIs ==
    ASSUME NEW t, IsStore(t), NEW old
    PROVE  Retire(t, old) =
             [ids |-> t.ids, lists |-> t.lists,
              links |-> [x \in Stored(t) \ {old} |-> t.links[x]],
              ledger |-> t.ledger, holdings |-> t.holdings, listed |-> t.listed]
<1> DEFINE l == [x \in Stored(t) \ {old} |-> t.links[x]]
<1>1. Retire(t, old) = [t EXCEPT !.links = l]
  BY DEF Retire
<1> HIDE DEF l
<1>2. [t EXCEPT !.links = l] =
             [ids |-> t.ids, lists |-> t.lists, links |-> l,
              ledger |-> t.ledger, holdings |-> t.holdings, listed |-> t.listed]
  BY WithLinks
<1> QED
  BY <1>1, <1>2 DEF l

LEMMA RenameIs ==
    ASSUME NEW t, IsStore(t), NEW dest, NEW links, NEW old
    PROVE  Rename(t, dest, links, old) =
             [ids |-> t.ids, lists |-> t.lists, links |-> RenameLinks(t, dest, links, old),
              ledger |-> RenameLedger(t, dest, old),
              holdings |-> RenameHoldings(t, dest, old), listed |-> t.listed]
<1> DEFINE new == NewId(dest, old)
           moved == Repoint(t, old, new)
           gone == Retire(moved, old)
           l == RepointLedger(t, old, new)
           h == RenameHoldings(t, dest, old)
<1>1. moved = [ids |-> t.ids, lists |-> t.lists, links |-> t.links, ledger |-> l,
               holdings |-> h, listed |-> t.listed]
  <2>1. moved = [t EXCEPT !.holdings = h, !.ledger = l]
    BY DEF Repoint, RepointLedger, RenameHoldings
  <2> HIDE DEF moved, l, h
  <2> QED
    BY <2>1 DEF IsStore
<1> HIDE DEF moved, l, h
<1>2. IsStore(moved) /\ Stored(moved) = Stored(t)
  BY <1>1 DEF IsStore, Stored
<1>3. gone = [ids |-> t.ids, lists |-> t.lists,
              links |-> [x \in Stored(t) \ {old} |-> t.links[x]], ledger |-> l,
              holdings |-> h, listed |-> t.listed]
  BY <1>1, <1>2, RetireIs
<1> DEFINE g == [x \in Stored(t) \ {old} |-> t.links[x]]
           k == [g EXCEPT ![new] = @ \cup links[old]]
<1>4. Rename(t, dest, links, old) =
        IF old \in Receivers(dest) THEN moved
        ELSE [gone EXCEPT !.links[new] = @ \cup links[old],
                          !.ledger = @ \cup {<<old, new>>}]
  BY DEF Rename, moved
<1> HIDE DEF gone
<1>5. [gone EXCEPT !.links[new] = @ \cup links[old], !.ledger = @ \cup {<<old, new>>}]
        = [ids |-> t.ids, lists |-> t.lists, links |-> k, ledger |-> l \cup {<<old, new>>},
           holdings |-> h, listed |-> t.listed]
  <2>1. gone.links = g /\ gone.ledger = l
    BY <1>3
  <2>2. [gone EXCEPT !.links[new] = @ \cup links[old], !.ledger = @ \cup {<<old, new>>}]
          = [gone EXCEPT !.links = k, !.ledger = l \cup {<<old, new>>}]
    BY <2>1
  <2> HIDE DEF k
  <2>3. [gone EXCEPT !.links = k, !.ledger = l \cup {<<old, new>>}]
          = [ids |-> t.ids, lists |-> t.lists, links |-> k, ledger |-> l \cup {<<old, new>>},
           holdings |-> h, listed |-> t.listed]
    <3> DEFINE m == l \cup {<<old, new>>}
    <3> HIDE DEF m
    <3>1. [gone EXCEPT !.links = k, !.ledger = m]
          = [ids |-> t.ids, lists |-> t.lists, links |-> k, ledger |-> m,
             holdings |-> h, listed |-> t.listed]
      <4>1. /\ IsStore(gone) /\ gone.ids = t.ids /\ gone.lists = t.lists
            /\ gone.holdings = h /\ gone.listed = t.listed
        BY <1>3 DEF IsStore
      <4> QED
        <5> HIDE DEF k
        <5>1. [gone EXCEPT !.links = k, !.ledger = m] =
                [ids |-> gone.ids, lists |-> gone.lists, links |-> k, ledger |-> m,
                 holdings |-> gone.holdings, listed |-> gone.listed]
          BY <4>1, WithLinksAndLedger
        <5> QED
          BY <4>1, <5>1
    <3> QED
      BY <3>1 DEF m
  <2> QED
    BY <2>2, <2>3
<1>6. CASE old \in Receivers(dest)
  <2>1. RenameLinks(t, dest, links, old) = t.links /\ RenameLedger(t, dest, old) = l
    BY <1>6 DEF RenameLinks, RenameLedger, l
  <2> QED
    BY <1>1, <1>4, <1>6, <2>1 DEF h
<1>7. CASE old \notin Receivers(dest)
  <2>1. RenameLinks(t, dest, links, old) = k
        /\ RenameLedger(t, dest, old) = l \cup {<<old, new>>}
    BY <1>7 DEF RenameLinks, RenameLedger, l
  <2> HIDE DEF k
  <2> QED
    BY <1>4, <1>5, <1>7, <2>1 DEF h
<1> QED
  BY <1>6, <1>7

LEMMA SplitUpIs ==
    ASSUME NEW t, IsStore(t), NEW dest, NEW old
    PROVE  SplitUp(t, dest, old) =
             [ids |-> t.ids, lists |-> t.lists, links |-> SplitLinks(t, dest, old),
              ledger |-> SplitLedger(t, dest, old),
              holdings |-> SplitHoldings(t, old), listed |-> t.listed]
<1> DEFINE homed == Rehome(t, dest, old)
           fanned == FanOut(homed, dest, old)
           h == SplitHoldings(t, old)
           f == FanLedger(t, dest, old)
<1>1. homed = [ids |-> t.ids, lists |-> t.lists, links |-> t.links, ledger |-> t.ledger,
               holdings |-> h, listed |-> t.listed]
  <2>1. homed = [t EXCEPT !.holdings = h]
    BY DEF Rehome, SplitHoldings
  <2> HIDE DEF homed, h
  <2> QED
    BY <2>1 DEF IsStore
<1>2. fanned = [ids |-> t.ids, lists |-> t.lists, links |-> t.links, ledger |-> f,
                holdings |-> h, listed |-> t.listed]
  <2> HIDE DEF homed, h
  <2>0. homed.ledger = t.ledger
    BY <1>1
  <2>1. fanned = [homed EXCEPT !.ledger = f]
    BY <2>0 DEF FanOut, FanLedger
  <2> HIDE DEF fanned, f
  <2> QED
    BY <1>1, <2>1
<1> HIDE DEF homed, h, f
<1>3. SplitUp(t, dest, old) = IF old \in dest[old] THEN homed
        ELSE IF old \in Receivers(dest) THEN fanned ELSE Retire(fanned, old)
  BY DEF SplitUp, homed
<1> HIDE DEF fanned
<1>4. IsStore(fanned) /\ Stored(fanned) = Stored(t)
  BY <1>2 DEF IsStore, Stored
<1>5. Retire(fanned, old) =
        [ids |-> t.ids, lists |-> t.lists,
         links |-> [x \in Stored(t) \ {old} |-> t.links[x]], ledger |-> f,
         holdings |-> h, listed |-> t.listed]
  <2>1. /\ fanned.ids = t.ids /\ fanned.lists = t.lists /\ fanned.links = t.links
        /\ fanned.ledger = f /\ fanned.holdings = h /\ fanned.listed = t.listed
    BY <1>2
  <2>2. Retire(fanned, old) =
          [ids |-> fanned.ids, lists |-> fanned.lists,
           links |-> [x \in Stored(fanned) \ {old} |-> fanned.links[x]],
           ledger |-> fanned.ledger, holdings |-> fanned.holdings,
           listed |-> fanned.listed]
    BY <1>4, RetireIs
  <2> QED
    BY <1>4, <2>1, <2>2
<1>6. CASE old \in dest[old]
  <2>1. SplitLinks(t, dest, old) = t.links /\ SplitLedger(t, dest, old) = t.ledger
    BY <1>6 DEF SplitLinks, SplitLedger
  <2> QED
    BY <1>1, <1>3, <1>6, <2>1 DEF h
<1>7. CASE old \notin dest[old] /\ old \in Receivers(dest)
  <2>1. SplitLinks(t, dest, old) = t.links /\ SplitLedger(t, dest, old) = f
    BY <1>7 DEF SplitLinks, SplitLedger, f
  <2> QED
    BY <1>2, <1>3, <1>7, <2>1 DEF h
<1>8. CASE old \notin dest[old] /\ old \notin Receivers(dest)
  <2>1. SplitLinks(t, dest, old) = [x \in Stored(t) \ {old} |-> t.links[x]]
        /\ SplitLedger(t, dest, old) = f
    BY <1>8 DEF SplitLinks, SplitLedger, f
  <2> QED
    BY <1>3, <1>5, <1>8, <2>1 DEF h
<1> QED
  BY <1>6, <1>7, <1>8

-----------------------------------------------------------------------------
(* What the migration may change of a store.                               *)

Links == UNION {[xs -> SUBSET Entities(UNION Files)] : xs \in SUBSET SecurityIds}
Pairs == SUBSET (SecurityIds \X SecurityIds)
Resolved == SecurityIds \cup {None, "not loaded"}
Held == [Holdings -> Resolved]

(* The stores that a migration of s goes through: its rows are not         *)
(* touched.                                                                *)
Kin(s) == [ids : {s.ids}, lists : {s.lists}, links : Links, ledger : Pairs,
           holdings : Held, listed : {s.listed}]

LEMMA LinksAre ==
    ASSUME NEW l
    PROVE  l \in Links <=> /\ DOMAIN l \subseteq SecurityIds /\ l = [x \in DOMAIN l |-> l[x]]
                           /\ \A x \in DOMAIN l : l[x] \subseteq Entities(UNION Files)
<1>1. ASSUME l \in Links
      PROVE  /\ DOMAIN l \subseteq SecurityIds /\ l = [x \in DOMAIN l |-> l[x]]
             /\ \A x \in DOMAIN l : l[x] \subseteq Entities(UNION Files)
  <2>1. PICK xs \in SUBSET SecurityIds : l \in [xs -> SUBSET Entities(UNION Files)]
    BY <1>1 DEF Links
  <2> QED
    BY <2>1
<1>2. ASSUME DOMAIN l \subseteq SecurityIds, l = [x \in DOMAIN l |-> l[x]],
             \A x \in DOMAIN l : l[x] \subseteq Entities(UNION Files)
      PROVE  l \in Links
  <2>1. l \in [DOMAIN l -> SUBSET Entities(UNION Files)]
    BY <1>2
  <2> QED
    BY <1>2, <2>1 DEF Links
<1> QED
  BY <1>1, <1>2

LEMMA KinIs ==
    ASSUME NEW s, NEW t \in Kin(s)
    PROVE  /\ IsStore(t) /\ t.ids = s.ids /\ t.lists = s.lists /\ t.listed = s.listed
           /\ t.links \in Links /\ t.ledger \in Pairs /\ t.holdings \in Held
<1> HIDE DEF Links, Pairs, Held
<1> QED
  BY DEF Kin, IsStore

LEMMA IsKin ==
    ASSUME NEW s, NEW a \in Links, NEW b \in Pairs, NEW c \in Held
    PROVE  [ids |-> s.ids, lists |-> s.lists, links |-> a, ledger |-> b,
            holdings |-> c, listed |-> s.listed] \in Kin(s)
BY DEF Kin

EnsuredLinks(s, xs) == [x \in xs \cup Stored(s) |-> IF x \in Stored(s) THEN s.links[x] ELSE {}]

LEMMA EnsureIs ==
    ASSUME NEW s, IsStore(s), NEW xs
    PROVE  EnsureSecurity(s, xs) =
             [ids |-> s.ids, lists |-> s.lists, links |-> EnsuredLinks(s, xs),
              ledger |-> s.ledger, holdings |-> s.holdings, listed |-> s.listed]
BY WithLinks DEF EnsureSecurity, EnsuredLinks

LEMMA EnsureKin ==
    ASSUME NEW s, s \in Kin(s), NEW xs \in SUBSET SecurityIds
    PROVE  /\ EnsureSecurity(s, xs) \in Kin(s)
           /\ Stored(EnsureSecurity(s, xs)) = xs \cup Stored(s)
<1>1. /\ DOMAIN s.links \subseteq SecurityIds
      /\ \A x \in DOMAIN s.links : s.links[x] \subseteq Entities(UNION Files)
  BY KinIs, LinksAre
<1>2. EnsuredLinks(s, xs) \in Links
  <2> DEFINE l == EnsuredLinks(s, xs)
  <2>1. DOMAIN l = xs \cup Stored(s) /\ l = [x \in DOMAIN l |-> l[x]]
    BY DEF EnsuredLinks
  <2>2. \A x \in DOMAIN l : l[x] \subseteq Entities(UNION Files)
    BY <1>1 DEF EnsuredLinks, Stored
  <2> HIDE DEF l
  <2>3. DOMAIN l \subseteq SecurityIds
    BY <1>1, <2>1 DEF Stored
  <2>4. l \in Links
    BY <2>1, <2>2, <2>3, LinksAre
  <2> QED
    BY <2>4 DEF l
<1>3. EnsureSecurity(s, xs) = [ids |-> s.ids, lists |-> s.lists,
         links |-> EnsuredLinks(s, xs),
         ledger |-> s.ledger, holdings |-> s.holdings, listed |-> s.listed]
  BY KinIs, EnsureIs
<1>4. DOMAIN EnsuredLinks(s, xs) = xs \cup Stored(s)
  BY DEF EnsuredLinks
<1> QED
  BY <1>2, <1>3, <1>4, KinIs, IsKin DEF Stored

LEMMA LessIsLinks ==
    ASSUME NEW l \in Links, NEW old
    PROVE  [x \in DOMAIN l \ {old} |-> l[x]] \in Links
<1> DEFINE k == [x \in DOMAIN l \ {old} |-> l[x]]
<1>1. /\ DOMAIN l \subseteq SecurityIds
      /\ \A x \in DOMAIN l : l[x] \subseteq Entities(UNION Files)
  BY LinksAre
<1>2. DOMAIN k = DOMAIN l \ {old} /\ k = [x \in DOMAIN k |-> k[x]]
      /\ \A x \in DOMAIN k : k[x] = l[x]
  OBVIOUS
<1> HIDE DEF k
<1>3. k \in Links
  BY <1>1, <1>2, LinksAre
<1> QED
  BY <1>3 DEF k

LEMMA MoreIsLinks ==
    ASSUME NEW l \in Links, NEW x, NEW e \in SUBSET Entities(UNION Files)
    PROVE  [l EXCEPT ![x] = @ \cup e] \in Links
<1> DEFINE k == [l EXCEPT ![x] = l[x] \cup e]
<1>1. /\ DOMAIN l \subseteq SecurityIds
      /\ \A y \in DOMAIN l : l[y] \subseteq Entities(UNION Files)
  BY LinksAre
<1>2. DOMAIN k = DOMAIN l /\ k = [y \in DOMAIN k |-> k[y]]
  OBVIOUS
<1>3. \A y \in DOMAIN k : k[y] = IF y = x THEN l[y] \cup e ELSE l[y]
  OBVIOUS
<1> HIDE DEF k
<1>4. k \in Links
  BY <1>1, <1>2, <1>3, LinksAre
<1> QED
  BY <1>4 DEF k

LEMMA ResolveType ==
    ASSUME NEW t, \A r \in t.ids \cup t.lists : r.sid \in SecurityIds, NEW v, NEW d
    PROVE  /\ ResolveCusip(t, v, d) \in SecurityIds \cup {None}
           /\ ResolveCusip(t, v, d) # None =>
                \E r \in t.ids \cup t.lists :
                   r.value = v /\ Holds(r, d) /\ ResolveCusip(t, v, d) = r.sid
<1>1. ASSUME NEW rows, rows \subseteq t.ids \cup t.lists, ApplicableValue(rows) # None
      PROVE  \E r \in rows : ApplicableValue(rows) = r.sid
  <2>1. ApplicableValue(rows) = (CHOOSE r \in rows : TRUE).sid /\ Cardinality(rows) = 1
    BY <1>1 DEF ApplicableValue
  <2>2. rows # {}
    BY <2>1, FS_EmptySet
  <2>3. (CHOOSE r \in rows : TRUE) \in rows
    BY <2>2
  <2> QED
    BY <2>1, <2>3
<1> SUFFICES ASSUME ResolveCusip(t, v, d) # None
             PROVE  \E r \in t.ids \cup t.lists :
                       r.value = v /\ Holds(r, d) /\ ResolveCusip(t, v, d) = r.sid
  OBVIOUS
<1>2. PICK rows \in SUBSET (t.ids \cup t.lists) :
         /\ \A r \in rows : r.value = v /\ Holds(r, d)
         /\ ResolveCusip(t, v, d) = ApplicableValue(rows)
  <2>1. \A r \in At(t.lists, v, d) : r \in t.lists /\ r.value = v /\ Holds(r, d)
    BY DEF At, Holds
  <2>2. \A r \in At(t.ids, v, d) : r \in t.ids /\ r.value = v /\ Holds(r, d)
    BY DEF At, Holds
  <2>3. CASE At(t.lists, v, d) # {}
    BY <2>1, <2>3 DEF ResolveCusip
  <2>4. CASE At(t.lists, v, d) = {}
    BY <2>2, <2>4 DEF ResolveCusip
  <2> QED
    BY <2>3, <2>4
<1> QED
  BY <1>1, <1>2

SidsKnown(s) == \A r \in s.ids \cup s.lists : r.sid \in SecurityIds

LEMMA RenameKin ==
    ASSUME NEW s, s \in Kin(s), NEW dest, IsPlan(dest), DOMAIN dest = Stored(s),
           NEW t \in Kin(s), NEW old \in Renamed(dest)
    PROVE  Rename(t, dest, s.links, old) \in Kin(s)
<1> DEFINE new == NewId(dest, old)
<1>1. /\ new \in SecurityIds /\ old \in SecurityIds /\ old \in DOMAIN s.links
  BY Fates DEF Stored
<1>2. /\ IsStore(t) /\ t.ids = s.ids /\ t.lists = s.lists /\ t.listed = s.listed
      /\ t.links \in Links /\ t.ledger \in Pairs /\ t.holdings \in Held
  BY KinIs
<1>3. RenameLedger(t, dest, old) \in Pairs
  <2> SUFFICES ASSUME NEW l \in RenameLedger(t, dest, old)
               PROVE l \in SecurityIds \X SecurityIds
    BY DEF Pairs
  <2>1. CASE l = <<old, new>>
    BY <1>1, <2>1
  <2>2. CASE l # <<old, new>>
    <3>1. PICK k \in t.ledger : l = IF k[2] = old THEN <<k[1], new>> ELSE k
      BY <2>2 DEF RenameLedger, RepointLedger
    <3>2. k \in SecurityIds \X SecurityIds
      BY <1>2 DEF Pairs
    <3> QED
      BY <1>1, <3>1, <3>2
  <2> QED
    BY <2>1, <2>2
<1>4. RenameHoldings(t, dest, old) \in Held
  BY <1>1, <1>2 DEF Held, Resolved, RenameHoldings
<1>5. RenameLinks(t, dest, s.links, old) \in Links
  <2>1. s.links[old] \in SUBSET Entities(UNION Files)
    BY <1>1, KinIs, LinksAre
  <2>2. [x \in Stored(t) \ {old} |-> t.links[x]] \in Links
    BY <1>2, LessIsLinks DEF Stored
  <2> DEFINE g == [x \in Stored(t) \ {old} |-> t.links[x]]
  <2> HIDE DEF g, new
  <2>3. [g EXCEPT ![new] = @ \cup s.links[old]] \in Links
    BY <2>1, <2>2, MoreIsLinks DEF g
  <2> QED
    BY <1>2, <2>3 DEF RenameLinks, g, new
<1> QED
  BY <1>2, <1>3, <1>4, <1>5, RenameIs, IsKin

LEMMA SplitKin ==
    ASSUME NEW s, s \in Kin(s), SidsKnown(s), NEW dest, IsPlan(dest),
           DOMAIN dest = Stored(s), NEW t \in Kin(s), NEW old \in Split(dest)
    PROVE  SplitUp(t, dest, old) \in Kin(s)
<1>1. /\ old \in SecurityIds /\ dest[old] \in SUBSET SecurityIds
  BY Fates DEF IsPlan
<1>2. /\ IsStore(t) /\ t.ids = s.ids /\ t.lists = s.lists /\ t.listed = s.listed
      /\ t.links \in Links /\ t.ledger \in Pairs /\ t.holdings \in Held
  BY KinIs
<1>3. SplitLedger(t, dest, old) \in Pairs
  <2>1. \A l \in t.ledger : l \in SecurityIds \X SecurityIds
    BY <1>2 DEF Pairs
  <2>2. {l[1] : l \in {l \in t.ledger : l[2] = old}} \cup {old} \subseteq SecurityIds
    BY <1>1, <2>1
  <2> QED
    BY <1>1, <1>2, <2>1, <2>2 DEF SplitLedger, FanLedger, Pairs
<1>4. SplitHoldings(t, old) \in Held
  <2>1. \A v, d : ResolveCusip(t, v, d) \in SecurityIds \cup {None}
    BY <1>2, ResolveType DEF SidsKnown
  <2> QED
    BY <1>2, <2>1 DEF Held, Resolved, SplitHoldings
<1>5. SplitLinks(t, dest, old) \in Links
  BY <1>2, LessIsLinks DEF SplitLinks, Stored
<1> QED
  BY <1>2, <1>3, <1>4, <1>5, SplitUpIs, IsKin

-----------------------------------------------------------------------------
(* The migration's two passes (registry.py 1752-1836) as folds.            *)

Base(s, dest) == EnsureSecurity(s, Receivers(dest))

RenameStep(s, dest, t, old) ==
    IF old \in Renamed(dest) THEN Rename(t, dest, s.links, old) ELSE t
SplitStep(dest, t, old) == IF old \in Split(dest) THEN SplitUp(t, dest, old) ELSE t

RenameSteps(s, dest) ==
    [n \in 1..Len(Order) |-> [t \in Kin(s) |-> RenameStep(s, dest, t, Order[n])]]
SplitSteps(s, dest) ==
    [n \in 1..Len(Order) |-> [t \in Kin(s) |-> SplitStep(dest, t, Order[n])]]

(* A plan for the securities that are stored; the rows name securities.    *)
Migrates(s, dest) ==
    /\ s \in Kin(s) /\ SidsKnown(s) /\ IsPlan(dest) /\ DOMAIN dest = Stored(s)

LEMMA StepsAre ==
    ASSUME NEW s, NEW dest, Migrates(s, dest)
    PROVE  /\ Len(Order) \in Nat /\ Base(s, dest) \in Kin(s)
           /\ RenameSteps(s, dest) \in [1..Len(Order) -> [Kin(s) -> Kin(s)]]
           /\ SplitSteps(s, dest) \in [1..Len(Order) -> [Kin(s) -> Kin(s)]]
<1>1. Len(Order) \in Nat
  BY RegistryAssumption
<1>2. Base(s, dest) \in Kin(s)
  <2>1. Receivers(dest) \in SUBSET SecurityIds
    BY Fates DEF Migrates
  <2> QED
    BY <2>1, EnsureKin DEF Base, Migrates
<1>3. \A t \in Kin(s) : \A old : RenameStep(s, dest, t, old) \in Kin(s)
  BY RenameKin DEF RenameStep, Migrates
<1>4. \A t \in Kin(s) : \A old : SplitStep(dest, t, old) \in Kin(s)
  BY SplitKin DEF SplitStep, Migrates
<1>5. RenameSteps(s, dest) \in [1..Len(Order) -> [Kin(s) -> Kin(s)]]
  BY <1>3 DEF RenameSteps
<1>6. SplitSteps(s, dest) \in [1..Len(Order) -> [Kin(s) -> Kin(s)]]
  BY <1>4 DEF SplitSteps
<1> QED
  BY <1>1, <1>2, <1>5, <1>6

LEMMA MovedIs ==
    ASSUME NEW s, NEW dest, Migrates(s, dest)
    PROVE  \E f, g : /\ IsFold(f, Len(Order), Kin(s), Base(s, dest), RenameSteps(s, dest))
                     /\ IsFold(g, Len(Order), Kin(s), f[Len(Order)], SplitSteps(s, dest))
                     /\ Moved(s, dest) = g[Len(Order)]
<1> DEFINE N == Len(Order)
           Renaming(f) == [n \in 0..N |->
              IF n = 0 THEN EnsureSecurity(s, Receivers(dest))
              ELSE IF Order[n] \in Renamed(dest)
                   THEN Rename(f[n - 1], dest, s.links, Order[n])
                   ELSE f[n - 1]]
           renamed == CHOOSE f : f = Renaming(f)
           Splitting(g) == [n \in 0..N |->
              IF n = 0 THEN renamed[N]
              ELSE IF Order[n] \in Split(dest)
                   THEN SplitUp(g[n - 1], dest, Order[n])
                   ELSE g[n - 1]]
           split == CHOOSE g : g = Splitting(g)
<1>1. Moved(s, dest) = split[N]
  BY DEF Moved
<1>2. /\ N \in Nat /\ Base(s, dest) \in Kin(s)
      /\ RenameSteps(s, dest) \in [1..N -> [Kin(s) -> Kin(s)]]
      /\ SplitSteps(s, dest) \in [1..N -> [Kin(s) -> Kin(s)]]
  BY StepsAre
<1>3. ASSUME NEW f, IsFold(f, N, Kin(s), Base(s, dest), RenameSteps(s, dest))
      PROVE  f = Renaming(f)
  <2>1. f = [n \in 0..N |-> f[n]] /\ \A n \in 0..N : f[n] \in Kin(s)
    BY <1>3 DEF IsFold
  <2>2. f[0] = Renaming(f)[0]
    BY <1>2, <1>3 DEF IsFold, Base
  <2>3. ASSUME NEW n \in 1..N PROVE f[n] = Renaming(f)[n]
    <3>1. n \in 0..N /\ n - 1 \in 0..N /\ n # 0
      BY <1>2
    <3>2. f[n] = RenameSteps(s, dest)[n][f[n - 1]] /\ f[n - 1] \in Kin(s)
      BY <1>3, <2>1, <3>1 DEF IsFold
    <3>3. f[n] = RenameStep(s, dest, f[n - 1], Order[n])
      BY <3>2 DEF RenameSteps
    <3> QED
      BY <3>1, <3>3 DEF RenameStep
  <2>4. \A n \in 0..N : n = 0 \/ n \in 1..N
    BY <1>2
  <2>5. \A n \in 0..N : f[n] = Renaming(f)[n]
    <3> HIDE DEF Renaming
    <3> QED
      BY <2>2, <2>3, <2>4
  <2>6. Renaming(f) = [n \in 0..N |-> Renaming(f)[n]]
    OBVIOUS
  <2> HIDE DEF Renaming
  <2> QED
    BY <2>1, <2>5, <2>6
<1>4. renamed = Renaming(renamed)
  <2>1. PICK f : IsFold(f, N, Kin(s), Base(s, dest), RenameSteps(s, dest))
    BY <1>2, FoldExists
  <2>2. f = Renaming(f)
    BY <1>3, <2>1
  <2> HIDE DEF Renaming
  <2> QED
    BY <2>2
<1>5. ASSUME NEW g, NEW b, IsFold(g, N, Kin(s), b, SplitSteps(s, dest)), b = renamed[N]
      PROVE  g = Splitting(g)
  <2> HIDE DEF renamed
  <2>1. g = [n \in 0..N |-> g[n]] /\ \A n \in 0..N : g[n] \in Kin(s)
    BY <1>5 DEF IsFold
  <2>2. g[0] = Splitting(g)[0]
    BY <1>2, <1>5 DEF IsFold
  <2>3. ASSUME NEW n \in 1..N PROVE g[n] = Splitting(g)[n]
    <3>1. n \in 0..N /\ n - 1 \in 0..N /\ n # 0
      BY <1>2
    <3>2. g[n] = SplitSteps(s, dest)[n][g[n - 1]] /\ g[n - 1] \in Kin(s)
      BY <1>5, <2>1, <3>1 DEF IsFold
    <3>3. g[n] = SplitStep(dest, g[n - 1], Order[n])
      BY <3>2 DEF SplitSteps
    <3> QED
      BY <3>1, <3>3 DEF SplitStep
  <2>4. \A n \in 0..N : n = 0 \/ n \in 1..N
    BY <1>2
  <2>5. \A n \in 0..N : g[n] = Splitting(g)[n]
    <3> HIDE DEF Splitting
    <3> QED
      BY <2>2, <2>3, <2>4
  <2>6. Splitting(g) = [n \in 0..N |-> Splitting(g)[n]]
    OBVIOUS
  <2> HIDE DEF Splitting
  <2> QED
    BY <2>1, <2>5, <2>6
<1>6. IsFold(renamed, N, Kin(s), Base(s, dest), RenameSteps(s, dest))
  <2> HIDE DEF renamed
  <2>1. renamed[0] = Base(s, dest)
    BY <1>2, <1>4 DEF Base
  <2>2. ASSUME NEW n \in 1..N PROVE renamed[n] = RenameStep(s, dest, renamed[n - 1], Order[n])
    <3>1. n \in 0..N /\ n # 0
      BY <1>2
    <3>2. Renaming(renamed)[n] = RenameStep(s, dest, renamed[n - 1], Order[n])
      BY <3>1 DEF RenameStep
    <3> HIDE DEF Renaming
    <3> QED
      BY <1>4, <3>2, Zenon
  <2>3. ASSUME NEW n \in 1..N, renamed[n - 1] \in Kin(s)
        PROVE  /\ renamed[n] = RenameSteps(s, dest)[n][renamed[n - 1]]
               /\ renamed[n] \in Kin(s)
    <3>1. renamed[n] = RenameSteps(s, dest)[n][renamed[n - 1]]
      BY <2>2, <2>3 DEF RenameSteps
    <3> QED
      BY <1>2, <2>3, <3>1
  <2> DEFINE S == {n \in 0..N : renamed[n] \in Kin(s)}
  <2>4. 0 \in S
    BY <1>2, <2>1
  <2>5. \A n \in 1..N : n - 1 \in S => n \in S
    BY <2>3
  <2>6. \A n \in 0..N : n \in S
    <3> HIDE DEF S
    <3> QED
      BY <1>2, <2>4, <2>5, Climb
  <2>7. \A n \in 1..N : n - 1 \in 0..N
    BY <1>2
  <2>8. \A n \in 0..N : renamed[n] \in Kin(s)
    BY <2>6
  <2>9. renamed = [n \in 0..N |-> renamed[n]]
    BY <1>4
  <2> HIDE DEF S
  <2> QED
    BY <2>1, <2>3, <2>7, <2>8, <2>9 DEF IsFold
<1>7. renamed[N] \in Kin(s)
  <2>1. N \in 0..N
    BY <1>2
  <2>2. renamed \in [0..N -> Kin(s)]
    BY <1>6 DEF IsFold
  <2> QED
    BY <2>1, <2>2
<1>8. split = Splitting(split)
  <2>1. PICK g : IsFold(g, N, Kin(s), renamed[N], SplitSteps(s, dest))
    BY <1>2, <1>7, FoldExists
  <2>2. g = Splitting(g)
    BY <1>5, <2>1
  <2> HIDE DEF Splitting
  <2> QED
    BY <2>2
<1>9. IsFold(split, N, Kin(s), renamed[N], SplitSteps(s, dest))
  <2> HIDE DEF split, renamed
  <2>1. split[0] = renamed[N]
    BY <1>2, <1>8
  <2>2. ASSUME NEW n \in 1..N PROVE split[n] = SplitStep(dest, split[n - 1], Order[n])
    BY <1>2, <1>8 DEF SplitStep
  <2>3. ASSUME NEW n \in 1..N, split[n - 1] \in Kin(s)
        PROVE  /\ split[n] = SplitSteps(s, dest)[n][split[n - 1]]
               /\ split[n] \in Kin(s)
    <3>1. split[n] = SplitSteps(s, dest)[n][split[n - 1]]
      BY <2>2, <2>3 DEF SplitSteps
    <3> QED
      BY <1>2, <2>3, <3>1
  <2> DEFINE S == {n \in 0..N : split[n] \in Kin(s)}
  <2>4. 0 \in S
    BY <1>2, <1>7, <2>1
  <2>5. \A n \in 1..N : n - 1 \in S => n \in S
    BY <2>3
  <2>6. \A n \in 0..N : n \in S
    <3> HIDE DEF S
    <3> QED
      BY <1>2, <2>4, <2>5, Climb
  <2>7. \A n \in 1..N : n - 1 \in 0..N
    BY <1>2
  <2>8. \A n \in 0..N : split[n] \in Kin(s)
    BY <2>6
  <2>9. split = [n \in 0..N |-> split[n]]
    BY <1>8
  <2> HIDE DEF S
  <2> QED
    BY <2>1, <2>3, <2>7, <2>8, <2>9 DEF IsFold
<1> HIDE DEF renamed, split
<1> QED
  BY <1>1, <1>6, <1>9

(* What every rename and every split keep, the migration keeps.            *)
LEMMA MovedKeeps ==
    ASSUME NEW s, NEW dest, Migrates(s, dest), NEW Good, Base(s, dest) \in Good,
           \A t \in Kin(s) \cap Good : \A old \in Renamed(dest) :
              Rename(t, dest, s.links, old) \in Good,
           \A t \in Kin(s) \cap Good : \A old \in Split(dest) : SplitUp(t, dest, old) \in Good
    PROVE  Moved(s, dest) \in Kin(s) \cap Good
<1> DEFINE N == Len(Order)
           Fine == Kin(s) \cap Good
<1>1. /\ N \in Nat /\ Base(s, dest) \in Kin(s)
      /\ RenameSteps(s, dest) \in [1..N -> [Kin(s) -> Kin(s)]]
      /\ SplitSteps(s, dest) \in [1..N -> [Kin(s) -> Kin(s)]]
  BY StepsAre
<1>2. PICK f, g : /\ IsFold(f, N, Kin(s), Base(s, dest), RenameSteps(s, dest))
                  /\ IsFold(g, N, Kin(s), f[N], SplitSteps(s, dest))
                  /\ Moved(s, dest) = g[N]
  BY MovedIs
<1>3. ASSUME NEW n \in 1..N, NEW t \in Fine
      PROVE  RenameSteps(s, dest)[n][t] \in Fine /\ SplitSteps(s, dest)[n][t] \in Fine
  <2>1. RenameSteps(s, dest)[n][t] \in Kin(s) /\ SplitSteps(s, dest)[n][t] \in Kin(s)
    BY <1>1
  <2>2. /\ RenameSteps(s, dest)[n][t] = RenameStep(s, dest, t, Order[n])
        /\ SplitSteps(s, dest)[n][t] = SplitStep(dest, t, Order[n])
    BY DEF RenameSteps, SplitSteps
  <2>3. RenameStep(s, dest, t, Order[n]) \in Good /\ SplitStep(dest, t, Order[n]) \in Good
    BY DEF RenameStep, SplitStep
  <2> QED
    BY <2>1, <2>2, <2>3
<1>4. Base(s, dest) \in Fine
  BY <1>1
<1> HIDE DEF Fine, N
<1>5. f[N] \in Fine
  BY <1>1, <1>2, <1>3, <1>4, FoldKeeps
<1>6. g[N] \in Fine
  <2>1. \A n \in 1..N : \A t \in Fine : SplitSteps(s, dest)[n][t] \in Fine
    BY <1>3
  <2>2. N \in Nat /\ IsFold(g, N, Kin(s), f[N], SplitSteps(s, dest))
    BY <1>1, <1>2
  <2> QED
    BY <1>5, <2>1, <2>2, FoldKeeps
<1> QED
  BY <1>2, <1>6 DEF Fine

(* What happens to one security when its turn comes.                       *)
LEMMA MovedReaches ==
    ASSUME NEW s, NEW dest, Migrates(s, dest), NEW Good, Base(s, dest) \in Good,
           \A t \in Kin(s) \cap Good : \A old \in Renamed(dest) :
              Rename(t, dest, s.links, old) \in Good,
           \A t \in Kin(s) \cap Good : \A old \in Split(dest) : SplitUp(t, dest, old) \in Good,
           NEW Done,
           \A t \in Kin(s) \cap Good : t \in Done => \A old \in Renamed(dest) :
              Rename(t, dest, s.links, old) \in Done,
           \A t \in Kin(s) \cap Good : t \in Done => \A old \in Split(dest) :
              SplitUp(t, dest, old) \in Done,
           NEW x \in Renamed(dest) \cup Split(dest),
           \A t \in Kin(s) \cap Good :
              /\ x \in Renamed(dest) => Rename(t, dest, s.links, x) \in Done
              /\ x \in Split(dest) => SplitUp(t, dest, x) \in Done
    PROVE  Moved(s, dest) \in Kin(s) \cap Good \cap Done
<1> DEFINE N == Len(Order)
           Fine == Kin(s) \cap Good
<1>1. /\ N \in Nat /\ Base(s, dest) \in Kin(s)
      /\ RenameSteps(s, dest) \in [1..N -> [Kin(s) -> Kin(s)]]
      /\ SplitSteps(s, dest) \in [1..N -> [Kin(s) -> Kin(s)]]
  BY StepsAre
<1>2. PICK f, g : /\ IsFold(f, N, Kin(s), Base(s, dest), RenameSteps(s, dest))
                  /\ IsFold(g, N, Kin(s), f[N], SplitSteps(s, dest))
                  /\ Moved(s, dest) = g[N]
  BY MovedIs
<1>a. \A n \in 1..N : \A t \in Kin(s) :
        /\ RenameSteps(s, dest)[n][t] = RenameStep(s, dest, t, Order[n])
        /\ SplitSteps(s, dest)[n][t] = SplitStep(dest, t, Order[n])
  BY DEF RenameSteps, SplitSteps
<1>3. \A n \in 1..N : \A t \in Fine :
         RenameSteps(s, dest)[n][t] \in Fine /\ SplitSteps(s, dest)[n][t] \in Fine
  <2> SUFFICES ASSUME NEW n \in 1..N, NEW t \in Fine
               PROVE RenameSteps(s, dest)[n][t] \in Fine /\ SplitSteps(s, dest)[n][t] \in Fine
    OBVIOUS
  <2>1. RenameSteps(s, dest)[n][t] \in Kin(s) /\ SplitSteps(s, dest)[n][t] \in Kin(s)
    BY <1>1
  <2>3. RenameStep(s, dest, t, Order[n]) \in Good /\ SplitStep(dest, t, Order[n]) \in Good
    BY DEF RenameStep, SplitStep
  <2> QED
    BY <1>a, <2>1, <2>3
<1>4. Base(s, dest) \in Fine
  BY <1>1
<1>5. \A n \in 1..N : \A t \in Fine \cap Done :
         RenameSteps(s, dest)[n][t] \in Done /\ SplitSteps(s, dest)[n][t] \in Done
  <2> SUFFICES ASSUME NEW n \in 1..N, NEW t \in Fine \cap Done
               PROVE RenameSteps(s, dest)[n][t] \in Done /\ SplitSteps(s, dest)[n][t] \in Done
    OBVIOUS
  <2>3. RenameStep(s, dest, t, Order[n]) \in Done /\ SplitStep(dest, t, Order[n]) \in Done
    BY DEF RenameStep, SplitStep
  <2> QED
    BY <1>a, <2>3
<1>6. PICK k \in 1..N : Order[k] = x
  <2>1. x \in SecurityIds
    BY Fates DEF Migrates
  <2> QED
    BY <2>1, RegistryAssumption DEF SecurityIds, Range
<1>7. ASSUME NEW t \in Fine
      PROVE  /\ x \in Renamed(dest) => RenameSteps(s, dest)[k][t] \in Done
             /\ x \in Split(dest) => SplitSteps(s, dest)[k][t] \in Done
  BY <1>6, <1>a DEF RenameStep, SplitStep
<1> HIDE DEF Fine, N
<1>8. f[N] \in Fine
  BY <1>1, <1>2, <1>3, <1>4, FoldKeeps
<1>9. g[N] \in Fine
  BY <1>1, <1>2, <1>3, <1>8, FoldKeeps
<1>10. CASE x \in Renamed(dest)
  <2>1. \A t \in Fine : RenameSteps(s, dest)[k][t] \in Done
    BY <1>7, <1>10
  <2>2. f[N] \in Fine \cap Done
    <3>1. /\ \A n \in 1..N : \A t \in Fine : RenameSteps(s, dest)[n][t] \in Fine
          /\ \A n \in 1..N : \A t \in Fine \cap Done : RenameSteps(s, dest)[n][t] \in Done
      BY <1>3, <1>5
    <3>2. Reaches(RenameSteps(s, dest), N, Fine, Done, k)
      BY <1>6, <2>1, <3>1 DEF Reaches
    <3>3. /\ N \in Nat /\ IsFold(f, N, Kin(s), Base(s, dest), RenameSteps(s, dest))
          /\ Base(s, dest) \in Fine
      BY <1>1, <1>2, <1>4
    <3> HIDE DEF Fine, N
    <3> QED
      BY <3>2, <3>3, FoldReaches
  <2> DEFINE Both == Fine \cap Done
  <2>3. \A n \in 1..N : \A t \in Both : SplitSteps(s, dest)[n][t] \in Both
    BY <1>3, <1>5
  <2> HIDE DEF Both
  <2>4. g[N] \in Both
    <3>1. f[N] \in Both
      BY <2>2 DEF Both
    <3> QED
      BY <1>1, <1>2, <2>3, <3>1, FoldKeeps
  <2> QED
    BY <1>2, <2>4 DEF Both, Fine
<1>11. CASE x \in Split(dest)
  <2>1. \A t \in Fine : SplitSteps(s, dest)[k][t] \in Done
    BY <1>7, <1>11
  <2>2. g[N] \in Fine \cap Done
    <3>1. /\ \A n \in 1..N : \A t \in Fine : SplitSteps(s, dest)[n][t] \in Fine
          /\ \A n \in 1..N : \A t \in Fine \cap Done : SplitSteps(s, dest)[n][t] \in Done
      BY <1>3, <1>5
    <3>2. Reaches(SplitSteps(s, dest), N, Fine, Done, k)
      BY <1>6, <2>1, <3>1 DEF Reaches
    <3>3. N \in Nat /\ IsFold(g, N, Kin(s), f[N], SplitSteps(s, dest)) /\ f[N] \in Fine
      BY <1>1, <1>2, <1>8
    <3> HIDE DEF Fine, N
    <3> QED
      BY <3>2, <3>3, FoldReaches
  <2> QED
    BY <1>2, <2>2 DEF Fine
<1> QED
  BY <1>10, <1>11

-----------------------------------------------------------------------------
(* What is stored after a migration.                                       *)

LEMMA RenamedLinks ==
    ASSUME NEW t, IsStore(t), NEW dest, NEW links, NEW old
    PROVE  Rename(t, dest, links, old).links = RenameLinks(t, dest, links, old)
BY RenameIs

LEMMA RenamedLedger ==
    ASSUME NEW t, IsStore(t), NEW dest, NEW links, NEW old
    PROVE  Rename(t, dest, links, old).ledger = RenameLedger(t, dest, old)
BY RenameIs

LEMMA RenamedHoldings ==
    ASSUME NEW t, IsStore(t), NEW dest, NEW links, NEW old
    PROVE  Rename(t, dest, links, old).holdings = RenameHoldings(t, dest, old)
BY RenameIs

LEMMA RenamedStored ==
    ASSUME NEW t, IsStore(t), NEW dest, NEW links, NEW old
    PROVE  Stored(Rename(t, dest, links, old)) =
             IF old \in Receivers(dest) THEN Stored(t) ELSE Stored(t) \ {old}
<1> DEFINE u == Rename(t, dest, links, old)
<1>1. u.links = RenameLinks(t, dest, links, old)
  BY RenamedLinks
<1> HIDE DEF u
<1>2. Stored(u) = IF old \in Receivers(dest) THEN Stored(t) ELSE Stored(t) \ {old}
  BY <1>1 DEF Stored, RenameLinks
<1> QED
  BY <1>2 DEF u

LEMMA SplitsLinks ==
    ASSUME NEW t, IsStore(t), NEW dest, NEW old
    PROVE  SplitUp(t, dest, old).links = SplitLinks(t, dest, old)
BY SplitUpIs

LEMMA SplitsLedger ==
    ASSUME NEW t, IsStore(t), NEW dest, NEW old
    PROVE  SplitUp(t, dest, old).ledger = SplitLedger(t, dest, old)
BY SplitUpIs

LEMMA SplitsHoldings ==
    ASSUME NEW t, IsStore(t), NEW dest, NEW old
    PROVE  SplitUp(t, dest, old).holdings = SplitHoldings(t, old)
BY SplitUpIs

LEMMA SplitsStored ==
    ASSUME NEW t, IsStore(t), NEW dest, NEW old
    PROVE  Stored(SplitUp(t, dest, old)) =
             IF old \in dest[old] \/ old \in Receivers(dest) THEN Stored(t)
             ELSE Stored(t) \ {old}
<1> DEFINE u == SplitUp(t, dest, old)
<1>1. u.links = SplitLinks(t, dest, old)
  BY SplitsLinks
<1> HIDE DEF u
<1>2. Stored(u) = IF old \in dest[old] \/ old \in Receivers(dest) THEN Stored(t)
                  ELSE Stored(t) \ {old}
  BY <1>1 DEF Stored, SplitLinks
<1> QED
  BY <1>2 DEF u

(* What receives something is stored, and so is whatever stays as it is.   *)
Living(s, dest, t) ==
    /\ Receivers(dest) \subseteq Stored(t)
    /\ Stored(s) \ (Renamed(dest) \cup Split(dest)) \subseteq Stored(t)
    /\ Stored(t) \subseteq Stored(s) \cup Receivers(dest)

LEMMA BaseLives ==
    ASSUME NEW s, NEW dest, Migrates(s, dest)
    PROVE  Stored(Base(s, dest)) = Receivers(dest) \cup Stored(s)
BY Fates, EnsureKin DEF Migrates, Base

LEMMA RenameLives ==
    ASSUME NEW s, NEW dest, NEW t \in Kin(s), Living(s, dest, t), NEW old \in Renamed(dest)
    PROVE  Living(s, dest, Rename(t, dest, s.links, old))
<1>1. Stored(Rename(t, dest, s.links, old)) =
         IF old \in Receivers(dest) THEN Stored(t) ELSE Stored(t) \ {old}
  BY KinIs, RenamedStored
<1> QED
  BY <1>1 DEF Living

LEMMA SplitLives ==
    ASSUME NEW s, NEW dest, NEW t \in Kin(s), Living(s, dest, t), NEW old \in Split(dest)
    PROVE  Living(s, dest, SplitUp(t, dest, old))
<1>1. Stored(SplitUp(t, dest, old)) =
         IF old \in dest[old] \/ old \in Receivers(dest) THEN Stored(t)
         ELSE Stored(t) \ {old}
  BY KinIs, SplitsLedger, SplitsStored
<1> QED
  BY <1>1 DEF Living

LEMMA MovedLives ==
    ASSUME NEW s, NEW dest, Migrates(s, dest)
    PROVE  Moved(s, dest) \in Kin(s) /\ Living(s, dest, Moved(s, dest))
<1> DEFINE Good == {t \in Kin(s) : Living(s, dest, t)}
<1>1. Base(s, dest) \in Good
  BY StepsAre, BaseLives DEF Living
<1>2. \A t \in Kin(s) \cap Good : \A old \in Renamed(dest) :
         Rename(t, dest, s.links, old) \in Good
  BY RenameKin, RenameLives DEF Migrates
<1>3. \A t \in Kin(s) \cap Good : \A old \in Split(dest) : SplitUp(t, dest, old) \in Good
  BY SplitKin, SplitLives DEF Migrates
<1> HIDE DEF Good
<1>4. Moved(s, dest) \in Kin(s) \cap Good
  BY <1>1, <1>2, <1>3, MovedKeeps
<1> QED
  BY <1>4 DEF Good

-----------------------------------------------------------------------------
(* The ledger: its entries lead to what is stored, and whatever was stored *)
(* once and is not any more has an entry.                                  *)

Leads(t, gone) ==
    /\ \A l \in t.ledger : l[1] # l[2] /\ l[2] \in Stored(t)
    /\ \A x \in gone \ Stored(t) : \E l \in t.ledger : l[1] = x

LEMMA RenameLeads ==
    ASSUME NEW s, NEW dest, Migrates(s, dest), NEW gone, NEW t \in Kin(s),
           Living(s, dest, t), Leads(t, gone), NEW old \in Renamed(dest)
    PROVE  Leads(Rename(t, dest, s.links, old), gone)
<1> DEFINE u == Rename(t, dest, s.links, old)
           new == NewId(dest, old)
<1>1. /\ u.ledger = RenameLedger(t, dest, old)
      /\ Stored(u) = IF old \in Receivers(dest) THEN Stored(t) ELSE Stored(t) \ {old}
  BY KinIs, RenamedLedger, RenamedStored
<1>2. new # old /\ new \in Receivers(dest)
  BY Fates DEF Migrates
<1>3. new \in Stored(t) /\ new \in Stored(u)
  BY <1>1, <1>2 DEF Living
<1> HIDE DEF u, new
<1>4. ASSUME NEW l \in u.ledger PROVE l[1] # l[2] /\ l[2] \in Stored(u)
  <2>1. CASE l = <<old, new>>
    BY <1>2, <1>3, <2>1
  <2>2. CASE l # <<old, new>>
    <3>1. l \in RepointLedger(t, old, new)
      BY <1>1, <2>2 DEF RenameLedger, new
    <3>2. PICK k \in t.ledger : l = (IF k[2] = old THEN <<k[1], new>> ELSE k)
      BY <3>1 DEF RepointLedger
    <3>3. l[1] # l[2]
      BY <3>1 DEF RepointLedger
    <3>4. l[2] # old /\ (l[2] = new \/ l[2] = k[2])
      BY <1>2, <3>2
    <3> QED
      BY <1>1, <1>3, <3>3, <3>4 DEF Leads
  <2> QED
    BY <2>1, <2>2
<1>5. ASSUME NEW x \in gone \ Stored(u) PROVE \E l \in u.ledger : l[1] = x
  <2>1. CASE x \in Stored(t)
    <3>1. x = old /\ <<old, new>> \in u.ledger
      BY <1>1, <1>5, <2>1 DEF RenameLedger, new
    <3> QED
      BY <3>1
  <2>2. CASE x \notin Stored(t)
    <3>1. PICK k \in t.ledger : k[1] = x
      BY <1>5, <2>2 DEF Leads
    <3>2. k[1] # k[2] /\ x # new
      BY <1>3, <2>2, <3>1 DEF Leads
    <3> DEFINE l == IF k[2] = old THEN <<k[1], new>> ELSE k
    <3>3. l[1] = x /\ l[1] # l[2]
      BY <3>1, <3>2
    <3>4. l \in RepointLedger(t, old, new)
      BY <3>3 DEF RepointLedger
    <3>5. l \in u.ledger
      BY <1>1, <3>4 DEF RenameLedger, new
    <3> QED
      BY <3>3, <3>5
  <2> QED
    BY <2>1, <2>2
<1> QED
  BY <1>4, <1>5 DEF Leads, u

LEMMA SplitLeads ==
    ASSUME NEW s, NEW dest, Migrates(s, dest), NEW gone, NEW t \in Kin(s),
           Living(s, dest, t), Leads(t, gone), NEW old \in Split(dest)
    PROVE  Leads(SplitUp(t, dest, old), gone)
<1> DEFINE u == SplitUp(t, dest, old)
           back == {l[1] : l \in {l \in t.ledger : l[2] = old}} \cup {old}
<1>1. /\ u.ledger = SplitLedger(t, dest, old)
      /\ Stored(u) = IF old \in dest[old] \/ old \in Receivers(dest) THEN Stored(t)
                     ELSE Stored(t) \ {old}
  BY KinIs, SplitsLedger, SplitsStored
<1>2. dest[old] # {} /\ dest[old] \subseteq Receivers(dest) /\ dest[old] \subseteq Stored(t)
  BY Fates DEF Living, Migrates
<1>3. CASE old \in dest[old]
  BY <1>1, <1>3 DEF Leads, SplitLedger
<1>4. CASE old \notin dest[old]
  <2>1. u.ledger = {l \in t.ledger : l[2] # old}
                     \cup {l \in back \X dest[old] : l[1] # l[2]}
    BY <1>1, <1>4 DEF SplitLedger, FanLedger
  <2>2. dest[old] \subseteq Stored(u)
    BY <1>1, <1>2, <1>4
  <2>3. ASSUME NEW l \in u.ledger PROVE l[1] # l[2] /\ l[2] \in Stored(u)
    <3>1. CASE l \in t.ledger /\ l[2] # old
      BY <1>1, <3>1 DEF Leads
    <3>2. CASE l \in back \X dest[old] /\ l[1] # l[2]
      BY <2>2, <3>2
    <3> QED
      BY <2>1, <3>1, <3>2
  <2>4. ASSUME NEW x \in gone \ Stored(u) PROVE \E l \in u.ledger : l[1] = x
    <3>1. CASE x \in back
      <4>1. PICK y : y \in dest[old]
        BY <1>2
      <4>2. <<x, y>> \in back \X dest[old] /\ x # y
        BY <2>2, <2>4, <3>1, <4>1
      <4>3. <<x, y>> \in u.ledger
        BY <2>1, <4>2
      <4> QED
        BY <4>3
    <3>2. CASE x \notin back
      <4>1. x \in gone \ Stored(t)
        BY <1>1, <2>4, <3>2
      <4>2. PICK k \in t.ledger : k[1] = x
        BY <4>1 DEF Leads
      <4>3. k[2] # old
        BY <3>2, <4>2
      <4> QED
        BY <2>1, <4>2, <4>3
    <3> QED
      BY <3>1, <3>2
  <2>5. Leads(u, gone)
    <3> HIDE DEF u
    <3> QED
      BY <2>3, <2>4 DEF Leads
  <2> QED
    BY <2>5
<1> QED
  BY <1>3, <1>4

LEMMA MovedLeads ==
    ASSUME NEW s, NEW dest, Migrates(s, dest), NEW gone, Leads(s, gone)
    PROVE  Leads(Moved(s, dest), gone)
<1> DEFINE Good == {t \in Kin(s) : Living(s, dest, t) /\ Leads(t, gone)}
<1>1. Base(s, dest) \in Good
  <2>1. Stored(Base(s, dest)) = Receivers(dest) \cup Stored(s)
    BY BaseLives
  <2>2. Base(s, dest).ledger = s.ledger
    BY EnsureIs, KinIs DEF Base, Migrates
  <2> QED
    BY <2>1, <2>2, StepsAre DEF Living, Leads
<1>2. \A t \in Kin(s) \cap Good : \A old \in Renamed(dest) :
         Rename(t, dest, s.links, old) \in Good
  BY RenameKin, RenameLives, RenameLeads DEF Migrates
<1>3. \A t \in Kin(s) \cap Good : \A old \in Split(dest) : SplitUp(t, dest, old) \in Good
  BY SplitKin, SplitLives, SplitLeads DEF Migrates
<1> HIDE DEF Good
<1>4. Moved(s, dest) \in Kin(s) \cap Good
  BY <1>1, <1>2, <1>3, MovedKeeps
<1> QED
  BY <1>4 DEF Good

LEMMA BaseIs ==
    ASSUME NEW s, NEW dest, Migrates(s, dest)
    PROVE  /\ Base(s, dest).links = EnsuredLinks(s, Receivers(dest))
           /\ Base(s, dest).holdings = s.holdings
<1>1. IsStore(s)
  BY KinIs DEF Migrates
<1> QED
  BY <1>1, EnsureIs DEF Base

(* A security that is renamed or split and receives nothing is gone.       *)
LEMMA Retired ==
    ASSUME NEW s, NEW dest, Migrates(s, dest), NEW x \in Renamed(dest) \cup Split(dest),
           x \notin Receivers(dest)
    PROVE  x \notin Stored(Moved(s, dest))
<1> DEFINE Good == Kin(s)
           Done == {t \in Kin(s) : x \notin Stored(t)}
<1>1. Base(s, dest) \in Good
  BY StepsAre
<1>2. \A t \in Kin(s) \cap Good : \A old \in Renamed(dest) :
         Rename(t, dest, s.links, old) \in Good
  BY RenameKin DEF Migrates
<1>3. \A t \in Kin(s) \cap Good : \A old \in Split(dest) : SplitUp(t, dest, old) \in Good
  BY SplitKin DEF Migrates
<1>4. ASSUME NEW t \in Kin(s), NEW old \in Renamed(dest), old = x \/ x \notin Stored(t)
      PROVE  Rename(t, dest, s.links, old) \in Done
  <2>1. Stored(Rename(t, dest, s.links, old)) =
          IF old \in Receivers(dest) THEN Stored(t) ELSE Stored(t) \ {old}
    BY KinIs, RenamedStored
  <2>2. Rename(t, dest, s.links, old) \in Kin(s)
    BY <1>2
  <2> QED
    BY <1>4, <2>1, <2>2
<1>5. ASSUME NEW t \in Kin(s), NEW old \in Split(dest), old = x \/ x \notin Stored(t)
      PROVE  SplitUp(t, dest, old) \in Done
  <2>1. Stored(SplitUp(t, dest, old)) =
          IF old \in dest[old] \/ old \in Receivers(dest) THEN Stored(t)
          ELSE Stored(t) \ {old}
    BY KinIs, SplitsStored
  <2>2. SplitUp(t, dest, old) \in Kin(s)
    BY <1>3
  <2>3. old = x => old \notin dest[old]
    BY Fates DEF Migrates
  <2> QED
    BY <1>5, <2>1, <2>2, <2>3
<1>6. \A t \in Kin(s) \cap Good : t \in Done => \A old \in Renamed(dest) :
         Rename(t, dest, s.links, old) \in Done
  BY <1>4
<1>7. \A t \in Kin(s) \cap Good : t \in Done => \A old \in Split(dest) :
         SplitUp(t, dest, old) \in Done
  BY <1>5
<1>8. \A t \in Kin(s) \cap Good :
         /\ x \in Renamed(dest) => Rename(t, dest, s.links, x) \in Done
         /\ x \in Split(dest) => SplitUp(t, dest, x) \in Done
  BY <1>4, <1>5
<1> HIDE DEF Good, Done
<1>9. Moved(s, dest) \in Kin(s) \cap Good \cap Done
  BY <1>1, <1>2, <1>3, <1>6, <1>7, <1>8, MovedReaches
<1> QED
  BY <1>9 DEF Done

-----------------------------------------------------------------------------
(* Candidates: a link is an old one of the security or is observed.        *)

ObservedOn(reg, obs, x) == Entities(OwnedBy(reg, obs, x))

Linked(s, reg, obs, t) ==
    \A x \in Stored(t) : \A e \in t.links[x] :
        (x \in Stored(s) /\ e \in s.links[x]) \/ e \in ObservedOn(reg, obs, x)

(* What a security was observed with goes where its days go.               *)
Followed(s, dest, reg, obs) ==
    \A x \in Stored(s) : \A e \in s.links[x] :
        \E y \in dest[x] : e \in ObservedOn(reg, obs, y)

LEMMA RenameLinked ==
    ASSUME NEW s, NEW dest, Migrates(s, dest), NEW reg, NEW obs,
           Followed(s, dest, reg, obs), NEW t \in Kin(s), Linked(s, reg, obs, t),
           NEW old \in Renamed(dest)
    PROVE  Linked(s, reg, obs, Rename(t, dest, s.links, old))
<1> DEFINE u == Rename(t, dest, s.links, old)
           new == NewId(dest, old)
           g == [x \in Stored(t) \ {old} |-> t.links[x]]
<1>1. u.links = RenameLinks(t, dest, s.links, old)
  BY KinIs, RenamedLinks
<1>2. dest[old] = {new} /\ old \in Stored(s)
  BY Fates DEF Migrates
<1>3. \A e \in s.links[old] : e \in ObservedOn(reg, obs, new)
  BY <1>2 DEF Followed
<1> HIDE DEF u, new
<1>4. CASE old \in Receivers(dest)
  <2>1. u.links = t.links
    BY <1>1, <1>4 DEF RenameLinks
  <2>2. Linked(s, reg, obs, u)
    BY <2>1 DEF Linked, Stored
  <2> QED
    BY <2>2 DEF u
<1>5. CASE old \notin Receivers(dest)
  <2>1. u.links = [g EXCEPT ![new] = g[new] \cup s.links[old]]
    BY <1>1, <1>5 DEF RenameLinks, new
  <2>2. DOMAIN u.links = Stored(t) \ {old}
    BY <2>1
  <2>3. \A x \in DOMAIN u.links : \A e \in u.links[x] :
           e \in t.links[x] \/ (x = new /\ e \in s.links[old])
    BY <2>1
  <2>4. Linked(s, reg, obs, u)
    <3> HIDE DEF g
    <3> QED
      BY <1>3, <2>2, <2>3 DEF Linked, Stored
  <2> QED
    BY <2>4 DEF u
<1> QED
  BY <1>4, <1>5

LEMMA SplitLinked ==
    ASSUME NEW s, NEW dest, NEW reg, NEW obs, NEW t \in Kin(s), Linked(s, reg, obs, t),
           NEW old
    PROVE  Linked(s, reg, obs, SplitUp(t, dest, old))
<1> DEFINE u == SplitUp(t, dest, old)
<1>1. u.links = SplitLinks(t, dest, old)
  BY KinIs, SplitsLinks
<1> HIDE DEF u
<1>2. DOMAIN u.links \subseteq Stored(t) /\ \A x \in DOMAIN u.links : u.links[x] = t.links[x]
  BY <1>1 DEF SplitLinks, Stored
<1>3. Linked(s, reg, obs, u)
  BY <1>2 DEF Linked, Stored
<1> QED
  BY <1>3 DEF u

LEMMA MovedLinked ==
    ASSUME NEW s, NEW dest, Migrates(s, dest), NEW reg, NEW obs,
           Followed(s, dest, reg, obs)
    PROVE  Linked(s, reg, obs, Moved(s, dest))
<1> DEFINE Good == {t \in Kin(s) : Linked(s, reg, obs, t)}
<1>1. Base(s, dest) \in Good
  <2>1. Base(s, dest).links = EnsuredLinks(s, Receivers(dest))
    BY BaseIs
  <2>2. Linked(s, reg, obs, Base(s, dest))
    BY <2>1 DEF Linked, EnsuredLinks, Stored
  <2> QED
    BY <2>2, StepsAre
<1>2. \A t \in Kin(s) \cap Good : \A old \in Renamed(dest) :
         Rename(t, dest, s.links, old) \in Good
  BY RenameKin, RenameLinked DEF Migrates
<1>3. \A t \in Kin(s) \cap Good : \A old \in Split(dest) : SplitUp(t, dest, old) \in Good
  BY SplitKin, SplitLinked DEF Migrates
<1> HIDE DEF Good
<1>4. Moved(s, dest) \in Kin(s) \cap Good
  BY <1>1, <1>2, <1>3, MovedKeeps
<1> QED
  BY <1>4 DEF Good

LEMMA LinksObserved ==
    ASSUME NEW s, NEW dest, Migrates(s, dest), NEW reg, NEW obs,
           Followed(s, dest, reg, obs), Unchained(dest),
           NEW x \in Stored(Moved(s, dest)), x \notin ResetTargets(dest)
    PROVE  Moved(s, dest).links[x] \subseteq ObservedOn(reg, obs, x)
<1>1. Linked(s, reg, obs, Moved(s, dest))
  BY MovedLinked
<1>2. SUFFICES ASSUME x \in Stored(s), NEW e \in s.links[x]
               PROVE  e \in ObservedOn(reg, obs, x)
  BY <1>1 DEF Linked
<1>3. x \in DOMAIN dest
  BY <1>2 DEF Migrates
<1>4. x \notin Renamed(dest)
  <2> SUFFICES ASSUME x \in Renamed(dest) PROVE FALSE
    OBVIOUS
  <2>1. x \notin Receivers(dest)
    BY <1>3, Fates DEF Unchained, Migrates
  <2> QED
    BY <2>1, Retired
<1>5. x \notin Split(dest)
  <2> SUFFICES ASSUME x \in Split(dest) PROVE FALSE
    OBVIOUS
  <2>1. x \notin dest[x]
    BY DEF ResetTargets
  <2>2. x \notin Receivers(dest)
    BY <1>3, <2>1 DEF Unchained
  <2> QED
    BY <2>2, Retired
<1>6. dest[x] = {x}
  BY <1>3, <1>4, <1>5, Fates DEF Migrates
<1> QED
  BY <1>2, <1>6 DEF Followed

-----------------------------------------------------------------------------
(* Holdings: one that named the owner of its day names the new one, or is  *)
(* unresolved.                                                             *)

LEMMA MovedHolding ==
    ASSUME NEW s, NEW dest, Migrates(s, dest), Unchained(dest), NEW h \in Holdings,
           NEW x \in Stored(s), NEW y \in dest[x], s.holdings[h] \in {None, x},
           \A t \in Kin(s) : ResolveCusip(t, h[1], h[2]) \in {None, y}
    PROVE  Moved(s, dest).holdings[h] \in {None, y}
<1> DEFINE Good == {t \in Kin(s) : t.holdings[h] \in {None, x, y}}
           Done == {t \in Kin(s) : t.holdings[h] \in {None, y}}
<1>0. None \notin SecurityIds
  <2>1. SecurityIds \subseteq STRING
    BY RegistryAssumption DEF SecurityIds, Range
  <2> QED
    BY <2>1, NoneAssumption
<1>1. Base(s, dest) \in Good
  BY BaseIs, StepsAre
<1>2. x \in DOMAIN dest
  BY DEF Migrates
<1>3. ASSUME NEW t \in Kin(s), NEW old \in Renamed(dest), NEW u,
             u = Rename(t, dest, s.links, old)
      PROVE  /\ u \in Kin(s)
             /\ u.holdings[h] = IF t.holdings[h] = old THEN NewId(dest, old)
                                ELSE t.holdings[h]
             /\ old # y /\ old # None /\ (old = x => NewId(dest, old) = y)
  <2>1. u.holdings = RenameHoldings(t, dest, old)
    BY <1>3, KinIs, RenamedHoldings
  <2>2. /\ old \in DOMAIN dest /\ old \in SecurityIds
        /\ dest[old] = {NewId(dest, old)} /\ NewId(dest, old) # old
    BY Fates DEF Migrates
  <2>3. old # y
    <3> SUFFICES ASSUME old = y PROVE FALSE
      OBVIOUS
    <3>1. y \notin dest[y]
      BY <2>2
    <3>2. x # y
      BY <3>1
    <3>3. dest[x] # {x}
      BY <3>2
    <3>4. x \in Renamed(dest) \cup Split(dest)
      BY <1>2, <3>3, Fates DEF Migrates
    <3>5. y \in Receivers(dest)
      BY <3>4 DEF Receivers
    <3> QED
      BY <2>2, <3>1, <3>5 DEF Unchained
  <2>4. u \in Kin(s)
    BY <1>3, RenameKin DEF Migrates
  <2> QED
    BY <1>0, <2>1, <2>2, <2>3, <2>4 DEF RenameHoldings
<1>4. ASSUME NEW t \in Kin(s), NEW old \in Split(dest), NEW u, u = SplitUp(t, dest, old)
      PROVE  /\ u \in Kin(s)
             /\ u.holdings[h] = t.holdings[h] \/ u.holdings[h] \in {None, y}
             /\ t.holdings[h] = old => u.holdings[h] \in {None, y}
  <2>1. u.holdings = SplitHoldings(t, old)
    BY <1>4, KinIs, SplitsHoldings
  <2>2. u \in Kin(s)
    BY <1>4, SplitKin DEF Migrates
  <2> QED
    BY <2>1, <2>2 DEF SplitHoldings
<1>5. \A t \in Kin(s) \cap Good : \A old \in Renamed(dest) :
         Rename(t, dest, s.links, old) \in Good
  BY <1>3
<1>6. \A t \in Kin(s) \cap Good : \A old \in Split(dest) : SplitUp(t, dest, old) \in Good
  BY <1>4
<1>7. CASE x = y
  <2> HIDE DEF Good
  <2>1. Moved(s, dest) \in Kin(s) \cap Good
    BY <1>1, <1>5, <1>6, MovedKeeps
  <2> QED
    BY <1>7, <2>1 DEF Good
<1>8. CASE x # y
  <2>1. x \in Renamed(dest) \cup Split(dest)
    BY <1>2, <1>8, Fates DEF Migrates
  <2>2. \A t \in Kin(s) \cap Good : t \in Done => \A old \in Renamed(dest) :
           Rename(t, dest, s.links, old) \in Done
    BY <1>3
  <2>3. \A t \in Kin(s) \cap Good : t \in Done => \A old \in Split(dest) :
           SplitUp(t, dest, old) \in Done
    BY <1>4
  <2>4. \A t \in Kin(s) \cap Good :
           /\ x \in Renamed(dest) => Rename(t, dest, s.links, x) \in Done
           /\ x \in Split(dest) => SplitUp(t, dest, x) \in Done
    BY <1>3, <1>4
  <2> HIDE DEF Good, Done
  <2>5. Moved(s, dest) \in Kin(s) \cap Good \cap Done
    BY <1>1, <1>5, <1>6, <2>1, <2>2, <2>3, <2>4, MovedReaches
  <2> QED
    BY <2>5 DEF Done
<1> QED
  BY <1>7, <1>8

(* What has no security gets none.                                         *)
LEMMA MovedUnresolved ==
    ASSUME NEW s, NEW dest, Migrates(s, dest), NEW h \in Holdings,
           s.holdings[h] \notin SecurityIds
    PROVE  Moved(s, dest).holdings[h] = s.holdings[h]
<1> DEFINE Good == {t \in Kin(s) : t.holdings[h] = s.holdings[h]}
<1>1. Base(s, dest) \in Good
  BY BaseIs, StepsAre
<1>2. ASSUME NEW t \in Kin(s) \cap Good, NEW old \in Renamed(dest)
      PROVE  Rename(t, dest, s.links, old) \in Good
  <2>1. Rename(t, dest, s.links, old).holdings = RenameHoldings(t, dest, old)
    BY KinIs, RenamedHoldings
  <2>2. old \in SecurityIds
    BY Fates DEF Migrates
  <2>3. Rename(t, dest, s.links, old) \in Kin(s)
    BY RenameKin DEF Migrates
  <2> QED
    BY <2>1, <2>2, <2>3 DEF RenameHoldings
<1>3. ASSUME NEW t \in Kin(s) \cap Good, NEW old \in Split(dest)
      PROVE  SplitUp(t, dest, old) \in Good
  <2>1. SplitUp(t, dest, old).holdings = SplitHoldings(t, old)
    BY KinIs, SplitsHoldings
  <2>2. old \in SecurityIds
    BY Fates DEF Migrates
  <2>3. SplitUp(t, dest, old) \in Kin(s)
    BY SplitKin DEF Migrates
  <2> QED
    BY <2>1, <2>2, <2>3 DEF SplitHoldings
<1> HIDE DEF Good
<1>4. Moved(s, dest) \in Kin(s) \cap Good
  BY <1>1, <1>2, <1>3, MovedKeeps
<1> QED
  BY <1>4 DEF Good

-----------------------------------------------------------------------------
(* A run keeps the store sound: its rows say who owned what, as far as it  *)
(* was observed and listed, and name securities that are stored.           *)

SidsStored(s) == \A r \in s.ids \cup s.lists : r.sid \in Stored(s)

(* What every run keeps, whatever registry it is given.                    *)
Sound(s, reg, obs) ==
    /\ IsStore(s) /\ s.listed = [q \in DOMAIN s.listed |-> s.listed[q]]
    /\ IdRows(reg, s.ids, obs)
    /\ LstRows(reg, s.lists, s.listed) /\ LstJudged(reg, s.lists)
    /\ s.links \in Links /\ s.ledger \in Pairs /\ s.holdings \in Held
    /\ SidsStored(s)

LEMMA NoneIsNoId == None \notin SecurityIds
<1>1. SecurityIds \subseteq STRING
  BY RegistryAssumption DEF SecurityIds, Range
<1> QED
  BY <1>1, NoneAssumption

(* A row of observed days names the owner of one of them.                  *)
LEMMA IdSid ==
    ASSUME NEW reg, NEW rows, NEW obs, IdRows(reg, rows, obs), NEW r \in rows
    PROVE  \E o \in obs : r.value = o.value /\ r.sid = OwnerOf(reg, o.value, o.day)
<1> USE RegistryAssumption
<1>1. /\ r \in Row /\ r.from < r.to /\ Owned(reg, r)
      /\ \A d \in Days : Holds(r, d) => \E o \in obs : o.value = r.value /\ o.day = d
  BY DEF IdRows, Spans
<1>2. r.from \in Days /\ Holds(r, r.from)
  BY <1>1 DEF Row, Holds, Days
<1> QED
  BY <1>1, <1>2 DEF Owned

(* An observed day is held by a row of its owner.                          *)
LEMMA IdHeld ==
    ASSUME NEW reg, NEW rows, NEW obs \in Corpora, IdRows(reg, rows, obs), NEW o \in obs
    PROVE  \E r \in rows : /\ r.value = o.value /\ Holds(r, o.day)
                           /\ r.sid = OwnerOf(reg, o.value, o.day)
<1>1. PICK r \in rows : r.value = o.value /\ Holds(r, o.day)
  BY DEF IdRows
<1>2. o.day \in Days
  BY DEF Corpora, Observation
<1>3. Owned(reg, r)
  BY DEF IdRows
<1> QED
  BY <1>1, <1>2, <1>3 DEF Owned

LEMMA RawOfSound ==
    ASSUME NEW s, NEW reg, NEW obs, Sound(s, reg, obs)
    PROVE  /\ s.ids \in SUBSET (RawRow \cup RawListRow) /\ Spans(s.ids)
           /\ s.lists \in SUBSET (RawRow \cup RawListRow) /\ Spans(s.lists)
           /\ \A r \in s.ids \cup s.lists :
                 /\ r \in RawRow \cup RawListRow /\ r.from < r.to
                 /\ r \in Row \/ r \in ListRow
                 /\ Owned(reg, r)
<1>1. \A r \in s.ids : r \in Row /\ r.from < r.to /\ Owned(reg, r)
  BY DEF Sound, IdRows, Spans
<1>2. \A r \in s.lists : r \in ListRow /\ r.from < r.to /\ Owned(reg, r)
  BY DEF Sound, LstRows, LstRow
<1> QED
  BY <1>1, <1>2, RowsAreRaw DEF Spans

-----------------------------------------------------------------------------
(* The plan.                                                               *)

LEMMA PlanIs ==
    ASSUME NEW old, NEW reg \in Registry, NEW s, NEW obs, Sound(s, old, obs)
    PROVE  /\ DOMAIN Plan(reg, s) = Stored(s) /\ IsPlan(Plan(reg, s))
           /\ \A r \in s.ids \cup s.lists : \A p \in CutInterval(reg, r) :
                 p.sid \in Plan(reg, s)[r.sid]
<1> DEFINE dest == Plan(reg, s)
           Mine(x) == {r \in s.ids \cup s.lists : r.sid = x}
           pieces(x) == UNION {CutInterval(reg, r) : r \in Mine(x)}
<1>1. DOMAIN dest = Stored(s) /\ \A x \in Stored(s) : dest[x] = Destinations(reg, s, x)
  BY DEF Plan
<1>2. \A x : Destinations(reg, s, x) =
         IF Mine(x) = {} THEN {x} ELSE {p.sid : p \in pieces(x)}
  BY DEF Destinations
<1> HIDE DEF dest
<1>3. ASSUME NEW r \in s.ids \cup s.lists, NEW p \in CutInterval(reg, r)
      PROVE  p.sid \in dest[r.sid] /\ p.sid \in SecurityIds
  <2>1. r.sid \in Stored(s)
    BY DEF Sound, SidsStored
  <2>2. r \in Mine(r.sid) /\ p \in pieces(r.sid)
    OBVIOUS
  <2>3. p.sid \in SecurityIds
    <3>1. r \in RawRow \cup RawListRow /\ r.from < r.to
      BY RawOfSound
    <3>2. p \in Row \/ p \in ListRow
      BY <3>1, Piece
    <3> QED
      BY <3>2 DEF Row, ListRow
  <2> QED
    BY <1>1, <1>2, <2>1, <2>2, <2>3
<1>4. ASSUME NEW x \in Stored(s)
      PROVE  x \in SecurityIds /\ dest[x] \in SUBSET SecurityIds /\ dest[x] # {}
  <2>1. x \in SecurityIds
    BY LinksAre DEF Sound, Stored
  <2>2. CASE Mine(x) = {}
    BY <1>1, <1>2, <2>1, <2>2
  <2>3. CASE Mine(x) # {}
    <3>1. PICK r \in s.ids \cup s.lists : r.sid = x
      BY <2>3
    <3>2. r \in RawRow \cup RawListRow /\ r.from < r.to /\ (r \in Row \/ r \in ListRow)
      BY RawOfSound
    <3>3. r.from \in Days /\ Holds(r, r.from)
      BY <3>2, RegistryAssumption DEF Row, ListRow, Holds, Days
    <3>4. PICK p \in CutInterval(reg, r) : Holds(p, r.from)
      BY <3>2, <3>3, PiecesCover
    <3>5. dest[x] # {}
      BY <1>3, <3>1, <3>4
    <3>6. \A y \in dest[x] : y \in SecurityIds
      <4> SUFFICES ASSUME NEW y \in dest[x] PROVE y \in SecurityIds
        OBVIOUS
      <4>1. y \in {k.sid : k \in pieces(x)}
        BY <1>1, <1>2, <2>3
      <4>2. PICK k \in s.ids \cup s.lists : \E i \in CutInterval(reg, k) : y = i.sid
        BY <4>1
      <4> QED
        BY <1>3, <4>2
    <3> QED
      BY <2>1, <3>5, <3>6
  <2> QED
    BY <2>2, <2>3
<1> QED
  BY <1>1, <1>3, <1>4 DEF IsPlan, dest

CutStore(reg, s) ==
    [ids |-> CutTable(reg, s.ids), lists |-> CutTable(reg, s.lists), links |-> s.links,
     ledger |-> s.ledger, holdings |-> s.holdings, listed |-> s.listed]

LEMMA WithTables ==
    ASSUME NEW s, IsStore(s), NEW a, NEW b
    PROVE  [s EXCEPT !.ids = a, !.lists = b] =
             [ids |-> a, lists |-> b, links |-> s.links, ledger |-> s.ledger,
              holdings |-> s.holdings, listed |-> s.listed]
<1> DEFINE all == {"ids", "lists", "links", "ledger", "holdings", "listed"}
           u == [s EXCEPT !.ids = a, !.lists = b]
           w == [ids |-> a, lists |-> b, links |-> s.links, ledger |-> s.ledger,
                 holdings |-> s.holdings, listed |-> s.listed]
<1>1. DOMAIN s = all /\ s = [f \in DOMAIN s |-> s[f]]
  BY DEF IsStore
<1>2. DOMAIN u = all /\ u = [f \in all |-> u[f]]
  BY <1>1
<1>3. DOMAIN w = all /\ w = [f \in all |-> w[f]]
  OBVIOUS
<1>4. \A f \in all : u[f] = w[f]
  <2>1. u.ids = w.ids /\ u.lists = w.lists
    BY <1>1
  <2>2. u.links = w.links /\ u.ledger = w.ledger
    BY <1>1
  <2>3. u.holdings = w.holdings /\ u.listed = w.listed
    BY <1>1
  <2> HIDE DEF u, w
  <2> QED
    BY <2>1, <2>2, <2>3
<1> HIDE DEF u, w, all
<1>5. u = w
  BY <1>2, <1>3, <1>4
<1> QED
  BY <1>5 DEF u, w

(* The rows after the cut.                                                 *)
LEMMA CutSid ==
    ASSUME NEW old, NEW reg \in Registry, NEW s, NEW obs, Sound(s, old, obs),
           NEW p \in CutStore(reg, s).ids \cup CutStore(reg, s).lists
    PROVE  /\ p.sid \in SecurityIds /\ Owned(reg, p)
           /\ \E x \in Stored(s) : p.sid \in Plan(reg, s)[x]
<1>1. p \in CutTable(reg, s.ids) \/ p \in CutTable(reg, s.lists)
  BY DEF CutStore
<1>2. PICK r \in s.ids \cup s.lists : \E q \in CutInterval(reg, r) : IsPieceOf(reg, p, q, r)
  BY <1>1, RawOfSound, CutTableFrom
<1>3. PICK q \in CutInterval(reg, r) : IsPieceOf(reg, p, q, r)
  BY <1>2
<1>4. p.sid = q.sid /\ Owned(reg, p)
  BY <1>3 DEF IsPieceOf
<1>5. r.sid \in Stored(s) /\ q.sid \in Plan(reg, s)[r.sid]
  BY PlanIs DEF Sound, SidsStored
<1>6. Plan(reg, s)[r.sid] \in SUBSET SecurityIds
  BY <1>5, PlanIs DEF IsPlan
<1> QED
  BY <1>4, <1>5, <1>6

LEMMA CutMigrates ==
    ASSUME NEW old, NEW reg \in Registry, NEW s, NEW obs, Sound(s, old, obs)
    PROVE  Migrates(CutStore(reg, s), Plan(reg, s)) /\ Stored(CutStore(reg, s)) = Stored(s)
<1> DEFINE c == CutStore(reg, s)
<1>1. /\ c.links = s.links /\ c.ledger = s.ledger /\ c.holdings = s.holdings
      /\ c = [ids |-> c.ids, lists |-> c.lists, links |-> c.links, ledger |-> c.ledger,
              holdings |-> c.holdings, listed |-> c.listed]
  BY DEF CutStore
<1>2. SidsKnown(c)
  BY CutSid DEF SidsKnown
<1> HIDE DEF c
<1>3. c \in Kin(c)
  BY <1>1, IsKin DEF Sound
<1>4. Stored(c) = Stored(s)
  BY <1>1 DEF Stored
<1> QED
  BY <1>2, <1>3, <1>4, PlanIs DEF Migrates, c

-----------------------------------------------------------------------------
(* The reconciliation of a store with a registry.                          *)

After(reg, s) == Moved(CutStore(reg, s), Plan(reg, s))

ResetLinks(reg, s) ==
    [x \in Stored(After(reg, s)) |->
        IF x \in ResetTargets(Plan(reg, s)) THEN {} ELSE After(reg, s).links[x]]

JudgedLists(reg, s) ==
    {[r EXCEPT !.review = reg.review[r.sid]] : r \in CutTable(reg, s.lists)}

LEMMA ReconcileIs ==
    ASSUME NEW old, NEW reg \in Registry, NEW s, NEW obs, Sound(s, old, obs)
    PROVE  /\ After(reg, s) \in Kin(CutStore(reg, s))
           /\ ReconcileRegistry(reg, s) =
                [ids |-> ReconcileReview(reg, CutTable(reg, s.ids)),
                 lists |-> JudgedLists(reg, s), links |-> ResetLinks(reg, s),
                 ledger |-> After(reg, s).ledger, holdings |-> After(reg, s).holdings,
                 listed |-> s.listed]
<1> DEFINE c == CutStore(reg, s)
           dest == Plan(reg, s)
           m == After(reg, s)
           l == ResetLinks(reg, s)
           moved == Migrate(c, dest)
           a == ReconcileReview(reg, CutTable(reg, s.ids))
           b == JudgedLists(reg, s)
<1>1. Migrates(c, dest)
  BY CutMigrates
<1>2. m \in Kin(c)
  BY <1>1, MovedLives DEF After
<1>3. IsStore(m) /\ m.ids = c.ids /\ m.lists = c.lists /\ m.listed = c.listed
  BY <1>2, KinIs
<1>4. c.ids = CutTable(reg, s.ids) /\ c.lists = CutTable(reg, s.lists) /\ c.listed = s.listed
  BY DEF CutStore
<1>5. moved = [m EXCEPT !.links = l]
  BY DEF Migrate, ResetLinks, After, Stored
<1>6. moved = [ids |-> m.ids, lists |-> m.lists, links |-> l, ledger |-> m.ledger,
               holdings |-> m.holdings, listed |-> m.listed]
  <2> HIDE DEF moved, m, l
  <2> QED
    BY <1>3, <1>5, WithLinks
<1>7. [s EXCEPT !.ids = CutTable(reg, @), !.lists = CutTable(reg, @)] = c
  <2>1. IsStore(s)
    BY DEF Sound
  <2> QED
    BY <2>1, WithTables DEF CutStore
<1>8. ReconcileRegistry(reg, s) =
        [moved EXCEPT !.ids = ReconcileReview(reg, @),
                      !.lists = {[r EXCEPT !.review = reg.review[r.sid]] : r \in @}]
  <2> HIDE DEF c, dest
  <2> QED
    BY <1>7 DEF ReconcileRegistry, dest
<1>9. ReconcileRegistry(reg, s) = [moved EXCEPT !.ids = a, !.lists = b]
  <2>1. moved.ids = CutTable(reg, s.ids) /\ moved.lists = CutTable(reg, s.lists)
    BY <1>3, <1>4, <1>6
  <2> HIDE DEF moved
  <2> QED
    BY <1>8, <2>1 DEF JudgedLists
<1> HIDE DEF c, dest, m, l, moved, a, b
<1>10. IsStore(moved)
  BY <1>6 DEF IsStore
<1>11. ReconcileRegistry(reg, s) = [ids |-> a, lists |-> b, links |-> moved.links,
          ledger |-> moved.ledger, holdings |-> moved.holdings, listed |-> moved.listed]
  BY <1>9, <1>10, WithTables
<1>12. /\ moved.links = l /\ moved.ledger = m.ledger /\ moved.holdings = m.holdings
       /\ moved.listed = s.listed
  BY <1>3, <1>4, <1>6
<1>13. ReconcileRegistry(reg, s) = [ids |-> a, lists |-> b, links |-> l,
          ledger |-> m.ledger, holdings |-> m.holdings, listed |-> s.listed]
  BY <1>11, <1>12
<1> QED
  BY <1>2, <1>13 DEF a, b, l, m, c

LEMMA ReconcileFields ==
    ASSUME NEW old, NEW reg \in Registry, NEW s, NEW obs, Sound(s, old, obs),
           NEW u, u = ReconcileRegistry(reg, s)
    PROVE  /\ IsStore(u) /\ u.ids = ReconcileReview(reg, CutTable(reg, s.ids))
           /\ u.lists = JudgedLists(reg, s) /\ u.links = ResetLinks(reg, s)
           /\ u.ledger = After(reg, s).ledger /\ u.holdings = After(reg, s).holdings
           /\ u.listed = s.listed /\ Stored(u) = Stored(After(reg, s))
<1>1. u = [ids |-> ReconcileReview(reg, CutTable(reg, s.ids)),
           lists |-> JudgedLists(reg, s), links |-> ResetLinks(reg, s),
           ledger |-> After(reg, s).ledger, holdings |-> After(reg, s).holdings,
           listed |-> s.listed]
  BY ReconcileIs
<1>2. DOMAIN ResetLinks(reg, s) = Stored(After(reg, s))
  BY DEF ResetLinks
<1> QED
  BY <1>1, <1>2 DEF IsStore, Stored

(* Where an id that was stored leads, something is stored.                 *)
LEMMA DestinationsStored ==
    ASSUME NEW s, NEW dest, Migrates(s, dest), NEW x \in Stored(s), NEW y \in dest[x]
    PROVE  y \in Stored(Moved(s, dest))
<1>1. Living(s, dest, Moved(s, dest)) /\ x \in DOMAIN dest
  BY MovedLives DEF Migrates
<1>2. CASE dest[x] = {x}
  <2>1. x \notin Renamed(dest) /\ x \notin Split(dest)
    <3>1. x \notin Renamed(dest)
      BY <1>2 DEF Renamed
    <3>2. x \notin Split(dest)
      BY <1>2, Fates DEF Migrates
    <3> QED
      BY <3>1, <3>2
  <2> QED
    BY <1>1, <1>2, <2>1 DEF Living
<1>3. CASE dest[x] # {x}
  <2>1. x \in Renamed(dest) \cup Split(dest)
    BY <1>1, <1>3, Fates DEF Migrates
  <2>2. y \in Receivers(dest)
    BY <2>1 DEF Receivers
  <2> QED
    BY <1>1, <2>2 DEF Living
<1> QED
  BY <1>2, <1>3

LEMMA ReconcileSound ==
    ASSUME NEW old, NEW reg \in Registry, NEW s, NEW obs \in Corpora, Sound(s, old, obs),
           NEW u, u = ReconcileRegistry(reg, s)
    PROVE  Sound(u, reg, obs) /\ Judged(reg, u.ids, obs)
<1> DEFINE c == CutStore(reg, s)
           m == After(reg, s)
<1>1. /\ IsStore(u) /\ u.ids = ReconcileReview(reg, CutTable(reg, s.ids))
      /\ u.lists = JudgedLists(reg, s) /\ u.links = ResetLinks(reg, s)
      /\ u.ledger = m.ledger /\ u.holdings = m.holdings
      /\ u.listed = s.listed /\ Stored(u) = Stored(m)
  BY ReconcileFields
<1>2. /\ c.ids = CutTable(reg, s.ids) /\ c.lists = CutTable(reg, s.lists)
  BY DEF CutStore
<1> HIDE DEF c, m
<1>3. IdRows(reg, c.ids, obs) /\ LstRows(reg, c.lists, s.listed)
  BY <1>2, CutKeepsIds, CutKeepsLists DEF Sound
<1>4. IdRows(reg, u.ids, obs) /\ Judged(reg, u.ids, obs)
  BY <1>1, <1>2, <1>3, ReconcileJudges
<1>5. LstRows(reg, u.lists, u.listed) /\ LstJudged(reg, u.lists)
  BY <1>1, <1>2, <1>3, ReviewsKeepLists DEF JudgedLists
<1>6. m \in Kin(c)
  BY ReconcileIs DEF c, m
<1>7. m.links \in Links /\ m.ledger \in Pairs /\ m.holdings \in Held
  BY <1>6, KinIs
<1>8. ResetLinks(reg, s) \in Links
  <2> DEFINE l == ResetLinks(reg, s)
  <2>1. DOMAIN l = DOMAIN m.links /\ l = [x \in DOMAIN l |-> l[x]]
    BY DEF ResetLinks, Stored, m
  <2>2. \A x \in DOMAIN l : l[x] = {} \/ l[x] = m.links[x]
    BY DEF ResetLinks, m
  <2> HIDE DEF l
  <2>3. /\ DOMAIN m.links \subseteq SecurityIds
        /\ \A x \in DOMAIN m.links : m.links[x] \subseteq Entities(UNION Files)
    BY <1>7, LinksAre
  <2>4. l \in Links
    BY <2>1, <2>2, <2>3, LinksAre
  <2> QED
    BY <2>4 DEF l
<1>9. ASSUME NEW p \in c.ids \cup c.lists PROVE p.sid \in Stored(u)
  <2>1. PICK x \in Stored(s) : p.sid \in Plan(reg, s)[x]
    BY <1>9, CutSid DEF c
  <2>2. Migrates(c, Plan(reg, s)) /\ x \in Stored(c)
    BY <2>1, CutMigrates DEF c
  <2>3. p.sid \in Stored(Moved(c, Plan(reg, s)))
    BY <2>1, <2>2, DestinationsStored
  <2> QED
    BY <1>1, <2>3 DEF m, After, c
<1>10. SidsStored(u)
  <2>1. ASSUME NEW r \in u.ids PROVE r.sid \in Stored(u)
    <3>1. PICK o \in obs : r.value = o.value /\ r.sid = OwnerOf(reg, o.value, o.day)
      BY <1>4, <2>1, IdSid
    <3>2. PICK p \in c.ids : p.sid = OwnerOf(reg, o.value, o.day)
      BY <1>3, IdHeld
    <3> QED
      BY <1>9, <3>1, <3>2
  <2>2. ASSUME NEW r \in u.lists PROVE r.sid \in Stored(u)
    <3>1. PICK p \in c.lists : r = [p EXCEPT !.review = reg.review[p.sid]]
      BY <1>1, <1>2, <2>2 DEF JudgedLists
    <3>2. p \in ListRow
      BY <1>3 DEF LstRows, LstRow
    <3>3. r.sid = p.sid
      BY <3>1, <3>2 DEF ListRow
    <3> QED
      BY <1>9, <3>3
  <2> QED
    BY <2>1, <2>2 DEF SidsStored
<1> QED
  BY <1>1, <1>4, <1>5, <1>7, <1>8, <1>10 DEF Sound

LEMMA ReconcileLeads ==
    ASSUME NEW old, NEW reg \in Registry, NEW s, NEW obs, Sound(s, old, obs),
           NEW gone, Leads(s, gone)
    PROVE  Leads(ReconcileRegistry(reg, s), gone)
<1> DEFINE c == CutStore(reg, s)
           u == ReconcileRegistry(reg, s)
<1>1. c.ledger = s.ledger /\ Stored(c) = Stored(s)
  BY CutMigrates DEF CutStore
<1>2. Leads(c, gone)
  <2> HIDE DEF c
  <2> QED
    BY <1>1 DEF Leads
<1>3. Leads(After(reg, s), gone)
  BY <1>2, CutMigrates, MovedLeads DEF After
<1>4. u.ledger = After(reg, s).ledger /\ Stored(u) = Stored(After(reg, s))
  BY ReconcileFields
<1>5. Leads(u, gone)
  <2> HIDE DEF u
  <2> QED
    BY <1>3, <1>4 DEF Leads
<1> QED
  BY <1>5

-----------------------------------------------------------------------------
(* Where nothing that is stored receives anything unless it is kept.       *)

LinksSound(s, reg, obs) ==
    \A x \in Stored(s) : s.links[x] \subseteq ObservedOn(reg, obs, x)

LEMMA ReconcileLinks ==
    ASSUME NEW old, NEW reg \in Registry, NEW s, NEW obs \in Corpora, Sound(s, old, obs),
           Unchained(Plan(reg, s)), LinksSound(s, old, obs)
    PROVE  LinksSound(ReconcileRegistry(reg, s), reg, obs)
<1> DEFINE c == CutStore(reg, s)
           dest == Plan(reg, s)
           u == ReconcileRegistry(reg, s)
           m == After(reg, s)
<1>1. Migrates(c, dest) /\ Stored(c) = Stored(s) /\ c.links = s.links
  BY CutMigrates DEF CutStore
<1>2. Followed(c, dest, reg, obs)
  <2> SUFFICES ASSUME NEW x \in Stored(s), NEW e \in s.links[x]
               PROVE \E y \in dest[x] : e \in ObservedOn(reg, obs, y)
    BY <1>1 DEF Followed
  <2>1. e \in ObservedOn(old, obs, x)
    BY DEF LinksSound
  <2>2. PICK o \in obs : OwnerOf(old, o.value, o.day) = x /\ o.entity = e /\ e # None
    BY <2>1 DEF ObservedOn, Entities, OwnedBy
  <2>3. PICK r \in s.ids : /\ r.value = o.value /\ Holds(r, o.day)
                           /\ r.sid = OwnerOf(old, o.value, o.day)
    BY IdHeld DEF Sound
  <2>4. r \in RawRow \cup RawListRow /\ r.from < r.to /\ o.day \in Days
    BY RawOfSound DEF Corpora, Observation
  <2>5. PICK p \in CutInterval(reg, r) : Holds(p, o.day)
    BY <2>3, <2>4, PiecesCover
  <2>6. p.sid = OwnerOf(reg, o.value, o.day)
    BY <2>3, <2>4, <2>5, Piece DEF Owned
  <2>7. p.sid \in dest[x]
    BY <2>2, <2>3, PlanIs
  <2>8. e \in ObservedOn(reg, obs, p.sid)
    BY <2>2, <2>6 DEF ObservedOn, Entities, OwnedBy
  <2> QED
    BY <2>7, <2>8
<1>3. u.links = ResetLinks(reg, s) /\ Stored(u) = Stored(m)
  BY ReconcileFields
<1>4. m = Moved(c, dest)
  BY DEF After
<1> HIDE DEF c, dest, u, m
<1>5. \A x \in Stored(m) : x \notin ResetTargets(dest) =>
         m.links[x] \subseteq ObservedOn(reg, obs, x)
  BY <1>1, <1>2, <1>4, LinksObserved DEF dest
<1>6. \A x \in Stored(m) : u.links[x] = IF x \in ResetTargets(dest) THEN {} ELSE m.links[x]
  BY <1>3 DEF ResetLinks, dest, m
<1>7. LinksSound(u, reg, obs)
  BY <1>3, <1>5, <1>6 DEF LinksSound
<1> QED
  BY <1>7 DEF u

(* A day of a holding that is observed or listed has a row of its owner.   *)
Covers(h, obs, listed) ==
    \/ \E o \in obs : o.value = h[1] /\ o.day = h[2]
    \/ \E q \in DOMAIN listed : h[1] \in listed[q] /\ Holds(Quarter[q], h[2])

LEMMA CoveredByRow ==
    ASSUME NEW s, NEW reg, NEW obs \in Corpora, Sound(s, reg, obs), NEW h \in Holdings,
           Covers(h, obs, s.listed)
    PROVE  \E r \in s.ids \cup s.lists :
              r.value = h[1] /\ Holds(r, h[2]) /\ r.sid = OwnerOf(reg, h[1], h[2])
<1>1. h[1] \in Values /\ h[2] \in Days
  BY RegistryAssumption
<1>2. CASE \E o \in obs : o.value = h[1] /\ o.day = h[2]
  BY <1>2, IdHeld DEF Sound
<1>3. CASE \E q \in DOMAIN s.listed : h[1] \in s.listed[q] /\ Holds(Quarter[q], h[2])
  <2>1. PICK q \in DOMAIN s.listed : h[1] \in s.listed[q] /\ Holds(Quarter[q], h[2])
    BY <1>3
  <2>2. PICK r \in s.lists : r.value = h[1] /\ Holds(r, h[2])
    BY <1>1, <2>1 DEF Sound, LstRows, Listed
  <2>3. Owned(reg, r)
    BY RawOfSound
  <2> QED
    BY <1>1, <2>2, <2>3 DEF Owned
<1> QED
  BY <1>2, <1>3 DEF Covers

LEMMA ReconcileHolding ==
    ASSUME NEW old, NEW reg \in Registry, NEW s, NEW obs \in Corpora, Sound(s, old, obs),
           Unchained(Plan(reg, s)), NEW h \in Holdings, Covers(h, obs, s.listed),
           s.holdings[h] \in {None, OwnerOf(old, h[1], h[2])}
    PROVE  ReconcileRegistry(reg, s).holdings[h] \in {None, OwnerOf(reg, h[1], h[2])}
<1> DEFINE c == CutStore(reg, s)
           dest == Plan(reg, s)
           x == OwnerOf(old, h[1], h[2])
           y == OwnerOf(reg, h[1], h[2])
<1>1. h[1] \in Values /\ h[2] \in Days
  BY RegistryAssumption
<1>2. PICK r \in s.ids \cup s.lists : r.value = h[1] /\ Holds(r, h[2]) /\ r.sid = x
  BY CoveredByRow
<1>3. r \in RawRow \cup RawListRow /\ r.from < r.to
  BY RawOfSound
<1>4. PICK p \in CutInterval(reg, r) : Holds(p, h[2])
  BY <1>1, <1>2, <1>3, PiecesCover
<1>5. p.sid = y
  BY <1>1, <1>2, <1>3, <1>4, Piece DEF Owned
<1>6. y \in dest[x] /\ x \in Stored(s)
  <2>1. p.sid \in dest[r.sid]
    BY PlanIs
  <2> QED
    BY <1>2, <1>5, <2>1 DEF Sound, SidsStored
<1>7. Migrates(c, dest) /\ Stored(c) = Stored(s)
  BY CutMigrates
<1>8. ASSUME NEW t \in Kin(c) PROVE ResolveCusip(t, h[1], h[2]) \in {None, y}
  <2>1. t.ids = c.ids /\ t.lists = c.lists
    BY KinIs
  <2>2. \A k \in t.ids \cup t.lists : k.sid \in SecurityIds /\ Owned(reg, k)
    BY <2>1, CutSid
  <2>3. CASE ResolveCusip(t, h[1], h[2]) # None
    <3>1. PICK k \in t.ids \cup t.lists : /\ k.value = h[1] /\ Holds(k, h[2])
                                          /\ ResolveCusip(t, h[1], h[2]) = k.sid
      BY <2>2, <2>3, ResolveType
    <3> QED
      BY <1>1, <2>2, <3>1 DEF Owned
  <2> QED
    BY <2>3
<1>9. c.holdings = s.holdings
  BY DEF CutStore
<1>10. ReconcileRegistry(reg, s).holdings = Moved(c, dest).holdings
  BY ReconcileFields DEF After
<1> HIDE DEF c, dest, x, y
<1>11. Moved(c, dest).holdings[h] \in {None, y}
  <2>1. Unchained(dest) /\ c.holdings[h] \in {None, x} /\ x \in Stored(c)
    BY <1>6, <1>7, <1>9 DEF dest, x
  <2> QED
    BY <1>6, <1>7, <1>8, <2>1, MovedHolding
<1> QED
  BY <1>10, <1>11 DEF y

LEMMA ReconcileUnresolved ==
    ASSUME NEW old, NEW reg \in Registry, NEW s, NEW obs, Sound(s, old, obs),
           NEW h \in Holdings, s.holdings[h] \notin SecurityIds
    PROVE  ReconcileRegistry(reg, s).holdings[h] = s.holdings[h]
<1>1. CutStore(reg, s).holdings = s.holdings
  BY DEF CutStore
<1>2. Moved(CutStore(reg, s), Plan(reg, s)).holdings[h] = CutStore(reg, s).holdings[h]
  BY <1>1, CutMigrates, MovedUnresolved
<1>3. ReconcileRegistry(reg, s).holdings = After(reg, s).holdings
  BY ReconcileFields
<1> QED
  BY <1>1, <1>2, <1>3 DEF After

-----------------------------------------------------------------------------
(* The observations of a run, and its list.                                *)

LEMMA ObservedType ==
    ASSUME NEW reg, NEW obs, obs \subseteq UNION Files, NEW x
    PROVE  ObservedOn(reg, obs, x) \subseteq Entities(UNION Files)
BY DEF ObservedOn, Entities, OwnedBy

LEMMA FtdFields ==
    ASSUME NEW reg, NEW s, IsStore(s), NEW obs, NEW u, u = BootstrapFtd(reg, s, obs)
    PROVE  /\ IsStore(u) /\ u.lists = s.lists /\ u.links = FtdLinks(reg, s, obs)
           /\ u.ledger = s.ledger /\ u.holdings = s.holdings /\ u.listed = s.listed
           /\ Stored(u) = {o[1] : o \in Owners(reg, obs)} \cup Stored(s)
<1> DEFINE ids == Stamp(FtdRows(reg, s.ids, obs), FtdVerdict(reg, s.ids, obs))
<1>1. u = [ids |-> ids, lists |-> s.lists, links |-> FtdLinks(reg, s, obs),
           ledger |-> s.ledger, holdings |-> s.holdings, listed |-> s.listed]
  BY FtdStore
<1>2. DOMAIN FtdLinks(reg, s, obs) = {o[1] : o \in Owners(reg, obs)} \cup Stored(s)
  BY DEF FtdLinks
<1> HIDE DEF ids
<1> QED
  BY <1>1, <1>2 DEF IsStore, Stored

LEMMA FtdSound ==
    ASSUME NEW reg \in Registry, NEW s, NEW old \in Corpora, Sound(s, reg, old),
           NEW obs \in Corpora, obs \subseteq UNION Files,
           NEW u, u = BootstrapFtd(reg, s, obs)
    PROVE  /\ Sound(u, reg, old \cup obs)
           /\ Judged(reg, s.ids, old \cup obs) => Judged(reg, u.ids, old \cup obs)
<1>1. IsStore(s)
  BY DEF Sound
<1>2. /\ IsStore(u) /\ u.lists = s.lists /\ u.links = FtdLinks(reg, s, obs)
      /\ u.ledger = s.ledger /\ u.holdings = s.holdings /\ u.listed = s.listed
      /\ Stored(u) = {o[1] : o \in Owners(reg, obs)} \cup Stored(s)
  BY <1>1, FtdFields
<1>3. /\ IdRows(reg, u.ids, old \cup obs)
      /\ Judged(reg, s.ids, old \cup obs) => Judged(reg, u.ids, old \cup obs)
  BY <1>1, FtdKeepsIds DEF Sound
<1>4. \A o \in obs : OwnerOf(reg, o.value, o.day) \in Stored(u)
  <2> SUFFICES ASSUME NEW o \in obs PROVE OwnerOf(reg, o.value, o.day) \in Stored(u)
    OBVIOUS
  <2>1. <<OwnerOf(reg, o.value, o.day), o.value>> \in Owners(reg, obs)
    BY DEF Owners
  <2> QED
    BY <1>2, <2>1
<1>5. SidsStored(u)
  <2>1. ASSUME NEW r \in u.ids PROVE r.sid \in Stored(u)
    <3>1. PICK o \in old \cup obs : r.value = o.value /\ r.sid = OwnerOf(reg, o.value, o.day)
      BY <1>3, <2>1, IdSid
    <3>2. CASE o \in old
      <4>1. PICK k \in s.ids : k.sid = OwnerOf(reg, o.value, o.day)
        BY <3>2, IdHeld DEF Sound
      <4> QED
        BY <1>2, <3>1, <4>1 DEF Sound, SidsStored
    <3> QED
      BY <1>4, <3>1, <3>2
  <2>2. \A r \in u.lists : r.sid \in Stored(u)
    BY <1>2 DEF Sound, SidsStored
  <2> QED
    BY <2>1, <2>2 DEF SidsStored
<1>6. FtdLinks(reg, s, obs) \in Links
  <2> DEFINE l == FtdLinks(reg, s, obs)
  <2>1. /\ DOMAIN s.links \subseteq SecurityIds
        /\ \A x \in DOMAIN s.links : s.links[x] \subseteq Entities(UNION Files)
    BY LinksAre DEF Sound
  <2>2. /\ DOMAIN l = {o[1] : o \in Owners(reg, obs)} \cup Stored(s)
        /\ l = [x \in DOMAIN l |-> l[x]]
    BY DEF FtdLinks
  <2>3. \A x \in DOMAIN l : \A e \in l[x] :
           (x \in Stored(s) /\ e \in s.links[x]) \/ e \in ObservedOn(reg, obs, x)
    BY DEF FtdLinks, ObservedOn
  <2> HIDE DEF l
  <2>4. \A x \in {o[1] : o \in Owners(reg, obs)} : x \in SecurityIds
    <3> SUFFICES ASSUME NEW o \in obs PROVE OwnerOf(reg, o.value, o.day) \in SecurityIds
      BY DEF Owners
    <3>1. o.value \in Values /\ o.day \in Days
      BY DEF Corpora, Observation
    <3> QED
      BY <3>1 DEF Registry, OwnerOf
  <2>5. DOMAIN l \subseteq SecurityIds
    BY <2>1, <2>2, <2>4 DEF Stored
  <2>6. \A x \in DOMAIN l : l[x] \subseteq Entities(UNION Files)
    BY <2>1, <2>3, ObservedType DEF Stored
  <2>7. l \in Links
    BY <2>2, <2>5, <2>6, LinksAre
  <2> QED
    BY <2>7 DEF l
<1> QED
  BY <1>2, <1>3, <1>5, <1>6 DEF Sound

LEMMA FtdLeads ==
    ASSUME NEW reg, NEW s, IsStore(s), NEW obs, NEW gone, Leads(s, gone),
           NEW u, u = BootstrapFtd(reg, s, obs)
    PROVE  Leads(u, gone) /\ Stored(s) \subseteq Stored(u)
<1>1. u.ledger = s.ledger /\ Stored(u) = {o[1] : o \in Owners(reg, obs)} \cup Stored(s)
  BY FtdFields
<1> QED
  BY <1>1 DEF Leads

(* What a run observes of a security becomes its candidates.               *)
Told(s, reg, obs) == \A x \in Stored(s) : ObservedOn(reg, obs, x) \subseteq s.links[x]

LEMMA FtdTells ==
    ASSUME NEW reg, NEW s, IsStore(s), NEW obs, NEW u, u = BootstrapFtd(reg, s, obs)
    PROVE  /\ Told(u, reg, obs)
           /\ \A x : ObservedOn(reg, obs, x) # {} => x \in Stored(u)
<1>1. /\ u.links = FtdLinks(reg, s, obs)
      /\ Stored(u) = {o[1] : o \in Owners(reg, obs)} \cup Stored(s)
  BY FtdFields
<1>2. Told(u, reg, obs)
  BY <1>1 DEF FtdLinks, ObservedOn, Stored, Told
<1>3. ASSUME NEW x, ObservedOn(reg, obs, x) # {} PROVE x \in Stored(u)
  <2>1. PICK o \in obs : OwnerOf(reg, o.value, o.day) = x
    BY <1>3 DEF ObservedOn, Entities, OwnedBy
  <2>2. <<x, o.value>> \in Owners(reg, obs)
    BY <2>1 DEF Owners
  <2>3. x \in {p[1] : p \in Owners(reg, obs)}
    BY <2>2
  <2> QED
    BY <1>1, <2>3
<1> QED
  BY <1>2, <1>3

LEMMA FtdObserved ==
    ASSUME NEW reg, NEW s, IsStore(s), NEW old, NEW obs, LinksSound(s, reg, old),
           NEW u, u = BootstrapFtd(reg, s, obs)
    PROVE  LinksSound(u, reg, old \cup obs)
<1>1. u.links = FtdLinks(reg, s, obs)
  BY FtdFields
<1>2. \A x \in Stored(u) : \A e \in u.links[x] :
         (x \in Stored(s) /\ e \in s.links[x]) \/ e \in ObservedOn(reg, obs, x)
  BY <1>1 DEF FtdLinks, ObservedOn, Stored
<1>3. \A x : /\ ObservedOn(reg, old, x) \subseteq ObservedOn(reg, old \cup obs, x)
             /\ ObservedOn(reg, obs, x) \subseteq ObservedOn(reg, old \cup obs, x)
  BY DEF ObservedOn, Entities, OwnedBy
<1> QED
  BY <1>2, <1>3 DEF LinksSound

(* A list is selected for a quarter, or none is.                           *)
IsSelection(sel) ==
    sel[1] = None \/ (sel[1] \in DOMAIN Lists /\ sel[1] # None /\ sel[2] \in SUBSET Values)

LEMMA SelectionsAre == \A sel \in Selections : IsSelection(sel)
<1> SUFFICES ASSUME NEW sel \in Selections PROVE IsSelection(sel)
  OBVIOUS
<1>1. CASE sel = <<None, {}>>
  BY <1>1 DEF IsSelection
<1>2. CASE sel # <<None, {}>>
  <2>1. PICK q \in DOMAIN Lists : sel \in {q} \X Lists[q]
    BY <1>2 DEF Selections
  <2>2. sel[1] = q /\ sel[2] \in Lists[q]
    BY <2>1
  <2>3. Lists[q] \in SUBSET SUBSET Values
    BY ListAssumption
  <2>4. q # None
    BY NoneAssumption
  <2> QED
    BY <2>2, <2>3, <2>4 DEF IsSelection
<1> QED
  BY <1>1, <1>2

ListFields(reg, s, sel, u) ==
    /\ IsStore(u) /\ u.ids = s.ids /\ u.ledger = s.ledger /\ u.holdings = s.holdings
    /\ Stored(s) \subseteq Stored(u)
    /\ \A x \in Stored(u) : u.links[x] = IF x \in Stored(s) THEN s.links[x] ELSE {}
    /\ \A q \in DOMAIN s.listed : q # sel[1] => q \in DOMAIN u.listed
                                               /\ u.listed[q] = s.listed[q]
    /\ sel[1] # None => sel[1] \in DOMAIN u.listed /\ u.listed[sel[1]] = sel[2]

LEMMA SeedSound ==
    ASSUME NEW reg \in Registry, NEW s, NEW obs, Sound(s, reg, obs),
           NEW sel, IsSelection(sel), NEW u, u = Seeded(reg, s, sel[1], sel[2])
    PROVE  Sound(u, reg, obs) /\ ListFields(reg, s, sel, u)
<1> DEFINE q == sel[1]
           list == sel[2]
<1>1. CASE q = None
  <2>1. u = s
    BY <1>1 DEF Seeded
  <2>2. None \notin DOMAIN s.listed
    BY NoneAssumption DEF Sound, LstRows, IsListed
  <2> QED
    BY <1>1, <2>1, <2>2 DEF ListFields, Sound, Stored
<1>2. CASE q # None
  <2> HIDE DEF q, list
  <2>1. q \in DOMAIN Lists /\ list \in SUBSET Values
    BY <1>2 DEF IsSelection, q, list
  <2>2. u = Bootstrap13fList(reg, s, q, list)
    BY <1>2 DEF Seeded, q, list
  <2>3. u = [ids |-> s.ids, lists |-> ListsAfter(reg, s, q, list),
             links |-> ListLinks(reg, s, q, list), ledger |-> s.ledger,
             holdings |-> s.holdings, listed |-> ListedAfter(s, q, list)]
    BY <2>2, ListStore DEF Sound
  <2>4. /\ IsStore(u) /\ u.ids = s.ids /\ u.lists = ListsAfter(reg, s, q, list)
        /\ u.links = ListLinks(reg, s, q, list) /\ u.ledger = s.ledger
        /\ u.holdings = s.holdings /\ u.listed = ListedAfter(s, q, list)
    BY <2>3 DEF IsStore
  <2>5. LstRows(reg, u.lists, u.listed) /\ LstJudged(reg, u.lists)
    BY <2>1, <2>4, ListsHold DEF Sound
  <2>6. /\ Stored(u) = {r.sid : r \in ListRows(reg, q, list)} \cup Stored(s)
        /\ \A x \in Stored(u) : u.links[x] = IF x \in Stored(s) THEN s.links[x] ELSE {}
        /\ u.links = [x \in DOMAIN u.links |-> u.links[x]]
    BY <2>4 DEF Stored, ListLinks
  <2>7. SidsStored(u)
    BY <2>4, <2>6 DEF SidsStored, Sound, ListsAfter, KeptLists, NewLists
  <2>8. u.links \in Links
    <3>1. \A r \in ListRows(reg, q, list) : r.sid \in SecurityIds
      BY <2>1, ListRowsAre DEF ListRow
    <3>2. /\ DOMAIN s.links \subseteq SecurityIds
          /\ \A x \in DOMAIN s.links : s.links[x] \subseteq Entities(UNION Files)
      BY LinksAre DEF Sound
    <3>3. DOMAIN u.links \subseteq SecurityIds
      BY <2>6, <3>1, <3>2 DEF Stored
    <3>4. \A x \in DOMAIN u.links : u.links[x] \subseteq Entities(UNION Files)
      BY <2>6, <3>2 DEF Stored
    <3> QED
      BY <2>6, <3>3, <3>4, LinksAre
  <2>9. u.listed = [p \in DOMAIN u.listed |-> u.listed[p]]
    BY <2>4 DEF ListedAfter
  <2>10. Sound(u, reg, obs)
    BY <2>4, <2>5, <2>7, <2>8, <2>9 DEF Sound
  <2>11. /\ \A p \in DOMAIN s.listed : p # q => p \in DOMAIN u.listed
                                                /\ u.listed[p] = s.listed[p]
         /\ q \in DOMAIN u.listed /\ u.listed[q] = list
    BY <2>4 DEF ListedAfter
  <2> QED
    BY <2>4, <2>6, <2>10, <2>11 DEF ListFields, q, list
<1> QED
  BY <1>1, <1>2

-----------------------------------------------------------------------------
(* A whole run.                                                            *)

Run(reg, s, obs, sel) ==
    Seeded(reg, BootstrapFtd(reg, ReconcileRegistry(reg, s), obs), sel[1], sel[2])

LEMMA RunSound ==
    ASSUME NEW before, NEW reg \in Registry, NEW s, NEW old \in Corpora,
           Sound(s, before, old), NEW obs \in Corpora, obs \subseteq UNION Files,
           NEW sel, IsSelection(sel), NEW u, u = Run(reg, s, obs, sel)
    PROVE  /\ Sound(u, reg, old \cup obs)
           /\ obs \subseteq old => Judged(reg, u.ids, old \cup obs)
           /\ \A gone : Leads(s, gone) => Leads(u, gone)
<1>1. PICK r : r = ReconcileRegistry(reg, s)
  OBVIOUS
<1>2. PICK f : f = BootstrapFtd(reg, r, obs)
  OBVIOUS
<1>3. u = Seeded(reg, f, sel[1], sel[2])
  BY <1>1, <1>2 DEF Run
<1>4. Sound(r, reg, old) /\ Judged(reg, r.ids, old)
  BY <1>1, ReconcileSound
<1>5. /\ Sound(f, reg, old \cup obs)
      /\ Judged(reg, r.ids, old \cup obs) => Judged(reg, f.ids, old \cup obs)
  BY <1>2, <1>4, FtdSound
<1>6. Sound(u, reg, old \cup obs) /\ ListFields(reg, f, sel, u)
  BY <1>3, <1>5, SeedSound
<1>7. ASSUME obs \subseteq old PROVE Judged(reg, u.ids, old \cup obs)
  <2>1. old \cup obs = old
    BY <1>7
  <2> QED
    BY <1>4, <1>5, <1>6, <2>1 DEF ListFields
<1>8. ASSUME NEW gone, Leads(s, gone) PROVE Leads(u, gone)
  <2>1. Leads(r, gone)
    BY <1>1, <1>8, ReconcileLeads
  <2>2. Leads(f, gone)
    BY <1>2, <1>4, <2>1, FtdLeads DEF Sound
  <2> QED
    BY <1>6, <2>2 DEF Leads, ListFields
<1> QED
  BY <1>6, <1>7, <1>8

LEMMA RunLinks ==
    ASSUME NEW before, NEW reg \in Registry, NEW s, NEW old \in Corpora,
           Sound(s, before, old), NEW obs \in Corpora, obs \subseteq UNION Files,
           NEW sel, IsSelection(sel), NEW u, u = Run(reg, s, obs, sel),
           Unchained(Plan(reg, s)), LinksSound(s, before, old)
    PROVE  LinksSound(u, reg, old \cup obs)
<1>1. PICK r : r = ReconcileRegistry(reg, s)
  OBVIOUS
<1>2. PICK f : f = BootstrapFtd(reg, r, obs)
  OBVIOUS
<1>3. u = Seeded(reg, f, sel[1], sel[2])
  BY <1>1, <1>2 DEF Run
<1>4. Sound(r, reg, old) /\ LinksSound(r, reg, old)
  BY <1>1, ReconcileSound, ReconcileLinks
<1>5. Sound(f, reg, old \cup obs) /\ LinksSound(f, reg, old \cup obs)
  <2>1. Sound(f, reg, old \cup obs)
    BY <1>2, <1>4, FtdSound
  <2>2. IsStore(r)
    BY <1>4 DEF Sound
  <2>3. LinksSound(f, reg, old \cup obs)
    BY <1>2, <1>4, <2>2, FtdObserved
  <2> QED
    BY <2>1, <2>3
<1>6. ListFields(reg, f, sel, u)
  BY <1>3, <1>5, SeedSound
<1> QED
  BY <1>5, <1>6 DEF ListFields, LinksSound

LEMMA RunTells ==
    ASSUME NEW before, NEW reg \in Registry, NEW s, NEW old \in Corpora,
           Sound(s, before, old), NEW obs \in Corpora, obs \subseteq UNION Files,
           NEW sel, IsSelection(sel), NEW u, u = Run(reg, s, obs, sel)
    PROVE  Told(u, reg, obs)
<1>1. PICK r : r = ReconcileRegistry(reg, s)
  OBVIOUS
<1>2. PICK f : f = BootstrapFtd(reg, r, obs)
  OBVIOUS
<1>3. u = Seeded(reg, f, sel[1], sel[2])
  BY <1>1, <1>2 DEF Run
<1>4. Sound(r, reg, old)
  BY <1>1, ReconcileSound
<1>5. Told(f, reg, obs) /\ \A x : ObservedOn(reg, obs, x) # {} => x \in Stored(f)
  <2>1. IsStore(r)
    BY <1>4 DEF Sound
  <2> QED
    BY <1>2, <2>1, FtdTells
<1>6. Sound(f, reg, old \cup obs)
  BY <1>2, <1>4, FtdSound
<1>7. ListFields(reg, f, sel, u)
  BY <1>3, <1>6, SeedSound
<1> QED
  BY <1>5, <1>7 DEF ListFields, Told

(* What was not resolved is not resolved by a run.                         *)
NothingFound(s, u) ==
    \A h \in Holdings : s.holdings[h] \notin SecurityIds => u.holdings[h] = s.holdings[h]

LEMMA RunUnresolved ==
    ASSUME NEW before, NEW reg \in Registry, NEW s, NEW old \in Corpora,
           Sound(s, before, old), NEW obs \in Corpora, obs \subseteq UNION Files,
           NEW sel, IsSelection(sel), NEW u, u = Run(reg, s, obs, sel)
    PROVE  NothingFound(s, u)
<1>1. PICK r : r = ReconcileRegistry(reg, s)
  OBVIOUS
<1>2. PICK f : f = BootstrapFtd(reg, r, obs)
  OBVIOUS
<1>3. u = Seeded(reg, f, sel[1], sel[2])
  BY <1>1, <1>2 DEF Run
<1>4. Sound(r, reg, old)
  BY <1>1, ReconcileSound
<1>5. f.holdings = r.holdings
  <2>1. IsStore(r)
    BY <1>4 DEF Sound
  <2> QED
    BY <1>2, <2>1, FtdFields
<1>6. Sound(f, reg, old \cup obs)
  BY <1>2, <1>4, FtdSound
<1>7. u.holdings = f.holdings
  BY <1>3, <1>6, SeedSound DEF ListFields
<1>8. ASSUME NEW h \in Holdings, s.holdings[h] \notin SecurityIds
      PROVE  u.holdings[h] = s.holdings[h]
  <2>1. ReconcileRegistry(reg, s).holdings[h] = s.holdings[h]
    BY <1>8, ReconcileUnresolved
  <2> QED
    BY <1>1, <1>5, <1>7, <2>1
<1> QED
  BY <1>8 DEF NothingFound

(* A holding is not resolved, or was taken back, or has the owner of its   *)
(* day, and a table still covers that day.                                 *)
HoldingSound(s, reg, obs, back, h) ==
    \/ s.holdings[h] \in {"not loaded", None}
    \/ h[1] \in back
    \/ Covers(h, obs, s.listed) /\ s.holdings[h] = OwnerOf(reg, h[1], h[2])

LEMMA RunHolding ==
    ASSUME NEW before, NEW reg \in Registry, NEW s, NEW old \in Corpora,
           Sound(s, before, old), NEW obs \in Corpora, obs \subseteq UNION Files,
           NEW sel, IsSelection(sel), NEW u, u = Run(reg, s, obs, sel),
           Unchained(Plan(reg, s)), NEW back, NEW h \in Holdings,
           HoldingSound(s, before, old, back, h)
    PROVE  HoldingSound(u, reg, old \cup obs,
              back \cup (IF sel[1] = None THEN {}
                         ELSE {r.value : r \in {r \in s.lists : r.quarter = sel[1]}} \ sel[2]),
              h)
<1>1. PICK r : r = ReconcileRegistry(reg, s)
  OBVIOUS
<1>2. PICK f : f = BootstrapFtd(reg, r, obs)
  OBVIOUS
<1>3. u = Seeded(reg, f, sel[1], sel[2])
  BY <1>1, <1>2 DEF Run
<1>4. Sound(r, reg, old)
  BY <1>1, ReconcileSound
<1>5. Sound(f, reg, old \cup obs)
  BY <1>2, <1>4, FtdSound
<1>6. ListFields(reg, f, sel, u)
  BY <1>3, <1>5, SeedSound
<1>7. u.holdings = r.holdings /\ f.listed = s.listed
  <2>1. f.holdings = r.holdings /\ f.listed = r.listed
    <3>1. IsStore(r)
      BY <1>4 DEF Sound
    <3> QED
      BY <1>2, <3>1, FtdFields
  <2>2. r.listed = s.listed
    BY <1>1, ReconcileFields
  <2> QED
    BY <1>6, <2>1, <2>2 DEF ListFields
<1>8. CASE s.holdings[h] \in {"not loaded", None}
  <2>1. s.holdings[h] \notin SecurityIds
    BY <1>8, NoneIsNoId, NoneAssumption
  <2>2. u.holdings[h] = s.holdings[h]
    BY <1>1, <1>7, <2>1, ReconcileUnresolved
  <2> QED
    BY <1>8, <2>2 DEF HoldingSound
<1>9. CASE h[1] \in back
  BY <1>9 DEF HoldingSound
<1>10. CASE Covers(h, old, s.listed) /\ s.holdings[h] = OwnerOf(before, h[1], h[2])
  <2>1. r.holdings[h] \in {None, OwnerOf(reg, h[1], h[2])}
    BY <1>1, <1>10, ReconcileHolding
  <2>2. CASE \E o \in old : o.value = h[1] /\ o.day = h[2]
    <3>1. Covers(h, old \cup obs, u.listed)
      BY <2>2 DEF Covers
    <3> QED
      BY <1>7, <2>1, <3>1 DEF HoldingSound
  <2>3. CASE \E q \in DOMAIN s.listed : h[1] \in s.listed[q] /\ Holds(Quarter[q], h[2])
    <3>1. PICK q \in DOMAIN s.listed : h[1] \in s.listed[q] /\ Holds(Quarter[q], h[2])
      BY <2>3
    <3>2. CASE q # sel[1]
      <4>1. q \in DOMAIN u.listed /\ u.listed[q] = s.listed[q]
        BY <1>6, <1>7, <3>2 DEF ListFields
      <4>2. Covers(h, old \cup obs, u.listed)
        BY <3>1, <4>1 DEF Covers
      <4> QED
        BY <1>7, <2>1, <4>2 DEF HoldingSound
    <3>3. CASE q = sel[1]
      <4>1. q # None
        BY NoneAssumption DEF Sound, LstRows, IsListed
      <4>2. q \in DOMAIN u.listed /\ u.listed[q] = sel[2]
        BY <1>6, <3>3, <4>1 DEF ListFields
      <4>3. CASE h[1] \in sel[2]
        <5>1. Covers(h, old \cup obs, u.listed)
          BY <3>1, <4>2, <4>3 DEF Covers
        <5> QED
          BY <1>7, <2>1, <5>1 DEF HoldingSound
      <4>4. CASE h[1] \notin sel[2]
        <5>1. h[2] \in Days
          BY RegistryAssumption
        <5>2. PICK k \in s.lists : k.quarter = q /\ k.value = h[1]
          BY <3>1, <5>1 DEF Sound, LstRows, Listed
        <5> QED
          BY <3>3, <4>1, <4>4, <5>2 DEF HoldingSound
      <4> QED
        BY <4>3, <4>4
    <3> QED
      BY <3>2, <3>3
  <2> QED
    BY <1>10, <2>2, <2>3 DEF Covers
<1> QED
  BY <1>8, <1>9, <1>10 DEF HoldingSound

-----------------------------------------------------------------------------
(* The invariant.                                                          *)

(* Together with what a run leaves: the verdicts are those of the days     *)
(* once a run brings nothing new, and the ledger leads on from what is     *)
(* gone.                                                                   *)
RegistryFacts ==
    /\ Sound(tables, applied, seen)
    /\ applied \in Registry /\ seen \subseteq UNION Files /\ ever \subseteq SecurityIds
    /\ settled \in BOOLEAN /\ withdrawn \subseteq Values /\ runs \in Nat
    /\ settled => Judged(applied, tables.ids, seen)
    /\ Leads(tables, ever)

LEMMA FilesObserve ==
    ASSUME NEW obs, obs \subseteq UNION Files PROVE obs \in Corpora
BY RegistryAssumption DEF Corpora

LEMMA EmptySound ==
    ASSUME NEW reg
    PROVE  /\ Sound(Empty, reg, {}) /\ Stored(Empty) = {} /\ Leads(Empty, {})
           /\ LinksSound(Empty, reg, {})
           /\ \A h \in Holdings : Empty.holdings[h] = "not loaded"
           /\ Unchained(Plan(reg, Empty))
<1>1. /\ IsStore(Empty) /\ Empty.ids = {} /\ Empty.lists = {} /\ Empty.links = Nothing
      /\ Empty.ledger = {} /\ Empty.listed = Nothing
      /\ Empty.holdings = [h \in Holdings |-> "not loaded"]
  BY DEF Empty, IsStore
<1>a. DOMAIN Nothing = {} /\ Nothing = [x \in DOMAIN Nothing |-> Nothing[x]]
  BY DEF Nothing
<1>2. DOMAIN Empty.links = {} /\ DOMAIN Empty.listed = {}
  BY <1>1, <1>a
<1>3. Empty.links = [x \in DOMAIN Empty.links |-> Empty.links[x]]
  BY <1>1, <1>a
<1>4. Empty.listed = [q \in DOMAIN Empty.listed |-> Empty.listed[q]]
  BY <1>1, <1>a
<1>5. Empty.links \in Links
  BY <1>2, <1>3, LinksAre
<1>6. Empty.ledger \in Pairs /\ Empty.holdings \in Held
  BY <1>1 DEF Pairs, Held, Resolved
<1>7. IdRows(reg, Empty.ids, {})
  BY <1>1 DEF IdRows, Spans, Disjoint
<1>8. LstRows(reg, Empty.lists, Empty.listed) /\ LstJudged(reg, Empty.lists)
  BY <1>1, <1>2 DEF LstRows, LstJudged, IsListed
<1>9. SidsStored(Empty)
  BY <1>1 DEF SidsStored
<1>10. Stored(Empty) = {}
  BY <1>2 DEF Stored
<1>11. Unchained(Plan(reg, Empty))
  <2>1. DOMAIN Plan(reg, Empty) = {}
    BY <1>10 DEF Plan
  <2> QED
    BY <2>1 DEF Unchained
<1> HIDE DEF Empty
<1>12. Leads(Empty, {}) /\ LinksSound(Empty, reg, {})
  BY <1>1, <1>10 DEF Leads, LinksSound
<1> QED
  BY <1>1, <1>4, <1>5, <1>6, <1>7, <1>8, <1>9, <1>10, <1>11, <1>12 DEF Sound

LEMMA UndeclaredIs == Undeclared \in Registry
BY RegistryAssumption DEF Undeclared, Registry, Reviews

LEMMA RegistryFactsInit == RegistryInit => RegistryFacts
<1> SUFFICES ASSUME RegistryInit PROVE RegistryFacts
  OBVIOUS
<1> USE DEF RegistryInit
<1>1. /\ Sound(tables, applied, seen) /\ Leads(tables, ever)
  BY EmptySound
<1>2. applied \in Registry
  BY UndeclaredIs
<1>3. Judged(applied, tables.ids, seen)
  BY DEF Judged, Empty
<1> QED
  BY <1>1, <1>2, <1>3 DEF RegistryFacts

(* What a run starts from is sound, whether it migrates or rebuilds.       *)
LEMMA RunFacts ==
    ASSUME NEW reg \in Registries, NEW files \in SUBSET Files, NEW sel \in Selections,
           NEW before, NEW s, NEW old, old \subseteq UNION Files, Sound(s, before, old),
           Apply(reg, s, UNION files, sel)
    PROVE  /\ reg \in Registry /\ IsSelection(sel) /\ UNION files \subseteq UNION Files
           /\ UNION files \in Corpora /\ old \in Corpora
           /\ tables' = Run(reg, s, UNION files, sel) /\ applied' = reg /\ runs' = runs + 1
           /\ Sound(tables', applied', old \cup UNION files)
           /\ UNION files \subseteq old => Judged(applied', tables'.ids, old \cup UNION files)
           /\ \A gone : Leads(s, gone) => Leads(tables', gone)
           /\ Stored(tables') \subseteq SecurityIds
<1>1. reg \in Registry /\ IsSelection(sel)
  BY RegistryAssumption, SelectionsAre
<1>2. UNION files \subseteq UNION Files
  OBVIOUS
<1>3. UNION files \in Corpora /\ old \in Corpora
  BY <1>2, FilesObserve
<1>4. tables' = Run(reg, s, UNION files, sel) /\ applied' = reg /\ runs' = runs + 1
  BY DEF Apply, Run
<1>5. /\ Sound(tables', reg, old \cup UNION files)
      /\ UNION files \subseteq old => Judged(reg, tables'.ids, old \cup UNION files)
      /\ \A gone : Leads(s, gone) => Leads(tables', gone)
  <2>1. PICK obs : obs = UNION files
    OBVIOUS
  <2>2. /\ obs \in Corpora /\ obs \subseteq UNION Files
        /\ tables' = Run(reg, s, obs, sel)
    BY <1>2, <1>3, <1>4, <2>1
  <2>3. /\ Sound(tables', reg, old \cup obs)
        /\ obs \subseteq old => Judged(reg, tables'.ids, old \cup obs)
        /\ \A gone : Leads(s, gone) => Leads(tables', gone)
    BY <1>1, <1>3, <2>2, RunSound
  <2> QED
    BY <2>1, <2>3
<1>6. Stored(tables') \subseteq SecurityIds
  BY <1>5, LinksAre DEF Sound, Stored
<1> QED
  BY <1>1, <1>2, <1>3, <1>4, <1>5, <1>6

LEMMA WithHoldings ==
    ASSUME NEW s, IsStore(s), NEW k, NEW w, w = [s EXCEPT !.holdings = k]
    PROVE  /\ IsStore(w) /\ w.ids = s.ids /\ w.lists = s.lists
           /\ w.links = s.links /\ w.ledger = s.ledger
           /\ w.listed = s.listed /\ w.holdings = k
<1> DEFINE all == {"ids", "lists", "links", "ledger", "holdings", "listed"}
<1>1. DOMAIN s = all /\ s = [f \in DOMAIN s |-> s[f]]
  BY DEF IsStore
<1>2. DOMAIN w = all /\ w = [f \in all |-> w[f]]
  BY <1>1
<1>3. /\ w.ids = s.ids /\ w.lists = s.lists
      /\ w.links = s.links /\ w.ledger = s.ledger
      /\ w.listed = s.listed /\ w.holdings = k
  BY <1>1
<1>4. IsStore(w)
  BY <1>2 DEF IsStore
<1> QED
  BY <1>3, <1>4

LEMMA LoadIs ==
    ASSUME NEW h \in Holdings, LoadHolding(h), NEW reg, NEW obs, Sound(tables, reg, obs)
    PROVE  /\ Sound(tables', reg, obs) /\ tables'.ids = tables.ids
           /\ tables'.lists = tables.lists /\ tables'.links = tables.links
           /\ tables'.ledger = tables.ledger /\ tables'.listed = tables.listed
           /\ \A g \in Holdings : tables'.holdings[g] =
                 IF g = h THEN ResolveCusip(tables, h[1], h[2]) ELSE tables.holdings[g]
<1> DEFINE k == [tables.holdings EXCEPT ![h] = ResolveCusip(tables, h[1], h[2])]
<1>1. IsStore(tables) /\ tables.holdings \in Held
  BY DEF Sound
<1>2. tables' = [tables EXCEPT !.holdings = k]
  BY DEF LoadHolding
<1>3. \A r \in tables.ids \cup tables.lists : r.sid \in SecurityIds
  BY RawOfSound DEF Row, ListRow
<1>4. ResolveCusip(tables, h[1], h[2]) \in Resolved
  <2>1. \A v, d : ResolveCusip(tables, v, d) \in SecurityIds \cup {None}
    BY <1>3, ResolveType
  <2> QED
    BY <2>1 DEF Resolved
<1>5. /\ k \in Held
      /\ \A g \in Holdings : k[g] =
            IF g = h THEN ResolveCusip(tables, h[1], h[2]) ELSE tables.holdings[g]
  BY <1>1, <1>4 DEF Held
<1> HIDE DEF k
<1>6. /\ IsStore(tables') /\ tables'.ids = tables.ids /\ tables'.lists = tables.lists
      /\ tables'.links = tables.links /\ tables'.ledger = tables.ledger
      /\ tables'.listed = tables.listed /\ tables'.holdings = k
  <2>1. \A s, w : IsStore(s) /\ w = [s EXCEPT !.holdings = k]
          => /\ IsStore(w) /\ w.ids = s.ids /\ w.lists = s.lists
             /\ w.links = s.links /\ w.ledger = s.ledger
             /\ w.listed = s.listed /\ w.holdings = k
    BY WithHoldings
  <2> QED
    BY <1>1, <1>2, <2>1
<1>7. SidsStored(tables')
  BY <1>6 DEF Sound, SidsStored, Stored
<1> QED
  BY <1>5, <1>6, <1>7 DEF Sound

LEMMA RegistryFactsNext == RegistryFacts /\ [RegistryNext]_registryVars => RegistryFacts'
<1> SUFFICES ASSUME RegistryFacts, [RegistryNext]_registryVars PROVE RegistryFacts'
  OBVIOUS
<1> USE DEF RegistryFacts
<1>1. CASE UNCHANGED registryVars
  BY <1>1 DEF registryVars, Sound, Leads, Judged, SidsStored, Stored
<1>2. ASSUME NEW reg \in Registries, NEW files \in SUBSET Files, NEW selection \in Selections,
             RunIdentityBootstrap(reg, files, selection)
      PROVE  RegistryFacts'
  <2>1. /\ Apply(reg, tables, UNION files, selection)
        /\ seen' = seen \cup UNION files /\ ever' = ever \cup Stored(tables')
        /\ settled' = (UNION files \subseteq seen)
        /\ withdrawn' = withdrawn \cup
              (IF selection[1] = None THEN {}
               ELSE {r.value : r \in {r \in tables.lists : r.quarter = selection[1]}}
                       \ selection[2])
    BY <1>2 DEF RunIdentityBootstrap
  <2>2. /\ reg \in Registry /\ UNION files \subseteq UNION Files
        /\ applied' = reg /\ runs' = runs + 1
        /\ Sound(tables', applied', seen \cup UNION files)
        /\ UNION files \subseteq seen => Judged(applied', tables'.ids, seen \cup UNION files)
        /\ Leads(tables', ever)
        /\ Stored(tables') \subseteq SecurityIds
    BY <2>1, RunFacts
  <2>3. Leads(tables', ever')
    BY <2>1, <2>2 DEF Leads
  <2>4. withdrawn' \subseteq Values
    <3>1. \A r \in tables.lists : r.value \in Values
      BY DEF Sound, LstRows, LstRow, ListRow
    <3> QED
      BY <2>1, <3>1
  <2>5. /\ seen' \subseteq UNION Files /\ ever' \subseteq SecurityIds /\ runs' \in Nat
        /\ applied' \in Registry
    BY <2>1, <2>2
  <2>6. settled' \in BOOLEAN
    BY <2>1, Zenon
  <2>7. settled' => Judged(applied', tables'.ids, seen')
    BY <2>1, <2>2
  <2>8. Sound(tables', applied', seen')
    BY <2>1, <2>2
  <2> QED
    BY <2>3, <2>4, <2>5, <2>6, <2>7, <2>8
<1>3. ASSUME NEW reg \in Registries, NEW files \in SUBSET Files, NEW selection \in Selections,
             RebuildRegistry(reg, files, selection)
      PROVE  RegistryFacts'
  <2>1. /\ Apply(reg, Empty, UNION files, selection)
        /\ seen' = UNION files /\ ever' = Stored(tables') /\ settled' = FALSE
        /\ withdrawn' = {}
    BY <1>3 DEF RebuildRegistry
  <2>2. Sound(Empty, reg, {}) /\ Leads(Empty, {}) /\ {} \subseteq UNION Files
    BY EmptySound
  <2>3. /\ reg \in Registry /\ UNION files \subseteq UNION Files
        /\ applied' = reg /\ runs' = runs + 1
        /\ Sound(tables', applied', {} \cup UNION files)
        /\ Leads(tables', {})
        /\ Stored(tables') \subseteq SecurityIds
    BY <2>1, <2>2, RunFacts
  <2>4. {} \cup UNION files = seen'
    BY <2>1
  <2>5. Leads(tables', ever')
    BY <2>1, <2>3 DEF Leads
  <2>6. /\ seen' \subseteq UNION Files /\ ever' \subseteq SecurityIds /\ runs' \in Nat
        /\ applied' \in Registry /\ withdrawn' \subseteq Values
    BY <2>1, <2>3
  <2>7. settled' \in BOOLEAN /\ ~settled'
    BY <2>1
  <2>8. Sound(tables', applied', seen')
    BY <2>1, <2>3, <2>4
  <2> QED
    BY <2>5, <2>6, <2>7, <2>8
<1>4. ASSUME NEW h \in Holdings, LoadHolding(h) PROVE RegistryFacts'
  <2>1. UNCHANGED <<applied, seen, ever, settled, withdrawn, runs>>
    BY <1>4 DEF LoadHolding
  <2>2. /\ Sound(tables', applied, seen) /\ tables'.ids = tables.ids
        /\ tables'.links = tables.links /\ tables'.ledger = tables.ledger
    BY <1>4, LoadIs
  <2>3. Leads(tables', ever)
    BY <2>2 DEF Leads, Stored
  <2> QED
    BY <2>1, <2>2, <2>3
<1> QED
  BY <1>1, <1>2, <1>3, <1>4 DEF RegistryNext

(* After every bootstrap, rebuild and load the rows of both tables say who *)
(* owned what was observed and listed, once for each day, and nothing      *)
(* else; they name securities that are stored; and the ledger leads from   *)
(* every id that is gone to one that is stored.                            *)
THEOREM RegistryInvariant == RegistrySpec => []RegistryFacts
BY RegistryFactsInit, RegistryFactsNext, PTL DEF RegistrySpec

(* RegistryTypeOK: what a run or a load writes is a row, a candidate, a    *)
(* ledger entry, a holding or a list of the declared shape.                *)
THEOREM RegistryTyped == RegistrySpec => []RegistryTypeOK
<1>1. RegistryFacts => RegistryTypeOK
  <2> SUFFICES ASSUME RegistryFacts PROVE RegistryTypeOK
    OBVIOUS
  <2>1. Sound(tables, applied, seen)
    BY DEF RegistryFacts
  <2>2. tables.ids \in SUBSET Row /\ tables.lists \in SUBSET ListRow
    BY <2>1 DEF Sound, IdRows, LstRows, LstRow
  <2> DEFINE Listing == UNION {[qs -> SUBSET Values] : qs \in SUBSET DOMAIN Lists}
  <2>3. tables.listed \in Listing
    <3>1. /\ DOMAIN tables.listed \subseteq DOMAIN Lists
          /\ \A q \in DOMAIN tables.listed : tables.listed[q] \subseteq Values
          /\ tables.listed = [q \in DOMAIN tables.listed |-> tables.listed[q]]
      BY <2>1 DEF Sound, LstRows, IsListed
    <3>2. tables.listed \in [DOMAIN tables.listed -> SUBSET Values]
      BY <3>1
    <3> QED
      BY <3>1, <3>2
  <2> HIDE DEF Listing
  <2>4. /\ tables.links \in Links /\ tables.ledger \in Pairs /\ tables.holdings \in Held
        /\ IsStore(tables)
    BY <2>1 DEF Sound
  <2>5. tables \in [ids : SUBSET Row, lists : SUBSET ListRow, links : Links,
                    ledger : Pairs, holdings : Held, listed : Listing]
    <3> HIDE DEF Links, Pairs, Held, Row, ListRow
    <3> QED
      BY <2>2, <2>3, <2>4 DEF IsStore
  <2>6. tables \in Tables
    BY <2>5 DEF Tables, Links, Pairs, Held, Resolved, Listing
  <2> QED
    BY <2>6 DEF RegistryFacts, RegistryTypeOK
<1> QED
  BY <1>1, RegistryInvariant, PTL

(* ConvergesLikeACleanBuild: whatever revisions, observations and lists    *)
(* the migrations went through (run_identity_bootstrap), a run that brings *)
(* nothing new leaves both tables saying, day for day, owner and verdict,  *)
(* what a build from nothing says.                                         *)
THEOREM StoreConverges == RegistrySpec => []ConvergesLikeACleanBuild
<1>1. RegistryFacts => ConvergesLikeACleanBuild
  <2> SUFFICES ASSUME RegistryFacts, settled
               PROVE  /\ ByDay(tables.ids) = ByDay(Clean.ids)
                      /\ ByDay(tables.lists) = ByDay(CleanLists)
    BY DEF ConvergesLikeACleanBuild
  <2>1. /\ applied \in Registry /\ seen \in Corpora /\ seen \subseteq UNION Files
        /\ Sound(tables, applied, seen) /\ Judged(applied, tables.ids, seen)
    BY FilesObserve DEF RegistryFacts
  <2>2. Sound(Empty, applied, {}) /\ {} \in Corpora
    BY EmptySound DEF Corpora
  <2>3. Judged(applied, Empty.ids, {} \cup seen)
    BY DEF Judged, Empty
  <2>4. Sound(Clean, applied, {} \cup seen) /\ Judged(applied, Clean.ids, {} \cup seen)
    BY <2>1, <2>2, <2>3, FtdSound DEF Clean
  <2>5. {} \cup seen = seen
    OBVIOUS
  <2>6. IdRows(applied, Clean.ids, seen) /\ Judged(applied, Clean.ids, seen)
    BY <2>4, <2>5 DEF Sound
  <2>7. ByDay(tables.ids) = ByDay(Clean.ids)
    <3>1. IdRows(applied, tables.ids, seen)
      BY <2>1 DEF Sound
    <3>2. \A rows : IdRows(applied, rows, seen) /\ Judged(applied, rows, seen) =>
             ByDay(rows) =
             {<<o.value, o.day, OwnerOf(applied, o.value, o.day),
                Judgement(applied, seen, o.value, OwnerOf(applied, o.value, o.day))>> :
                   o \in seen}
      BY <2>1, JudgedSayTheSame
    <3> QED
      BY <2>1, <2>6, <3>1, <3>2
  <2>8. ByDay(tables.lists) = ByDay(CleanLists)
    BY <2>1, ListsSayTheSame DEF Sound, CleanLists
  <2> QED
    BY <2>7, <2>8
<1> QED
  BY <1>1, RegistryInvariant, PTL

(* LedgerLeadsToTheLiving: the renames, merges, splits and fan-outs of any *)
(* sequence of migrations leave no id that was ever stored without a       *)
(* successor, and every successor that the ledger names is stored.         *)
THEOREM LedgerStays == RegistrySpec => []LedgerLeadsToTheLiving
<1>1. RegistryFacts => LedgerLeadsToTheLiving
  BY DEF RegistryFacts, Leads, LedgerLeadsToTheLiving
<1> QED
  BY <1>1, RegistryInvariant, PTL

-----------------------------------------------------------------------------
(* What holds as long as every run is unchained.                           *)

ResolvedFacts ==
    /\ LinksSound(tables, applied, seen)
    /\ \A h \in Holdings : HoldingSound(tables, applied, seen, withdrawn, h)

LEMMA ResolvedInit == RegistryInit => ResolvedFacts
<1> SUFFICES ASSUME RegistryInit PROVE ResolvedFacts
  OBVIOUS
<1> USE DEF RegistryInit
<1>1. LinksSound(tables, applied, seen)
  BY EmptySound
<1>2. \A h \in Holdings : tables.holdings[h] = "not loaded"
  BY EmptySound
<1> QED
  BY <1>1, <1>2 DEF ResolvedFacts, HoldingSound

LEMMA RowCovers ==
    ASSUME NEW s, NEW reg, NEW obs, Sound(s, reg, obs), NEW h \in Holdings,
           NEW r \in s.ids \cup s.lists, r.value = h[1], Holds(r, h[2])
    PROVE  Covers(h, obs, s.listed) /\ r.sid = OwnerOf(reg, h[1], h[2])
<1>1. h[1] \in Values /\ h[2] \in Days
  BY RegistryAssumption
<1>2. Owned(reg, r)
  BY RawOfSound
<1>3. r.sid = OwnerOf(reg, h[1], h[2])
  BY <1>1, <1>2 DEF Owned
<1>4. CASE r \in s.ids
  <2>1. \E o \in obs : o.value = h[1] /\ o.day = h[2]
    BY <1>1, <1>4 DEF Sound, IdRows
  <2> QED
    BY <1>3, <2>1 DEF Covers
<1>5. CASE r \in s.lists
  <2>1. LstRow(reg, s.listed, r)
    BY <1>5 DEF Sound, LstRows
  <2>2. /\ r.quarter \in DOMAIN Lists /\ r.from \in Int /\ r.to \in Int /\ h[2] \in Int
    BY <1>1, <2>1 DEF LstRow, ListRow, Days
  <2>3. Quarter[r.quarter].from \in Int /\ Quarter[r.quarter].to \in Int
    BY <2>2, QuarterIs DEF Days
  <2>4. Holds(Quarter[r.quarter], h[2])
    BY <2>1, <2>2, <2>3 DEF LstRow, Holds
  <2>5. r.quarter \in DOMAIN s.listed /\ h[1] \in s.listed[r.quarter]
    BY <2>1 DEF LstRow
  <2> QED
    BY <1>3, <2>4, <2>5 DEF Covers
<1> QED
  BY <1>4, <1>5

LEMMA FreshHolding ==
    ASSUME NEW reg \in Registry, NEW obs \in Corpora, obs \subseteq UNION Files,
           NEW sel, IsSelection(sel), NEW e, Sound(e, reg, {}),
           NEW h \in Holdings, e.holdings[h] = "not loaded", NEW u, u = Run(reg, e, obs, sel)
    PROVE  u.holdings[h] = "not loaded"
<1>1. PICK old \in Corpora : old = {}
  BY DEF Corpora
<1>2. Sound(e, reg, old)
  BY <1>1
<1>3. e.holdings[h] \notin SecurityIds
  BY NoneAssumption
<1>4. NothingFound(e, u)
  BY <1>1, <1>2, RunUnresolved
<1> QED
  BY <1>3, <1>4 DEF NothingFound

LEMMA ResolvedNext ==
    RegistryFacts /\ ResolvedFacts /\ [RegistryNext]_registryVars
       /\ [UnchainedRuns]_registryVars => ResolvedFacts'
<1> SUFFICES ASSUME RegistryFacts, ResolvedFacts, [RegistryNext]_registryVars,
                    [UnchainedRuns]_registryVars
             PROVE  ResolvedFacts'
  OBVIOUS
<1>0. /\ Sound(tables, applied, seen) /\ seen \subseteq UNION Files
      /\ LinksSound(tables, applied, seen)
      /\ \A h \in Holdings : HoldingSound(tables, applied, seen, withdrawn, h)
  BY DEF RegistryFacts, ResolvedFacts
<1>1. CASE UNCHANGED registryVars
  BY <1>0, <1>1 DEF registryVars, ResolvedFacts, LinksSound, HoldingSound, Stored
<1>2. ASSUME NEW reg \in Registries, NEW files \in SUBSET Files, NEW selection \in Selections,
             RunIdentityBootstrap(reg, files, selection), ~ UNCHANGED registryVars
      PROVE  ResolvedFacts'
  <2>1. /\ Apply(reg, tables, UNION files, selection)
        /\ seen' = seen \cup UNION files
        /\ withdrawn' = withdrawn \cup
              (IF selection[1] = None THEN {}
               ELSE {r.value : r \in {r \in tables.lists : r.quarter = selection[1]}}
                       \ selection[2])
    BY <1>2 DEF RunIdentityBootstrap
  <2>2. Unchained(Plan(reg, tables))
    BY <1>2 DEF UnchainedRuns
  <2>3. PICK obs : obs = UNION files
    OBVIOUS
  <2>4. /\ reg \in Registry /\ IsSelection(selection) /\ obs \subseteq UNION Files
        /\ obs \in Corpora /\ seen \in Corpora
        /\ tables' = Run(reg, tables, obs, selection) /\ applied' = reg
    BY <1>0, <2>1, <2>3, RunFacts
  <2>5. LinksSound(tables', applied', seen')
    <3>1. LinksSound(tables', reg, seen \cup obs)
      BY <1>0, <2>2, <2>4, RunLinks
    <3> QED
      BY <2>1, <2>3, <2>4, <3>1
  <2>6. ASSUME NEW h \in Holdings PROVE HoldingSound(tables', applied', seen', withdrawn', h)
    <3>1. HoldingSound(tables', reg, seen \cup obs,
             withdrawn \cup (IF selection[1] = None THEN {}
                ELSE {r.value : r \in {r \in tables.lists : r.quarter = selection[1]}}
                        \ selection[2]), h)
      BY <1>0, <2>2, <2>4, RunHolding
    <3> QED
      BY <2>1, <2>3, <2>4, <3>1
  <2> QED
    BY <2>5, <2>6 DEF ResolvedFacts
<1>3. ASSUME NEW reg \in Registries, NEW files \in SUBSET Files, NEW selection \in Selections,
             RebuildRegistry(reg, files, selection)
      PROVE  ResolvedFacts'
  <2>1. /\ Apply(reg, Empty, UNION files, selection) /\ seen' = UNION files
        /\ withdrawn' = {}
    BY <1>3 DEF RebuildRegistry
  <2>2. /\ Sound(Empty, reg, {}) /\ LinksSound(Empty, reg, {}) /\ Unchained(Plan(reg, Empty))
        /\ \A h \in Holdings : Empty.holdings[h] = "not loaded"
    BY EmptySound
  <2>3. PICK obs : obs = UNION files
    OBVIOUS
  <2>4. /\ reg \in Registry /\ IsSelection(selection) /\ obs \subseteq UNION Files
        /\ obs \in Corpora /\ {} \in Corpora
        /\ tables' = Run(reg, Empty, obs, selection) /\ applied' = reg
    BY <2>1, <2>2, <2>3, RunFacts
  <2>5. {} \cup obs = seen'
    BY <2>1, <2>3
  <2> HIDE DEF Empty
  <2>6. LinksSound(tables', applied', seen')
    <3>1. LinksSound(tables', reg, {} \cup obs)
      BY <2>2, <2>4, RunLinks
    <3> QED
      BY <2>4, <2>5, <3>1
  <2>7. ASSUME NEW h \in Holdings PROVE HoldingSound(tables', applied', seen', withdrawn', h)
    <3>1. Sound(Empty, reg, {}) /\ Empty.holdings[h] = "not loaded"
      BY <2>2
    <3>2. tables'.holdings[h] = "not loaded"
      BY <2>4, <3>1, FreshHolding
    <3> QED
      BY <3>2 DEF HoldingSound
  <2> QED
    BY <2>6, <2>7 DEF ResolvedFacts
<1>4. ASSUME NEW h \in Holdings, LoadHolding(h) PROVE ResolvedFacts'
  <2>1. UNCHANGED <<applied, seen, withdrawn>>
    BY <1>4 DEF LoadHolding
  <2>2. /\ Sound(tables', applied, seen) /\ tables'.links = tables.links
        /\ tables'.listed = tables.listed
        /\ \A g \in Holdings : tables'.holdings[g] =
              IF g = h THEN ResolveCusip(tables, h[1], h[2]) ELSE tables.holdings[g]
    BY <1>0, <1>4, LoadIs
  <2>3. LinksSound(tables', applied', seen')
    BY <1>0, <2>1, <2>2 DEF LinksSound, Stored
  <2>4. ASSUME NEW g \in Holdings PROVE HoldingSound(tables', applied', seen', withdrawn', g)
    <3>1. CASE g # h
      <4>1. tables'.holdings[g] = tables.holdings[g] /\ tables'.listed = tables.listed
        BY <2>2, <3>1
      <4>2. HoldingSound(tables, applied, seen, withdrawn, g)
        BY <1>0
      <4> QED
        BY <2>1, <4>1, <4>2 DEF HoldingSound
    <3>2. CASE g = h /\ ResolveCusip(tables, h[1], h[2]) = None
      BY <2>2, <3>2 DEF HoldingSound
    <3>3. CASE g = h /\ ResolveCusip(tables, h[1], h[2]) # None
      <4>1. \A r \in tables.ids \cup tables.lists : r.sid \in SecurityIds
        BY <1>0, RawOfSound DEF Row, ListRow
      <4>2. PICK r \in tables.ids \cup tables.lists :
               /\ r.value = h[1] /\ Holds(r, h[2])
               /\ ResolveCusip(tables, h[1], h[2]) = r.sid
        BY <3>3, <4>1, ResolveType
      <4>3. Covers(h, seen, tables.listed) /\ r.sid = OwnerOf(applied, h[1], h[2])
        BY <1>0, <4>2, RowCovers
      <4>4. tables'.holdings[h] = OwnerOf(applied, h[1], h[2])
        BY <2>2, <4>2, <4>3
      <4> QED
        BY <2>1, <2>2, <3>3, <4>3, <4>4 DEF HoldingSound
    <3> QED
      BY <3>1, <3>2, <3>3
  <2> QED
    BY <2>3, <2>4 DEF ResolvedFacts
<1> QED
  BY <1>1, <1>2, <1>3, <1>4 DEF RegistryNext

(* RegistryInvariant, and with runs that are unchained also: every         *)
(* candidate was observed on a day its security owned, and every holding   *)
(* has none or the owner of its day, and the tables still say why.         *)
THEOREM ResolvedInvariant ==
    RegistrySpec /\ [][UnchainedRuns]_registryVars => [](RegistryFacts /\ ResolvedFacts)
BY RegistryFactsInit, RegistryFactsNext, ResolvedInit, ResolvedNext, PTL DEF RegistrySpec

(* IdsKeepTheirMeaning, as long as every run is unchained: beside the      *)
(* ledger, the union of candidates that a rename makes, and the reset of   *)
(* the ones that a split cannot tell apart, leave no company that was      *)
(* never observed with an identifier of the security.                      *)
THEOREM IdsStay ==
    RegistrySpec /\ [][UnchainedRuns]_registryVars => []IdsKeepTheirMeaning
<1>1. ResolvedFacts => CandidatesAreObserved
  BY DEF ResolvedFacts, LinksSound, ObservedOn, CandidatesAreObserved
<1>2. CandidatesAreObserved /\ LedgerLeadsToTheLiving => IdsKeepTheirMeaning
  BY DEF IdsKeepTheirMeaning
<1> QED
  BY <1>1, <1>2, ResolvedInvariant, LedgerStays, PTL

(* HoldingsFollowTheAuthority, as long as every run is unchained: the      *)
(* repointing of a rename and the second resolution of a split take a      *)
(* holding to the owner of its identifier in its period.                   *)
THEOREM HoldingsFollow ==
    RegistrySpec /\ [][UnchainedRuns]_registryVars => []HoldingsFollowTheAuthority
<1>1. ResolvedFacts => HoldingsFollowTheAuthority
  BY DEF ResolvedFacts, HoldingSound, HoldingsFollowTheAuthority
<1> QED
  BY <1>1, ResolvedInvariant, PTL

LEMMA ReplayNext ==
    RegistryFacts /\ ResolvedFacts /\ [RegistryNext]_registryVars
       /\ [UnchainedRuns]_registryVars =>
    [\A reg \in Registries, files \in SUBSET Files, selection \in Selections :
        RunIdentityBootstrap(reg, files, selection) /\ seen \subseteq UNION files =>
           \A x \in Stored(tables') :
              tables'.links[x] = Entities(OwnedBy(reg, UNION files, x))]_registryVars
<1> SUFFICES ASSUME RegistryFacts, ResolvedFacts, [UnchainedRuns]_registryVars,
                    ~ UNCHANGED registryVars,
                    NEW reg \in Registries, NEW files \in SUBSET Files,
                    NEW selection \in Selections,
                    RunIdentityBootstrap(reg, files, selection), seen \subseteq UNION files
             PROVE  \A x \in Stored(tables') :
                       tables'.links[x] = Entities(OwnedBy(reg, UNION files, x))
  OBVIOUS
<1>1. /\ Sound(tables, applied, seen) /\ seen \subseteq UNION Files
      /\ LinksSound(tables, applied, seen)
  BY DEF RegistryFacts, ResolvedFacts
<1>2. Apply(reg, tables, UNION files, selection)
  BY DEF RunIdentityBootstrap
<1>3. Unchained(Plan(reg, tables))
  BY DEF UnchainedRuns
<1>4. PICK obs : obs = UNION files
  OBVIOUS
<1>5. /\ reg \in Registry /\ IsSelection(selection) /\ obs \subseteq UNION Files
      /\ obs \in Corpora /\ seen \in Corpora
      /\ tables' = Run(reg, tables, obs, selection)
  BY <1>1, <1>2, <1>4, RunFacts
<1>6. LinksSound(tables', reg, seen \cup obs)
  BY <1>1, <1>3, <1>5, RunLinks
<1>7. Told(tables', reg, obs)
  BY <1>1, <1>5, RunTells
<1>8. seen \cup obs = obs
  BY <1>4
<1> QED
  BY <1>4, <1>6, <1>7, <1>8 DEF LinksSound, Told, ObservedOn

(* ReplayIsACleanBuild, as long as every run is unchained: what a rename   *)
(* hands over, a split resets and the observations of the same run derive  *)
(* again is what a build from nothing derives.                             *)
THEOREM ReplaysAreClean ==
    RegistrySpec /\ [][UnchainedRuns]_registryVars => ReplayIsACleanBuild
BY ResolvedInvariant, ReplayNext, PTL DEF RegistrySpec, ReplayIsACleanBuild

=============================================================================
