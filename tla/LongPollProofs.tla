--------------------------- MODULE LongPollProofs ---------------------------
(***************************************************************************)
(* No wakeup of a long poll is lost, for any number of workers, gets and   *)
(* concurrent requests.                                                    *)
(*                                                                         *)
(* The argument: a waiter is registered with the Notify before it looks at *)
(* the state, and stays so until it returns or looks again.  A change that *)
(* comes after its look leaves the changer with a revision that differs    *)
(* from the one it read before, for good, since revisions only grow; and   *)
(* the changer's notify then reaches every registered waiter.              *)
(***************************************************************************)
EXTENDS LongPoll, TLAPS

\* A waiter between its enable and its return.
Looking == {"enabled", "dispatch", "took", "found none", "ready", "unready",
            "parked"}
RegisteredFirst == \A p \in Waiter : pc[p] \in Looking => p \in enabled

\* Revisions only grow.
BeforeIsPast == \A d \in Dispatcher : before[d] <= revision

\* There is something for p.
Due(p) ==
  IF p \in Worker THEN work["task"] + work["delete"] > 0 ELSE p \in resolved

\* The mutators are at places of dispatch_and_notify only, gets never are.
Places ==
  /\ \A m \in Mutator : pc[m] \in {"idle", "dispatch", "dispatched"}
  /\ \A g \in Getter :
       pc[g] \notin {"dispatch", "dispatched", "took", "found none"}
  /\ \A w \in Worker : pc[w] # "dispatched"

\* From the look on, not only once it is parked.
HasLooked(p) == pc[p] \in {"found none", "unready", "parked"}
LookedIsWoken ==
  \A p \in Waiter : HasLooked(p) /\ Due(p) => p \in notified \/ WillNotify

Inv == TypeOK /\ RegisteredFirst /\ BeforeIsPast /\ Places /\ LookedIsWoken

\* Initially nobody has looked and there is nothing to find.
LEMMA InitInv == Init => Inv
  <1> SUFFICES ASSUME Init PROVE Inv
    OBVIOUS
  <1>1. TypeOK
    BY Actors DEF Init, TypeOK, Kind, Deletes
  <1>2. RegisteredFirst /\ Places /\ LookedIsWoken
    BY DEF Init, RegisteredFirst, Places, LookedIsWoken, Looking, HasLooked,
       Waiter
  <1>3. BeforeIsPast
    BY DEF Init, BeforeIsPast
  <1> QED BY <1>1, <1>2, <1>3 DEF Inv

\* A revision that was read earlier stays different once it is.
LEMMA StaysPast ==
  ASSUME NEW old \in Nat, NEW rev \in Nat, NEW new, old <= rev,
         new = rev + 1 \/ (new = rev /\ rev # old)
  PROVE  new # old
  OBVIOUS

\* Handing something out keeps the counts.
LEMMA HandedType ==
  ASSUME work \in [Kind -> Nat], NEW k \in Kind
  PROVE  Handed(k) \in [Kind -> Nat]
  BY DEF Handed

\* The bound on the changes is kept by its guard.
LEMMA CountUp ==
  ASSUME changes \in 0..MaxChanges, changes < MaxChanges,
         changes' = changes + 1
  PROVE  changes' \in 0..MaxChanges
  BY Actors

\* What a change does, as far as the invariant is concerned.
LEMMA EffectFacts ==
  ASSUME TypeOK, Effect
  PROVE  /\ revision' = revision + 1
         /\ revision' \in Nat /\ backoff' \in Nat
         /\ work' \in [Kind -> Nat]
         /\ resolved' \subseteq Getter /\ changes' \in 0..MaxChanges
  <1>1. work \in [Kind -> Nat] /\ revision \in Nat /\ backoff \in Nat
    BY DEF TypeOK
  <1>2. work' \in [Kind -> Nat]
    <2>1. {"task", "delete"} \subseteq Kind
      BY DEF Kind, Deletes
    <2> QED BY <1>1, <2>1, HandedType DEF Effect
  <1>3. revision' = revision + 1 /\ revision' \in Nat
    BY <1>1 DEF Effect
  <1>4. backoff' \in Nat
    BY <1>1 DEF Effect
  <1>5. resolved' \subseteq Getter
    BY DEF Effect, TypeOK
  <1>6. changes' \in 0..MaxChanges
    BY CountUp DEF Effect, TypeOK
  <1> QED BY <1>2, <1>3, <1>4, <1>5, <1>6

\* A dispatcher reads the revision: what it read is not later than now.
LEMMA ReadRevisionKeeps ==
  ASSUME Inv, NEW d \in Dispatcher, ReadRevision(d)
  PROVE  Inv'
  <1>1. TypeOK'
    BY Actors DEF Inv, TypeOK, ReadRevision, Goes, state, Kind, Deletes,
       Waiter, Dispatcher, Places
  <1>2. RegisteredFirst' /\ Places'
    BY Actors DEF Inv, TypeOK, ReadRevision, Goes, state, Waiter, Dispatcher,
       RegisteredFirst, Places, Looking
  <1>3. BeforeIsPast'
    <2> SUFFICES ASSUME NEW e \in Dispatcher PROVE before'[e] <= revision
      BY DEF BeforeIsPast, ReadRevision, state
    <2>1. before[e] <= revision /\ revision \in Nat
      BY DEF Inv, TypeOK, BeforeIsPast
    <2>2. before'[e] = before[e] \/ before'[e] = revision
      BY DEF Inv, TypeOK, ReadRevision
    <2> QED BY <2>1, <2>2
  <1>4. LookedIsWoken'
    BY Actors DEF Inv, TypeOK, ReadRevision, Goes, state, Waiter, Dispatcher,
       RegisteredFirst, BeforeIsPast, Places, Looking, HasLooked, Due,
       LookedIsWoken, WillNotify, Kind, Deletes
  <1> QED BY <1>1, <1>2, <1>3, <1>4 DEF Inv

\* A request that changes the state will notify, since the revision it read
\* is past from now on.
LEMMA DispatchKeeps ==
  ASSUME Inv, NEW m \in Mutator, Dispatch(m)
  PROVE  Inv'
  <1>0. /\ revision' \in Nat /\ backoff' \in Nat /\ work' \in [Kind -> Nat]
        /\ resolved' \subseteq Getter /\ changes' \in 0..MaxChanges
        /\ \/ revision' = revision + 1
           \/ UNCHANGED state
    BY EffectFacts DEF Inv, TypeOK, Dispatch, state
  <1>a. /\ revision \in Nat /\ pc[m] = "dispatch"
        /\ pc' = [pc EXCEPT ![m] = "dispatched"]
        /\ UNCHANGED <<before, late, enabled, notified, reaper>>
    BY DEF Dispatch, Goes, Inv, TypeOK
  <1>1. TypeOK'
    BY <1>0, <1>a DEF Inv, TypeOK
  <1>2. RegisteredFirst' /\ Places'
    BY <1>a, Actors DEF Inv, TypeOK, Waiter, RegisteredFirst, Places, Looking
  <1>b. revision' = revision \/ revision' = revision + 1
    BY <1>0 DEF state
  <1>3. BeforeIsPast'
    <2> SUFFICES ASSUME NEW e \in Dispatcher PROVE before[e] <= revision'
      BY <1>a DEF BeforeIsPast
    <2>1. before[e] <= revision /\ before[e] \in Nat /\ revision \in Nat
      BY DEF Inv, TypeOK, BeforeIsPast
    <2> QED BY <1>b, <2>1
  <1>4. LookedIsWoken'
    <2>1. CASE revision' = revision + 1
      <3>1. before[m] \in Nat /\ before[m] <= revision /\ m \in Dispatcher
            /\ revision \in Nat
        BY DEF Inv, TypeOK, BeforeIsPast, Dispatcher
      <3>2. before'[m] # revision' /\ pc'[m] = "dispatched"
        <4>1. before'[m] = before[m] /\ pc'[m] = "dispatched"
          BY <1>a DEF Inv, TypeOK
        <4> QED BY <2>1, <3>1, <4>1, StaysPast
      <3> QED BY <3>1, <3>2 DEF WillNotify, LookedIsWoken
    <2>2. CASE UNCHANGED state
      <3>1. WillNotify => WillNotify'
        BY <2>2, <1>a DEF WillNotify, state, Inv, TypeOK, Dispatcher, Waiter
      <3>2. \A p \in Waiter : HasLooked(p)' => HasLooked(p)
        BY <1>a, Actors DEF HasLooked, Waiter, Inv, TypeOK
      <3> QED
        BY <2>2, <3>1, <3>2, <1>a DEF LookedIsWoken, Due, state, Inv
    <2> QED BY <1>0, <2>1, <2>2
  <1> QED BY <1>1, <1>2, <1>3, <1>4 DEF Inv

\* A notify reaches every registered waiter, and one that is left out because
\* the revision is unchanged had nothing to announce.
LEMMA CompareAndNotifyKeeps ==
  ASSUME Inv, NEW d \in Dispatcher, CompareAndNotify(d)
  PROVE  Inv'
  <1>1. TypeOK'
    BY Actors DEF Inv, TypeOK, CompareAndNotify, AfterCompare, NotifyWaiters,
       Goes, state, Kind, Deletes, Waiter, Dispatcher, Places
  <1>2. RegisteredFirst' /\ Places'
    BY Actors DEF Inv, TypeOK, CompareAndNotify, AfterCompare, NotifyWaiters,
       Goes, state, Waiter, Dispatcher, RegisteredFirst, Places, Looking
  <1>3. BeforeIsPast'
    <2> SUFFICES ASSUME NEW e \in Dispatcher PROVE before'[e] <= revision
      BY DEF BeforeIsPast, CompareAndNotify, state
    <2>1. before[e] <= revision /\ revision \in Nat
      BY DEF Inv, TypeOK, BeforeIsPast
    <2>2. before'[e] = before[e] \/ before'[e] = 0
      BY DEF Inv, TypeOK, CompareAndNotify
    <2> QED BY <2>1, <2>2
  <1>4. LookedIsWoken'
    BY Actors DEF Inv, TypeOK, CompareAndNotify, AfterCompare, NotifyWaiters,
       Goes, state, Waiter, Dispatcher, RegisteredFirst, BeforeIsPast, Places,
       Looking, HasLooked, Due, LookedIsWoken, WillNotify, Kind, Deletes
  <1> QED BY <1>1, <1>2, <1>3, <1>4 DEF Inv

\* A caller that arrives has not looked yet.
LEMMA ArriveKeeps ==
  ASSUME Inv, NEW p \in Waiter, Arrive(p)
  PROVE  Inv'
  <1>1. TypeOK'
    BY Actors DEF Inv, TypeOK, Arrive, Goes, state, Kind, Deletes, Waiter,
       Dispatcher, Places
  <1>2. RegisteredFirst' /\ Places'
    BY Actors DEF Inv, TypeOK, Arrive, Goes, state, Waiter, Dispatcher,
       RegisteredFirst, Places, Looking
  <1>3. BeforeIsPast'
    BY DEF Inv, TypeOK, Arrive, Goes, state, BeforeIsPast
  <1>4. LookedIsWoken'
    BY Actors DEF Inv, TypeOK, Arrive, Goes, state, Waiter, Dispatcher,
       RegisteredFirst, BeforeIsPast, Places, Looking, HasLooked, Due,
       LookedIsWoken, WillNotify, Kind, Deletes
  <1> QED BY <1>1, <1>2, <1>3, <1>4 DEF Inv

\* Nor has one that registers, and its new registration is not woken.
LEMMA EnableKeeps ==
  ASSUME Inv, NEW p \in Waiter, Enable(p)
  PROVE  Inv'
  <1>1. TypeOK'
    BY Actors DEF Inv, TypeOK, Enable, Goes, state, Kind, Deletes, Waiter,
       Dispatcher, Places
  <1>2. RegisteredFirst' /\ Places'
    BY Actors DEF Inv, TypeOK, Enable, Goes, state, Waiter, Dispatcher,
       RegisteredFirst, Places, Looking
  <1>3. BeforeIsPast'
    BY DEF Inv, TypeOK, Enable, Goes, state, BeforeIsPast
  <1>4. LookedIsWoken'
    BY Actors DEF Inv, TypeOK, Enable, Goes, state, Waiter, Dispatcher,
       RegisteredFirst, BeforeIsPast, Places, Looking, HasLooked, Due,
       LookedIsWoken, WillNotify, Kind, Deletes
  <1> QED BY <1>1, <1>2, <1>3, <1>4 DEF Inv

\* A poll that takes something leaves less for the others.
LEMMA PollTakesKeeps ==
  ASSUME Inv, NEW p \in Waiter, PollTakes(p)
  PROVE  Inv'
  <1>0. PICK k \in Kind :
          /\ work[k] > 0
          /\ work' = [work EXCEPT ![k] = @ - 1]
          /\ revision' = IF k \in Deletes THEN revision ELSE revision + 1
    BY DEF PollTakes, Offered
  <1>a. /\ revision \in Nat
        /\ revision' = revision \/ revision' = revision + 1
        /\ p \in Worker /\ pc[p] = "dispatch"
        /\ pc' = [pc EXCEPT ![p] = "took"]
        /\ UNCHANGED <<backoff, resolved, changes, before, late, enabled,
                       notified, reaper>>
    BY <1>0 DEF PollTakes, Goes, Inv, TypeOK
  <1>t. work \in [Kind -> Nat] /\ work' \in [Kind -> Nat]
    <2>1. work \in [Kind -> Nat]
      BY DEF Inv, TypeOK
    <2>2. work[k] - 1 \in Nat
      BY <1>0, <2>1
    <2> QED BY <1>0, <2>1, <2>2
  <1>1. TypeOK'
    <2>1. revision' \in Nat
      BY <1>a
    <2> QED BY <1>t, <1>a, <2>1 DEF Inv, TypeOK
  <1>2. RegisteredFirst' /\ Places'
    BY <1>a, Actors DEF Inv, TypeOK, Waiter, RegisteredFirst, Places, Looking
  <1>3. BeforeIsPast'
    <2> SUFFICES ASSUME NEW e \in Dispatcher PROVE before[e] <= revision'
      BY <1>a DEF BeforeIsPast
    <2>1. before[e] <= revision /\ before[e] \in Nat /\ revision \in Nat
      BY DEF Inv, TypeOK, BeforeIsPast
    <2> QED BY <1>a, <2>1
  <1>b. WillNotify => WillNotify'
    <2> SUFFICES ASSUME WillNotify, reaper # "notify" PROVE WillNotify'
      BY <1>a DEF WillNotify
    <2>1. PICK d \in Dispatcher :
            /\ pc[d] \in {"dispatched", "took", "found none"}
            /\ revision # before[d]
      BY DEF WillNotify
    <2>2. before[d] \in Nat /\ before[d] <= revision /\ revision \in Nat
      BY DEF Inv, TypeOK, BeforeIsPast
    <2>3. revision' # before'[d]
      <3>1. before'[d] = before[d]
        BY <1>a
      <3>2. \/ revision' = revision + 1
            \/ revision' = revision /\ revision # before[d]
        BY <1>a, <2>1
      <3> QED BY <2>2, <3>1, <3>2, StaysPast
    <2>4. pc'[d] = pc[d]
      BY <1>a, <2>1 DEF Inv, TypeOK, Dispatcher, Waiter
    <2> QED BY <2>1, <2>3, <2>4 DEF WillNotify
  <1>c. \A j \in Kind : work'[j] <= work[j]
    BY <1>0, <1>t
  <1>d. \A q \in Waiter : HasLooked(q)' => HasLooked(q)
    BY <1>a DEF HasLooked, Inv, TypeOK
  <1>e. \A q \in Waiter : Due(q)' => Due(q)
    <2>1. work'["task"] <= work["task"] /\ work'["delete"] <= work["delete"]
      BY <1>c DEF Kind, Deletes
    <2>2. {work["task"], work["delete"], work'["task"], work'["delete"]} \subseteq Nat
      BY <1>t DEF Kind, Deletes
    <2>3. work'["task"] + work'["delete"] > 0 => work["task"] + work["delete"] > 0
      BY <2>1, <2>2
    <2> QED BY <1>a, <2>3 DEF Due
  <1>4. LookedIsWoken'
    BY <1>a, <1>b, <1>d, <1>e DEF LookedIsWoken, Inv
  <1> QED BY <1>1, <1>2, <1>3, <1>4 DEF Inv

\* A poll that finds nothing has nothing due at that moment.
LEMMA PollFindsNoneKeeps ==
  ASSUME Inv, NEW p \in Waiter, PollFindsNone(p)
  PROVE  Inv'
  <1>1. TypeOK'
    BY Actors DEF Inv, TypeOK, PollFindsNone, Goes, state, Kind, Deletes,
       Waiter, Dispatcher, Places
  <1>2. RegisteredFirst' /\ Places'
    BY Actors DEF Inv, TypeOK, PollFindsNone, Goes, state, Waiter, Dispatcher,
       RegisteredFirst, Places, Looking
  <1>3. BeforeIsPast'
    BY DEF Inv, TypeOK, PollFindsNone, Goes, state, BeforeIsPast
  <1>a. /\ p \in Worker /\ pc' = [pc EXCEPT ![p] = "found none"]
        /\ pc[p] = "dispatch" /\ work["task"] = 0 /\ work["delete"] = 0
        /\ UNCHANGED <<revision, work, resolved>>
        /\ UNCHANGED <<before, late, enabled, notified, reaper>>
    BY DEF PollFindsNone, Goes, Kind, Deletes, state
  <1>b. WillNotify => WillNotify'
    BY <1>a DEF WillNotify, Inv, TypeOK, Dispatcher, Waiter
  <1>c. ~Due(p)'
    <2>1. work'["task"] = 0 /\ work'["delete"] = 0
      BY <1>a
    <2>2. ~(0 + 0 > 0)
      OBVIOUS
    <2>3. ~(work'["task"] + work'["delete"] > 0)
      BY <2>1, <2>2
    <2>4. p \in Worker
      BY <1>a
    <2> QED BY <2>3, <2>4 DEF Due
  <1>d. \A q \in Waiter : HasLooked(q)' => HasLooked(q) \/ q = p
    BY <1>a DEF HasLooked, Inv, TypeOK
  <1>e. \A q \in Waiter : Due(q)' => Due(q)
    BY <1>a DEF Due
  <1>4. LookedIsWoken'
    BY <1>a, <1>b, <1>c, <1>d, <1>e DEF LookedIsWoken, Inv
  <1> QED BY <1>1, <1>2, <1>3, <1>4 DEF Inv

\* Neither has a get whose object is pending.
LEMMA GetKeeps ==
  ASSUME Inv, NEW p \in Waiter, Get(p)
  PROVE  Inv'
  <1>1. TypeOK'
    BY Actors DEF Inv, TypeOK, Get, Goes, state, Kind, Deletes, Waiter,
       Dispatcher, Places
  <1>2. RegisteredFirst' /\ Places'
    BY Actors DEF Inv, TypeOK, Get, Goes, state, Waiter, Dispatcher,
       RegisteredFirst, Places, Looking
  <1>3. BeforeIsPast'
    BY DEF Inv, TypeOK, Get, Goes, state, BeforeIsPast
  <1>4. LookedIsWoken'
    BY Actors DEF Inv, TypeOK, Get, Goes, state, Waiter, Dispatcher,
       RegisteredFirst, BeforeIsPast, Places, Looking, HasLooked, Due,
       LookedIsWoken, WillNotify, Kind, Deletes
  <1> QED BY <1>1, <1>2, <1>3, <1>4 DEF Inv

\* A caller that returns waits no more.
LEMMA ReturnKeeps ==
  ASSUME Inv, NEW p \in Waiter, Return(p)
  PROVE  Inv'
  <1>1. TypeOK'
    BY Actors DEF Inv, TypeOK, Return, AnswersUnready, Goes, state, Kind,
       Deletes, Waiter, Dispatcher, Places
  <1>2. RegisteredFirst' /\ Places'
    BY Actors DEF Inv, TypeOK, Return, AnswersUnready, Goes, state, Waiter,
       Dispatcher, RegisteredFirst, Places, Looking
  <1>3. BeforeIsPast'
    BY DEF Inv, TypeOK, Return, AnswersUnready, Goes, state, BeforeIsPast
  <1>4. LookedIsWoken'
    BY Actors DEF Inv, TypeOK, Return, AnswersUnready, Goes, state, Waiter,
       Dispatcher, RegisteredFirst, BeforeIsPast, Places, Looking, HasLooked,
       Due, LookedIsWoken, WillNotify, Kind, Deletes
  <1> QED BY <1>1, <1>2, <1>3, <1>4 DEF Inv

\* Parking changes nothing that others see.
LEMMA ParkKeeps ==
  ASSUME Inv, NEW p \in Waiter, Park(p)
  PROVE  Inv'
  <1>1. TypeOK'
    BY Actors DEF Inv, TypeOK, Park, Goes, state, Kind, Deletes, Waiter,
       Dispatcher, Places
  <1>2. RegisteredFirst' /\ Places'
    BY Actors DEF Inv, TypeOK, Park, Goes, state, Waiter, Dispatcher,
       RegisteredFirst, Places, Looking
  <1>3. BeforeIsPast'
    BY DEF Inv, TypeOK, Park, Goes, state, BeforeIsPast
  <1>4. LookedIsWoken'
    BY Actors DEF Inv, TypeOK, Park, Goes, state, Waiter, Dispatcher,
       RegisteredFirst, BeforeIsPast, Places, Looking, HasLooked, Due,
       LookedIsWoken, WillNotify, Kind, Deletes
  <1> QED BY <1>1, <1>2, <1>3, <1>4 DEF Inv

\* A waiter that wakes looks again.
LEMMA WokenKeeps ==
  ASSUME Inv, NEW p \in Waiter, Woken(p)
  PROVE  Inv'
  <1>1. TypeOK'
    BY Actors DEF Inv, TypeOK, Woken, Wakes, Again, Goes, state, Kind,
       Deletes, Waiter, Dispatcher, Places
  <1>2. RegisteredFirst' /\ Places'
    BY Actors DEF Inv, TypeOK, Woken, Wakes, Again, Goes, state, Waiter,
       Dispatcher, RegisteredFirst, Places, Looking
  <1>3. BeforeIsPast'
    BY DEF Inv, TypeOK, Woken, Wakes, Again, Goes, state, BeforeIsPast
  <1>4. LookedIsWoken'
    BY Actors DEF Inv, TypeOK, Woken, Wakes, Again, Goes, state, Waiter,
       Dispatcher, RegisteredFirst, BeforeIsPast, Places, Looking, HasLooked,
       Due, LookedIsWoken, WillNotify, Kind, Deletes
  <1> QED BY <1>1, <1>2, <1>3, <1>4 DEF Inv

\* So does one whose slice is over.
LEMMA SliceKeeps ==
  ASSUME Inv, NEW p \in Waiter, Slice(p)
  PROVE  Inv'
  <1>1. TypeOK'
    BY Actors DEF Inv, TypeOK, Slice, SliceEnds, Again, Goes, state, Kind,
       Deletes, Waiter, Dispatcher, Places
  <1>2. RegisteredFirst' /\ Places'
    BY Actors DEF Inv, TypeOK, Slice, SliceEnds, Again, Goes, state, Waiter,
       Dispatcher, RegisteredFirst, Places, Looking
  <1>3. BeforeIsPast'
    BY DEF Inv, TypeOK, Slice, SliceEnds, Again, Goes, state, BeforeIsPast
  <1>4. LookedIsWoken'
    BY Actors DEF Inv, TypeOK, Slice, SliceEnds, Again, Goes, state, Waiter,
       Dispatcher, RegisteredFirst, BeforeIsPast, Places, Looking, HasLooked,
       Due, LookedIsWoken, WillNotify, Kind, Deletes
  <1> QED BY <1>1, <1>2, <1>3, <1>4 DEF Inv

\* The end of the wait is seen at the next look only.
LEMMA WaitEndsKeeps ==
  ASSUME Inv, NEW p \in Waiter, WaitEnds(p)
  PROVE  Inv'
  <1>1. TypeOK'
    BY Actors DEF Inv, TypeOK, WaitEnds, state, Kind, Deletes, Waiter,
       Dispatcher, Places
  <1>2. RegisteredFirst' /\ Places'
    BY Actors DEF Inv, TypeOK, WaitEnds, state, Waiter, Dispatcher,
       RegisteredFirst, Places, Looking
  <1>3. BeforeIsPast'
    BY DEF Inv, TypeOK, WaitEnds, state, BeforeIsPast
  <1>4. LookedIsWoken'
    BY Actors DEF Inv, TypeOK, WaitEnds, state, Waiter, Dispatcher,
       RegisteredFirst, BeforeIsPast, Places, Looking, HasLooked, Due,
       LookedIsWoken, WillNotify, Kind, Deletes
  <1> QED BY <1>1, <1>2, <1>3, <1>4 DEF Inv

\* An expiry announces itself.
LEMMA ExpiresKeeps ==
  ASSUME Inv, Expires
  PROVE  Inv'
  <1>0. /\ revision' = revision + 1 /\ revision' \in Nat /\ backoff' \in Nat
        /\ work' \in [Kind -> Nat] /\ resolved' \subseteq Getter
        /\ changes' \in 0..MaxChanges
    BY EffectFacts DEF Inv, Expires
  <1>a. reaper' = "notify" /\ UNCHANGED <<pc, before, late, enabled, notified>>
    BY DEF Expires
  <1>1. TypeOK'
    BY <1>0, <1>a DEF Inv, TypeOK
  <1>2. RegisteredFirst' /\ Places'
    BY <1>a DEF Inv, RegisteredFirst, Places
  <1>3. BeforeIsPast'
    <2> SUFFICES ASSUME NEW e \in Dispatcher PROVE before[e] <= revision'
      BY <1>a DEF BeforeIsPast
    <2>1. before[e] <= revision /\ before[e] \in Nat /\ revision \in Nat
      BY DEF Inv, TypeOK, BeforeIsPast
    <2> QED BY <1>0, <2>1
  <1>4. LookedIsWoken'
    BY <1>a DEF LookedIsWoken, WillNotify
  <1> QED BY <1>1, <1>2, <1>3, <1>4 DEF Inv

\* A reclaim changes the revision, and nothing that a get or a task-less poll
\* was promised.
LEMMA ReclaimsKeeps ==
  ASSUME Inv, Reclaims
  PROVE  Inv'
  <1>0. work' \in [Kind -> Nat]
    <2>1. "reclaim" \in Kind /\ work \in [Kind -> Nat]
      BY DEF Kind, Deletes, Inv, TypeOK
    <2> QED BY <2>1, HandedType DEF Reclaims
  <1>a. /\ revision \in Nat /\ revision' = revision + 1
        /\ changes' \in 0..MaxChanges
        /\ UNCHANGED <<backoff, resolved, pc, before, late, enabled, notified,
                       reaper>>
    BY CountUp DEF Reclaims, Inv, TypeOK
  <1>1. TypeOK'
    <2>1. revision' \in Nat
      BY <1>a
    <2> QED BY <1>0, <1>a, <2>1 DEF Inv, TypeOK
  <1>2. RegisteredFirst' /\ Places'
    BY <1>a DEF Inv, RegisteredFirst, Places
  <1>3. BeforeIsPast'
    <2> SUFFICES ASSUME NEW e \in Dispatcher PROVE before[e] <= revision'
      BY <1>a DEF BeforeIsPast
    <2>1. before[e] <= revision /\ before[e] \in Nat /\ revision \in Nat
      BY DEF Inv, TypeOK, BeforeIsPast
    <2> QED BY <1>a, <2>1
  <1>b. WillNotify => WillNotify'
    <2> SUFFICES ASSUME WillNotify, reaper # "notify" PROVE WillNotify'
      BY <1>a DEF WillNotify
    <2>1. PICK d \in Dispatcher :
            /\ pc[d] \in {"dispatched", "took", "found none"}
            /\ revision # before[d]
      BY DEF WillNotify
    <2>2. before[d] \in Nat /\ before[d] <= revision /\ revision \in Nat
      BY DEF Inv, TypeOK, BeforeIsPast
    <2>3. revision' # before'[d]
      <3>1. before'[d] = before[d]
        BY <1>a
      <3>2. \/ revision' = revision + 1
            \/ revision' = revision /\ revision # before[d]
        BY <1>a, <2>1
      <3> QED BY <2>2, <3>1, <3>2, StaysPast
    <2>4. pc'[d] = pc[d]
      BY <1>a, <2>1 DEF Inv, TypeOK, Dispatcher, Waiter
    <2> QED BY <2>1, <2>3, <2>4 DEF WillNotify
  <1>c. work'["task"] = work["task"] /\ work'["delete"] = work["delete"]
    BY DEF Reclaims, Handed, Inv, TypeOK, Kind, Deletes
  <1>4. LookedIsWoken'
    BY <1>a, <1>b, <1>c DEF LookedIsWoken, Inv, HasLooked, Due
  <1> QED BY <1>1, <1>2, <1>3, <1>4 DEF Inv

\* The reaper's notify reaches every registered waiter.
LEMMA ReaperNotifiesKeeps ==
  ASSUME Inv, ReaperNotifies
  PROVE  Inv'
  <1>1. TypeOK'
    BY Actors DEF Inv, TypeOK, ReaperNotifies, NotifyWaiters, state, Kind,
       Deletes, Waiter, Dispatcher, Places
  <1>2. RegisteredFirst' /\ Places'
    BY Actors DEF Inv, TypeOK, ReaperNotifies, NotifyWaiters, state, Waiter,
       Dispatcher, RegisteredFirst, Places, Looking
  <1>3. BeforeIsPast'
    BY DEF Inv, TypeOK, ReaperNotifies, NotifyWaiters, state, BeforeIsPast
  <1>4. LookedIsWoken'
    BY Actors DEF Inv, TypeOK, ReaperNotifies, NotifyWaiters, state, Waiter,
       Dispatcher, RegisteredFirst, BeforeIsPast, Places, Looking, HasLooked,
       Due, LookedIsWoken, WillNotify, Kind, Deletes
  <1> QED BY <1>1, <1>2, <1>3, <1>4 DEF Inv

\* A retry that becomes assignable is not among what was promised.
LEMMA BackoffEndsKeeps ==
  ASSUME Inv, BackoffEnds
  PROVE  Inv'
  <1>1. TypeOK'
    <2>1. "retry" \in Kind /\ work \in [Kind -> Nat] /\ backoff \in Nat
      BY DEF Kind, Inv, TypeOK
    <2>2. work' \in [Kind -> Nat] /\ backoff' \in Nat
      BY <2>1, HandedType DEF BackoffEnds
    <2> QED BY <2>2 DEF BackoffEnds, Inv, TypeOK
  <1>2. RegisteredFirst' /\ Places'
    BY Actors DEF Inv, TypeOK, BackoffEnds, Handed, Waiter, Dispatcher,
       RegisteredFirst, Places, Looking
  <1>3. BeforeIsPast'
    BY DEF Inv, TypeOK, BackoffEnds, Handed, BeforeIsPast
  <1>4. LookedIsWoken'
    BY Actors DEF Inv, TypeOK, BackoffEnds, Handed, Waiter, Dispatcher,
       RegisteredFirst, BeforeIsPast, Places, Looking, HasLooked, Due,
       LookedIsWoken, WillNotify, Kind, Deletes
  <1> QED BY <1>1, <1>2, <1>3, <1>4 DEF Inv

\* Every step keeps the invariant.
LEMMA StepInv == Inv /\ [Next]_vars => Inv'
  <1> SUFFICES ASSUME Inv, [Next]_vars PROVE Inv'
    OBVIOUS
  <1>1. CASE UNCHANGED vars
    BY <1>1 DEF vars, Inv, TypeOK, RegisteredFirst, BeforeIsPast, Places,
       LookedIsWoken, HasLooked, Due, WillNotify
  <1>2. ASSUME NEW p \in Waiter, WaiterStep(p) \/ WaitEnds(p) PROVE Inv'
    BY <1>2, ArriveKeeps, EnableKeeps, PollTakesKeeps, PollFindsNoneKeeps,
       GetKeeps, ReturnKeeps, ParkKeeps, WokenKeeps, SliceKeeps, WaitEndsKeeps
       DEF WaiterStep
  <1>3. ASSUME NEW d \in Dispatcher, DispatcherStep(d) PROVE Inv'
    BY <1>3, ReadRevisionKeeps, CompareAndNotifyKeeps DEF DispatcherStep
  <1>4. ASSUME NEW m \in Mutator, Dispatch(m) PROVE Inv'
    BY <1>4, DispatchKeeps
  <1>5. CASE BackoffEnds \/ Expires \/ Reclaims \/ ReaperNotifies
    BY <1>5, BackoffEndsKeeps, ExpiresKeeps, ReclaimsKeeps, ReaperNotifiesKeeps
  <1> QED BY <1>1, <1>2, <1>3, <1>4, <1>5 DEF Next

\* The inductive invariant holds, for all sets of workers, gets and requests.
THEOREM InvHolds == Spec => []Inv
  BY InitInv, StepInv, PTL DEF Spec

\* Type correctness of the long-poll state.
THEOREM TypeCorrect == Spec => []TypeOK
  <1>1. Inv => TypeOK
    BY DEF Inv
  <1> QED BY <1>1, InvHolds, PTL

\* long_poll never parks on something that dispatch_and_notify or an expiry
\* produced without being woken for it.
THEOREM NoWakeupLost == Spec => []WakeupNotLost
  <1>1. Inv => WakeupNotLost
    BY DEF Inv, LookedIsWoken, HasLooked, Due, WakeupNotLost, FoundNothing
  <1> QED BY <1>1, InvHolds, PTL
=============================================================================
