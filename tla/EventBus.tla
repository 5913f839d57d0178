------------------------------ MODULE EventBus ------------------------------
(***************************************************************************)
(* The event bus (src/common/event_bus.cpp).  Subscriber threads subscribe *)
(* (to one category, or to all) and later unsubscribe; one publisher      *)
(* thread (the gateway loop's publish_event) publishes events.  Every     *)
(* method body runs under mutex_ except publish's callback loop: publish  *)
(* copies the matching callbacks under the lock (PublishSnapshot) and      *)
(* calls them one by one after releasing it (PublishCall), so the other   *)
(* threads interleave between the calls.  Callbacks are opaque and do not *)
(* call back into the bus.                                                 *)
(*                                                                         *)
(* subs_ is kept as the set of its entries.  subscribe appends and ids     *)
(* increase, so the vector's order is the order of ids until next_id_      *)
(* wraps; publish calls the copied callbacks in that order.                *)
(*                                                                         *)
(* Ghost state: for each subscriber the number of events published when   *)
(* its subscribe and its unsubscribe returned, the category of every      *)
(* published event, and the set of callback invocations <<s, k>>.          *)
(***************************************************************************)
EXTENDS Naturals, Sequences, FiniteSets

CONSTANTS
    Categories,    \* EventCategory values
    Subscribers,   \* subscriber threads, each with one callback
    Wanted,        \* Wanted[s]: the category s subscribes to, or AllCats
    AllCats,       \* subscribe_all instead of subscribe(cat)
    Tracking,      \* EventCategory::TRACKING, stored by subscribe_all
    IdMod,         \* 2^32: next_id_ is a uint32_t
    MaxEvents      \* bound on the events published in a run

ASSUME BusAssumption ==
    /\ Wanted \in [Subscribers -> Categories \cup {AllCats}]
    /\ AllCats \notin Categories
    /\ Tracking \in Categories
    /\ IdMod \in Nat \ {0}
    /\ MaxEvents \in Nat

\* Each subscriber subscribes once and next_id_ starts at 1: ids never wrap.
ASSUME NoIdWrap ==
    /\ IsFiniteSet(Subscribers)
    /\ Cardinality(Subscribers) + 1 < IdMod

VARIABLES
    subs,      \* subs_: its entries [id, category, all, cb]
    nextId,    \* next_id_
    sstate,    \* each subscriber thread: "new", "subscribed" or "gone"
    sid,       \* the id subscribe returned to each subscriber
    pubPc,     \* the publisher: "idle", or "calling" the copied callbacks
    toCall,    \* publish's to_call: the copied entries still to invoke
    pubCat,    \* the category of every event published so far (ghost)
    subAt,     \* events published when subscribe returned (ghost)
    goneAt,    \* events published when unsubscribe returned (ghost)
    called     \* the invocations <<s, k>>: s's callback ran for event k (ghost)

busVars == <<subs, nextId, sstate, sid, pubPc, toCall, pubCat, subAt, goneAt,
             called>>

BusInit ==
    /\ subs = {}
    /\ nextId = 1
    /\ sstate = [s \in Subscribers |-> "new"]
    /\ sid = [s \in Subscribers |-> 0]
    /\ pubPc = "idle"
    /\ toCall = {}
    /\ pubCat = <<>>
    /\ subAt = [s \in Subscribers |-> 0]
    /\ goneAt = [s \in Subscribers |-> 0]
    /\ called = {}

\* The entry subscribe (lines 8-9) or subscribe_all (lines 15-16) pushes.
Entry(s, id) ==
    IF Wanted[s] = AllCats
      THEN [id |-> id, category |-> Tracking, all |-> TRUE, cb |-> s]
      ELSE [id |-> id, category |-> Wanted[s], all |-> FALSE, cb |-> s]

\* subscribe (lines 6-11) and subscribe_all (lines 13-18).
Subscribe(s) ==
    /\ sstate[s] = "new"
    /\ subs' = subs \cup {Entry(s, nextId)}
    /\ nextId' = (nextId + 1) % IdMod
    /\ sid' = [sid EXCEPT ![s] = nextId]
    /\ sstate' = [sstate EXCEPT ![s] = "subscribed"]
    /\ subAt' = [subAt EXCEPT ![s] = Len(pubCat)]
    /\ UNCHANGED <<pubPc, toCall, pubCat, goneAt, called>>

\* unsubscribe (lines 20-26): erase every subscription with that id.
Unsubscribe(s) ==
    /\ sstate[s] = "subscribed"
    /\ subs' = {e \in subs : e.id # sid[s]}
    /\ sstate' = [sstate EXCEPT ![s] = "gone"]
    /\ goneAt' = [goneAt EXCEPT ![s] = Len(pubCat)]
    /\ UNCHANGED <<nextId, sid, pubPc, toCall, pubCat, subAt, called>>

\* Mutant: the filter of publish requiring both all_categories and the category.
MatchesBoth(e, cat) == e.all /\ e.category = cat

\* Line 35: the subscription takes the event.
Matches(e, cat) == e.all \/ e.category = cat

\* publish, lines 31-39: copy the matching callbacks under the lock.
PublishSnapshot(cat) ==
    /\ pubPc = "idle"
    /\ Len(pubCat) < MaxEvents
    /\ toCall' = {e \in subs : Matches(e, cat)}
    /\ pubCat' = Append(pubCat, cat)
    /\ pubPc' = "calling"
    /\ UNCHANGED <<subs, nextId, sstate, sid, subAt, goneAt, called>>

\* Lines 40-42: invoke the next copied callback, without the lock.
PublishCall ==
    /\ pubPc = "calling"
    /\ \E e \in toCall :
          /\ \A f \in toCall : e.id <= f.id
          /\ called' = called \cup {<<e.cb, Len(pubCat)>>}
          /\ toCall' = toCall \ {e}
    /\ UNCHANGED <<subs, nextId, sstate, sid, pubPc, pubCat, subAt, goneAt>>

\* Line 43: every copied callback has run; publish returns.
PublishDone ==
    /\ pubPc = "calling"
    /\ toCall = {}
    /\ pubPc' = "idle"
    /\ UNCHANGED <<subs, nextId, sstate, sid, toCall, pubCat, subAt, goneAt,
                   called>>

BusNext ==
    \/ \E s \in Subscribers : Subscribe(s) \/ Unsubscribe(s)
    \/ \E cat \in Categories : PublishSnapshot(cat)
    \/ PublishCall
    \/ PublishDone

BusSpec == BusInit /\ [][BusNext]_busVars

(***************************************************************************)
(* Between publishes, subscriber s has been called back for event k        *)
(* exactly when it wants k's category, its subscribe returned before k was *)
(* published, and its unsubscribe had not returned when publish copied    *)
(* the list.  So a callback may run after unsubscribe returns (it was     *)
(* copied before), but only for an event published before; and a         *)
(* subscribe_all subscriber gets every category although the bus stores   *)
(* it under TRACKING.                                                      *)
(***************************************************************************)
Wants(s, cat) == Wanted[s] = AllCats \/ Wanted[s] = cat

DeliveryExact ==
    pubPc = "idle" =>
      \A s \in Subscribers, k \in 1 .. Len(pubCat) :
        (<<s, k>> \in called)
          <=> /\ Wants(s, pubCat[k])
              /\ sstate[s] # "new"
              /\ subAt[s] < k
              /\ sstate[s] = "gone" => goneAt[s] >= k

=============================================================================
