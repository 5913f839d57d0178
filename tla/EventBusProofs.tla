--------------------------- MODULE EventBusProofs ---------------------------
(***************************************************************************)
(* Proof that the event bus delivers every event to exactly the           *)
(* subscribers it should (DeliveryExact), for every set of subscribers    *)
(* and categories and every number of events.                              *)
(***************************************************************************)
EXTENDS EventBus, FiniteSetTheorems, TLAPS

USE BusAssumption, NoIdWrap

SubEntry == [id : Nat, category : Categories, all : BOOLEAN, cb : Subscribers]

BusTypeOK ==
    /\ subs \in SUBSET SubEntry
    /\ nextId \in Nat
    /\ sstate \in [Subscribers -> {"new", "subscribed", "gone"}]
    /\ sid \in [Subscribers -> Nat]
    /\ pubPc \in {"idle", "calling"}
    /\ toCall \in SUBSET SubEntry
    /\ pubCat \in Seq(Categories)
    /\ subAt \in [Subscribers -> Nat]
    /\ goneAt \in [Subscribers -> Nat]
    /\ called \in SUBSET (Subscribers \X Nat)

\* The subscribers that have subscribed.
Joined == {s \in Subscribers : sstate[s] # "new"}

\* s is owed event k: the right-hand side of DeliveryExact.
Owed(s, k) == /\ Wants(s, pubCat[k])
              /\ sstate[s] # "new"
              /\ subAt[s] < k
              /\ sstate[s] = "gone" => goneAt[s] >= k

(***************************************************************************)
(* The strengthening.  subs_ holds one entry per subscribed subscriber,   *)
(* with the id subscribe returned; ids are distinct and below next_id_,   *)
(* which counts the subscriptions.  While publish is calling, to_call     *)
(* holds exactly the owed subscribers the current event has not reached   *)
(* yet.                                                                    *)
(***************************************************************************)
SubsInv ==
    /\ \A e \in subs : e = Entry(e.cb, sid[e.cb]) /\ sstate[e.cb] = "subscribed"
    /\ \A s \in Subscribers : sstate[s] = "subscribed" => Entry(s, sid[s]) \in subs

IdsInv ==
    /\ IsFiniteSet(Joined)
    /\ nextId = Cardinality(Joined) + 1
    /\ \A s \in Joined : sid[s] \in 1 .. nextId - 1
    /\ \A s, t \in Joined : s # t => sid[s] # sid[t]

HistInv ==
    /\ \A s \in Subscribers : subAt[s] <= Len(pubCat) /\ goneAt[s] <= Len(pubCat)
    /\ \A c \in called : c[2] \in 1 .. Len(pubCat)

CallInv ==
    /\ pubPc = "idle" => toCall = {}
    /\ \A e \in toCall : e = Entry(e.cb, sid[e.cb]) /\ e.cb \in Joined
    /\ pubPc = "calling" =>
         /\ Len(pubCat) >= 1
         /\ \A s \in Subscribers :
              /\ (<<s, Len(pubCat)>> \in called \/ Entry(s, sid[s]) \in toCall)
                   <=> Owed(s, Len(pubCat))
              /\ ~(<<s, Len(pubCat)>> \in called /\ Entry(s, sid[s]) \in toCall)

DoneInv ==
    \A s \in Subscribers, k \in 1 .. Len(pubCat) :
        (k < Len(pubCat) \/ pubPc = "idle") => ((<<s, k>> \in called) <=> Owed(s, k))

IInv == BusTypeOK /\ SubsInv /\ IdsInv /\ HistInv /\ CallInv /\ DoneInv

-----------------------------------------------------------------------------

\* An entry records its subscriber and id, and takes what its subscriber wants.
LEMMA EntryFacts ==
    ASSUME NEW s \in Subscribers, NEW id \in Nat
    PROVE  /\ Entry(s, id) \in SubEntry
           /\ Entry(s, id).cb = s
           /\ Entry(s, id).id = id
           /\ \A cat \in Categories : Matches(Entry(s, id), cat) <=> Wants(s, cat)
BY DEF Entry, SubEntry, Matches, Wants

LEMMA IInvInit == BusInit => IInv
<1> SUFFICES ASSUME BusInit PROVE IInv
  OBVIOUS
<1>1. Joined = {}
  BY DEF BusInit, Joined
<1>2. IsFiniteSet(Joined) /\ Cardinality(Joined) = 0
  BY <1>1, FS_EmptySet
<1> QED  BY <1>1, <1>2
         DEF BusInit, IInv, BusTypeOK, SubsInv, IdsInv, HistInv, CallInv, DoneInv

\* publish returns once every copied callback has run.
LEMMA IInvDone ==
    ASSUME IInv, PublishDone
    PROVE  IInv'
<1>1. /\ pubPc = "calling" /\ pubPc' = "idle" /\ toCall = {}
      /\ UNCHANGED <<subs, nextId, sstate, sid, toCall, pubCat, subAt, goneAt, called>>
  BY DEF PublishDone
<1>2. DoneInv'
  <2> SUFFICES ASSUME NEW s \in Subscribers, NEW k \in 1 .. Len(pubCat)
               PROVE  (<<s, k>> \in called) <=> Owed(s, k)
    BY <1>1 DEF DoneInv, Owed
  <2>1. CASE k < Len(pubCat)
    BY <2>1 DEF IInv, DoneInv
  <2>2. CASE k = Len(pubCat)
    BY <1>1, <2>2 DEF IInv, CallInv
  <2> QED  BY <2>1, <2>2 DEF IInv, BusTypeOK
<1> QED  BY <1>1, <1>2 DEF IInv, BusTypeOK, SubsInv, IdsInv, HistInv, CallInv, Joined

LEMMA IInvStutter ==
    ASSUME IInv, UNCHANGED busVars
    PROVE  IInv'
BY DEF IInv, busVars, BusTypeOK, SubsInv, IdsInv, HistInv, CallInv, DoneInv,
       Joined, Owed

(***************************************************************************)
(* subscribe: the new entry carries next_id_, which is above every id     *)
(* handed out so far and, as fewer subscriptions than IdMod - 1 have been *)
(* made, does not wrap when incremented.                                  *)
(***************************************************************************)
LEMMA IInvSubscribe ==
    ASSUME IInv, NEW s \in Subscribers, Subscribe(s)
    PROVE  IInv'
<1> DEFINE K == Len(pubCat)
<1>1. /\ sstate[s] = "new"
      /\ subs' = subs \cup {Entry(s, nextId)}
      /\ nextId' = (nextId + 1) % IdMod
      /\ sid' = [sid EXCEPT ![s] = nextId]
      /\ sstate' = [sstate EXCEPT ![s] = "subscribed"]
      /\ subAt' = [subAt EXCEPT ![s] = K]
      /\ UNCHANGED <<pubPc, toCall, pubCat, goneAt, called>>
  BY DEF Subscribe
<1>2. /\ BusTypeOK /\ SubsInv /\ IdsInv /\ HistInv /\ CallInv /\ DoneInv
  BY DEF IInv
<1>3. /\ s \notin Joined
      /\ Joined' = Joined \cup {s}
  BY <1>1, <1>2 DEF Joined, BusTypeOK
<1>4. /\ IsFiniteSet(Joined')
      /\ Cardinality(Joined') = Cardinality(Joined) + 1
  BY <1>2, <1>3, FS_AddElement DEF IdsInv
<1>5. nextId' = nextId + 1 /\ nextId \in Nat \ {0}
  <2>1. Joined \subseteq Subscribers \ {s}
    BY <1>3 DEF Joined
  <2>2. /\ IsFiniteSet(Subscribers \ {s})
        /\ Cardinality(Subscribers \ {s}) = Cardinality(Subscribers) - 1
    BY FS_RemoveElement, FS_Subset
  <2>3. Cardinality(Joined) <= Cardinality(Subscribers) - 1
    BY <2>1, <2>2, FS_Subset
  <2>4. Cardinality(Joined) \in Nat /\ Cardinality(Subscribers) \in Nat
    BY <1>2, FS_CardinalityType DEF IdsInv
  <2>5. nextId + 1 < IdMod /\ nextId = Cardinality(Joined) + 1
    BY <1>2, <2>3, <2>4 DEF IdsInv
  <2> QED  BY <1>1, <2>4, <2>5
<1>6. Entry(s, nextId) \in SubEntry /\ Entry(s, nextId).cb = s
  BY <1>5, EntryFacts
<1>7. \A t \in Subscribers \ {s} :
        sid'[t] = sid[t] /\ sstate'[t] = sstate[t] /\ subAt'[t] = subAt[t]
  BY <1>1, <1>2 DEF BusTypeOK
<1>8. BusTypeOK'
  BY <1>1, <1>2, <1>5, <1>6 DEF BusTypeOK
<1>9. SubsInv'
  <2>1. ASSUME NEW e \in subs'
        PROVE  e = Entry(e.cb, sid'[e.cb]) /\ sstate'[e.cb] = "subscribed"
    <3>1. CASE e \in subs
      <4>1. e.cb \in Subscribers \ {s}
        BY <1>1, <1>2, <3>1 DEF SubsInv, BusTypeOK, SubEntry
      <4> QED  BY <1>2, <1>7, <3>1, <4>1 DEF SubsInv
    <3>2. CASE e = Entry(s, nextId)
      BY <1>1, <1>2, <1>6, <3>2 DEF BusTypeOK
    <3> QED  BY <1>1, <2>1, <3>1, <3>2
  <2>2. ASSUME NEW t \in Subscribers, sstate'[t] = "subscribed"
        PROVE  Entry(t, sid'[t]) \in subs'
    <3>1. CASE t = s
      BY <1>1, <1>2, <3>1 DEF BusTypeOK
    <3>2. CASE t # s
      BY <1>1, <1>2, <1>7, <2>2, <3>2 DEF SubsInv
    <3> QED  BY <3>1, <3>2
  <2> QED  BY <2>1, <2>2 DEF SubsInv
<1>10. IdsInv'
  <2>1. \A t \in Joined : sid[t] \in 1 .. nextId - 1
    BY <1>2 DEF IdsInv
  <2>2. \A t \in Joined' : sid'[t] \in 1 .. nextId' - 1
    BY <1>1, <1>2, <1>3, <1>5, <1>7, <2>1 DEF BusTypeOK, Joined
  <2>3. \A t, u \in Joined' : t # u => sid'[t] # sid'[u]
    <3> SUFFICES ASSUME NEW t \in Joined', NEW u \in Joined', t # u
                 PROVE  sid'[t] # sid'[u]
      OBVIOUS
    <3>1. sid'[s] = nextId /\ Joined \subseteq Subscribers \ {s}
      BY <1>1, <1>2, <1>3 DEF BusTypeOK, Joined
    <3>2. CASE t = s
      BY <1>3, <1>5, <1>7, <2>1, <3>1, <3>2
    <3>3. CASE u = s
      BY <1>3, <1>5, <1>7, <2>1, <3>1, <3>3
    <3>4. CASE t # s /\ u # s
      BY <1>2, <1>3, <1>7, <3>1, <3>4 DEF IdsInv
    <3> QED  BY <3>2, <3>3, <3>4
  <2> QED  BY <1>2, <1>4, <1>5, <2>2, <2>3 DEF IdsInv
<1>11. HistInv'
  BY <1>1, <1>2 DEF HistInv, BusTypeOK
<1>12. \A t \in Subscribers \ {s}, k \in 1 .. K : Owed(t, k)' <=> Owed(t, k)
  BY <1>1, <1>7 DEF Owed
<1>13. \A k \in 1 .. K : ~Owed(s, k)' /\ ~Owed(s, k)
  BY <1>1, <1>2 DEF Owed, BusTypeOK
<1>14. \A e \in toCall : e.cb # s
  BY <1>2, <1>3 DEF CallInv
<1>15. CallInv'
  <2>1. \A e \in toCall' : e = Entry(e.cb, sid'[e.cb]) /\ e.cb \in Joined'
    BY <1>1, <1>2, <1>3, <1>7, <1>14 DEF CallInv, Joined
  <2>2. ASSUME pubPc' = "calling", NEW t \in Subscribers
        PROVE  /\ (<<t, K>> \in called' \/ Entry(t, sid'[t]) \in toCall')
                     <=> Owed(t, K)'
               /\ ~(<<t, K>> \in called' /\ Entry(t, sid'[t]) \in toCall')
    <3>1. K >= 1 /\ K \in 1 .. K
      BY <1>1, <1>2, <2>2 DEF CallInv, BusTypeOK
    <3>2. CASE t = s
      <4>1. <<s, K>> \notin called
        BY <1>1, <1>2, <1>13, <2>2, <3>1 DEF CallInv
      <4>2. Entry(s, nextId) \notin toCall
        BY <1>6, <1>14
      <4>3. sid'[s] = nextId
        BY <1>1, <1>2 DEF BusTypeOK
      <4> QED  BY <1>1, <1>13, <3>1, <3>2, <4>1, <4>2, <4>3
    <3>3. CASE t # s
      BY <1>1, <1>2, <1>7, <1>12, <2>2, <3>1, <3>3 DEF CallInv
    <3> QED  BY <3>2, <3>3
  <2> QED  BY <1>1, <1>2, <2>1, <2>2 DEF CallInv
<1>16. DoneInv'
  <2> SUFFICES ASSUME NEW t \in Subscribers, NEW k \in 1 .. K,
                      k < K \/ pubPc = "idle"
               PROVE  (<<t, k>> \in called) <=> Owed(t, k)'
    BY <1>1 DEF DoneInv
  <2>1. CASE t = s
    BY <1>2, <1>13, <2>1 DEF DoneInv
  <2>2. CASE t # s
    BY <1>2, <1>12, <2>2 DEF DoneInv
  <2> QED  BY <2>1, <2>2
<1> QED  BY <1>8, <1>9, <1>10, <1>11, <1>15, <1>16 DEF IInv

(***************************************************************************)
(* unsubscribe: the erase removes exactly the caller's entry, because no  *)
(* other subscription has its id; as the unsubscribe returns after the    *)
(* events published so far, what the subscriber is owed does not change.  *)
(***************************************************************************)
LEMMA IInvUnsubscribe ==
    ASSUME IInv, NEW s \in Subscribers, Unsubscribe(s)
    PROVE  IInv'
<1> DEFINE K == Len(pubCat)
<1>1. /\ sstate[s] = "subscribed"
      /\ subs' = {e \in subs : e.id # sid[s]}
      /\ sstate' = [sstate EXCEPT ![s] = "gone"]
      /\ goneAt' = [goneAt EXCEPT ![s] = K]
      /\ UNCHANGED <<nextId, sid, pubPc, toCall, pubCat, subAt, called>>
  BY DEF Unsubscribe
<1>2. /\ BusTypeOK /\ SubsInv /\ IdsInv /\ HistInv /\ CallInv /\ DoneInv
  BY DEF IInv
<1>3. Joined' = Joined /\ s \in Joined
  BY <1>1, <1>2 DEF Joined, BusTypeOK
<1>4. \A t \in Subscribers \ {s} : sstate'[t] = sstate[t] /\ goneAt'[t] = goneAt[t]
  BY <1>1, <1>2 DEF BusTypeOK
<1>5. \A t \in Subscribers, k \in 1 .. K : Owed(t, k)' <=> Owed(t, k)
  <2> SUFFICES ASSUME NEW t \in Subscribers, NEW k \in 1 .. K
               PROVE  Owed(t, k)' <=> Owed(t, k)
    OBVIOUS
  <2>1. CASE t = s
    BY <1>1, <1>2, <2>1 DEF Owed, BusTypeOK
  <2>2. CASE t # s
    BY <1>1, <1>4, <2>2 DEF Owed
  <2> QED  BY <2>1, <2>2
<1>6. \A t \in Joined : t # s => sid[t] # sid[s]
  BY <1>2, <1>3 DEF IdsInv
<1>7. BusTypeOK'
  BY <1>1, <1>2 DEF BusTypeOK
<1>8. SubsInv'
  <2>1. ASSUME NEW e \in subs'
        PROVE  e = Entry(e.cb, sid'[e.cb]) /\ sstate'[e.cb] = "subscribed"
    <3>1. e \in subs /\ e.id # sid[s]
      BY <1>1
    <3>2. e = Entry(e.cb, sid[e.cb]) /\ sstate[e.cb] = "subscribed" /\ e.cb \in Subscribers
      BY <1>2, <3>1 DEF SubsInv, BusTypeOK, SubEntry
    <3>3. e.cb # s
      BY <1>2, <3>1, <3>2, EntryFacts DEF BusTypeOK
    <3> QED  BY <1>1, <1>4, <3>2, <3>3
  <2>2. ASSUME NEW t \in Subscribers, sstate'[t] = "subscribed"
        PROVE  Entry(t, sid'[t]) \in subs'
    <3>1. t # s /\ sstate[t] = "subscribed"
      BY <1>1, <1>2, <1>4, <2>2 DEF BusTypeOK
    <3>2. Entry(t, sid[t]) \in subs /\ Entry(t, sid[t]).id = sid[t]
      BY <1>2, <3>1, EntryFacts DEF SubsInv, BusTypeOK
    <3>3. sid[t] # sid[s]
      BY <1>6, <3>1 DEF Joined
    <3> QED  BY <1>1, <3>2, <3>3
  <2> QED  BY <2>1, <2>2 DEF SubsInv
<1>9. IdsInv'
  BY <1>1, <1>2, <1>3 DEF IdsInv
<1>10. HistInv'
  BY <1>1, <1>2 DEF HistInv, BusTypeOK
<1>11. CallInv'
  <2>1. pubPc = "calling" => K >= 1 /\ K \in 1 .. K
    BY <1>2 DEF CallInv, BusTypeOK
  <2> QED  BY <1>1, <1>2, <1>3, <1>5, <2>1 DEF CallInv
<1>12. DoneInv'
  BY <1>1, <1>2, <1>5 DEF DoneInv
<1> QED  BY <1>7, <1>8, <1>9, <1>10, <1>11, <1>12 DEF IInv

(***************************************************************************)
(* publish copies the list: the copied entries are those of the           *)
(* subscribed subscribers that want the category, and no callback has run *)
(* for the new event yet.  A gone subscriber is not owed it, as its       *)
(* unsubscribe returned earlier.                                          *)
(***************************************************************************)
LEMMA IInvSnapshot ==
    ASSUME IInv, NEW cat \in Categories, PublishSnapshot(cat)
    PROVE  IInv'
<1> DEFINE K == Len(pubCat)
<1>1. /\ pubPc = "idle"
      /\ toCall' = {e \in subs : Matches(e, cat)}
      /\ pubCat' = Append(pubCat, cat)
      /\ pubPc' = "calling"
      /\ UNCHANGED <<subs, nextId, sstate, sid, subAt, goneAt, called>>
  BY DEF PublishSnapshot
<1>2. /\ BusTypeOK /\ SubsInv /\ IdsInv /\ HistInv /\ CallInv /\ DoneInv
  BY DEF IInv
<1>3. /\ K \in Nat
      /\ Len(pubCat') = K + 1
      /\ pubCat'[K + 1] = cat
      /\ \A k \in 1 .. K : pubCat'[k] = pubCat[k]
      /\ pubCat' \in Seq(Categories)
  BY <1>1, <1>2 DEF BusTypeOK
<1>4. \A t \in Subscribers, k \in 1 .. K : Owed(t, k)' <=> Owed(t, k)
  BY <1>1, <1>3 DEF Owed
<1>5. \A t \in Subscribers :
         Entry(t, sid[t]) \in toCall' <=> sstate[t] = "subscribed" /\ Wants(t, cat)
  <2> SUFFICES ASSUME NEW t \in Subscribers
               PROVE  Entry(t, sid[t]) \in toCall'
                        <=> sstate[t] = "subscribed" /\ Wants(t, cat)
    OBVIOUS
  <2>1. /\ Entry(t, sid[t]).cb = t
        /\ Matches(Entry(t, sid[t]), cat) <=> Wants(t, cat)
    BY <1>2, EntryFacts DEF BusTypeOK
  <2>2. Entry(t, sid[t]) \in subs <=> sstate[t] = "subscribed"
    BY <1>2, <2>1 DEF SubsInv
  <2> QED  BY <1>1, <2>1, <2>2
<1>6. \A t \in Subscribers :
        (/\ Wants(t, pubCat'[K + 1])
         /\ sstate'[t] # "new"
         /\ subAt'[t] < K + 1
         /\ sstate'[t] = "gone" => goneAt'[t] >= K + 1)
          <=> sstate[t] = "subscribed" /\ Wants(t, cat)
  <2> SUFFICES ASSUME NEW t \in Subscribers
               PROVE  (/\ Wants(t, pubCat'[K + 1])
                       /\ sstate'[t] # "new"
                       /\ subAt'[t] < K + 1
                       /\ sstate'[t] = "gone" => goneAt'[t] >= K + 1)
                        <=> sstate[t] = "subscribed" /\ Wants(t, cat)
    OBVIOUS
  <2>1. subAt[t] \in 0 .. K /\ goneAt[t] \in 0 .. K
    BY <1>2, <1>3 DEF HistInv, BusTypeOK
  <2>2. sstate[t] \in {"new", "subscribed", "gone"}
    BY <1>2 DEF BusTypeOK
  <2>3. sstate' = sstate /\ subAt' = subAt /\ goneAt' = goneAt
    BY <1>1
  <2> QED  BY <1>3, <2>1, <2>2, <2>3
<1>7. \A t \in Subscribers : <<t, K + 1>> \notin called
  BY <1>2 DEF HistInv, BusTypeOK
<1>8. BusTypeOK'
  BY <1>1, <1>2, <1>3 DEF BusTypeOK
<1>9. CallInv'
  <2>1. \A e \in toCall' : e = Entry(e.cb, sid[e.cb]) /\ e.cb \in Joined
    BY <1>1, <1>2 DEF SubsInv, Joined, BusTypeOK, SubEntry
  <2>2. Joined' = Joined
    BY <1>1 DEF Joined
  <2>3. called' = called /\ sid' = sid /\ pubPc' = "calling"
    BY <1>1
  <2> QED  BY <1>3, <1>5, <1>6, <1>7, <2>1, <2>2, <2>3 DEF CallInv, Owed
<1>10. DoneInv'
  <2> SUFFICES ASSUME NEW t \in Subscribers, NEW k \in 1 .. K + 1, k < K + 1
               PROVE  (<<t, k>> \in called) <=> Owed(t, k)'
    BY <1>1, <1>3 DEF DoneInv
  <2>1. k \in 1 .. K
    BY <1>3
  <2> QED  BY <1>1, <1>2, <1>4, <2>1 DEF DoneInv
<1>11. HistInv'
  BY <1>1, <1>2, <1>3 DEF HistInv, BusTypeOK
<1> QED  BY <1>1, <1>2, <1>8, <1>9, <1>10, <1>11 DEF IInv, SubsInv, IdsInv, Joined

(***************************************************************************)
(* One copied callback runs: it moves its subscriber from to_call to the  *)
(* set of invocations for the current event.                               *)
(***************************************************************************)
LEMMA IInvCall ==
    ASSUME IInv, PublishCall
    PROVE  IInv'
<1> DEFINE K == Len(pubCat)
<1>1. PICK e \in toCall :
        /\ pubPc = "calling"
        /\ called' = called \cup {<<e.cb, K>>}
        /\ toCall' = toCall \ {e}
        /\ UNCHANGED <<subs, nextId, sstate, sid, pubPc, pubCat, subAt, goneAt>>
  BY DEF PublishCall
<1>2. /\ BusTypeOK /\ SubsInv /\ IdsInv /\ HistInv /\ CallInv /\ DoneInv
  BY DEF IInv
<1>3. /\ e = Entry(e.cb, sid[e.cb]) /\ e.cb \in Subscribers
      /\ K >= 1 /\ K \in Nat
  BY <1>1, <1>2 DEF CallInv, Joined, BusTypeOK
<1>4. \A t \in Subscribers : t # e.cb => Entry(t, sid[t]) # e
  BY <1>2, <1>3, EntryFacts DEF BusTypeOK
<1>5. BusTypeOK'
  BY <1>1, <1>2, <1>3 DEF BusTypeOK
<1>6. HistInv'
  BY <1>1, <1>2, <1>3 DEF HistInv
<1>7. CallInv'
  <2>1. ASSUME NEW t \in Subscribers
        PROVE  /\ (<<t, K>> \in called' \/ Entry(t, sid[t]) \in toCall')
                     <=> Owed(t, K)
               /\ ~(<<t, K>> \in called' /\ Entry(t, sid[t]) \in toCall')
    <3>1. CASE t = e.cb
      BY <1>1, <1>2, <1>3, <3>1 DEF CallInv
    <3>2. CASE t # e.cb
      BY <1>1, <1>2, <1>4, <3>2 DEF CallInv
    <3> QED  BY <3>1, <3>2
  <2> QED  BY <1>1, <1>2, <1>3, <2>1 DEF CallInv, Owed, Joined
<1>8. DoneInv'
  BY <1>1, <1>2 DEF DoneInv, Owed
<1> QED  BY <1>1, <1>2, <1>5, <1>6, <1>7, <1>8 DEF IInv, SubsInv, IdsInv, Joined

LEMMA IInvStep ==
    ASSUME IInv, [BusNext]_busVars
    PROVE  IInv'
<1>1. CASE \E s \in Subscribers : Subscribe(s) \/ Unsubscribe(s)
  BY <1>1, IInvSubscribe, IInvUnsubscribe
<1>2. CASE \E cat \in Categories : PublishSnapshot(cat)
  BY <1>2, IInvSnapshot
<1>3. CASE PublishCall
  BY <1>3, IInvCall
<1>4. CASE PublishDone
  BY <1>4, IInvDone
<1>5. CASE UNCHANGED busVars
  BY <1>5, IInvStutter
<1> QED  BY <1>1, <1>2, <1>3, <1>4, <1>5 DEF BusNext

(***************************************************************************)
(* Whenever publish is not running, every subscriber has been called back *)
(* for exactly the events it is owed: those of the categories it wants,   *)
(* published after its subscribe returned and before its unsubscribe      *)
(* returned (event_bus.cpp, subscribe / unsubscribe / publish).            *)
(***************************************************************************)
THEOREM DeliveryExactHolds == BusSpec => []DeliveryExact
<1>1. BusInit => IInv
  BY IInvInit
<1>2. IInv /\ [BusNext]_busVars => IInv'
  BY IInvStep
<1>3. IInv => DeliveryExact
  BY DEF IInv, DoneInv, DeliveryExact, Owed
<1> QED  BY <1>1, <1>2, <1>3, PTL DEF BusSpec

=============================================================================
