------------------------- MODULE ControlNodeProofs -------------------------
(***************************************************************************)
(* Proofs, for every set of clients and requests, that stop() leaves no   *)
(* descriptor of the control node open (FdsClosedWhenStopped), and that   *)
(* a client thread's ::close never closes a descriptor another thread     *)
(* holds (NoForeignClose).                                                *)
(*                                                                         *)
(* The invariant speaks only of the state after stop() returned, and it    *)
(* is not inductive: it rests on who owns each open descriptor.  Every     *)
(* open number is the listening socket (until stop() closes it), the fd   *)
(* the accept thread is about to push, or the fd of a client thread that  *)
(* has not yet passed its ::close.  stop() only returns once the accept   *)
(* thread has exited and every thread in client_threads_ has been joined, *)
(* and every client thread that has not finished is in client_threads_.   *)
(***************************************************************************)
EXTENDS ControlNode, FiniteSetTheorems, TLAPS

\* The states of a client thread that still own its descriptor.
Serving == {"loop", "handling", "closing"}

\* Owner states of the owner thread, the accept thread and client threads.
SpcStates == {"init", "idle", "listen", "clients", "joinAccept", "lockJoin",
              "joining", "done"}
AccStates == {"off", "loop", "accept", "push", "exited"}
CpcStates == {"idle", "loop", "handling", "closing", "erase", "done"}

CnTypeOK ==
    /\ spc \in SpcStates
    /\ accPc \in AccStates
    /\ cpc \in [Clients -> CpcStates]
    /\ DOMAIN cfd = Clients
    /\ accPc = "push" => accClient \in Clients

\* f is held by a thread that will close it: the listening socket before
\* stop() closes it, the fd accept_loop has not pushed yet, or a serving
\* client's fd.
Owned(f) ==
    \/ spc \in {"idle", "listen"} /\ f = listenFd
    \/ accPc = "push" /\ f = cfd[accClient]
    \/ \E c \in Clients : cpc[c] \in Serving /\ cfd[c] = f

FdsOwned == \A f \in openFds : Owned(f)

\* A client thread that has not finished is in client_threads_, and stop()
\* clears client_threads_ only after joining them all.
ThreadsJoined ==
    /\ \A c \in Clients : cpc[c] \in Serving \cup {"erase"} => c \in threads
    /\ spc = "done" => threads = {}

\* The accept thread runs only after start(), and once stop() has joined it,
\* it stays exited.
AcceptJoined ==
    /\ spc = "init" => accPc = "off"
    /\ spc \in {"lockJoin", "joining", "done"} => accPc = "exited"

CnInv == CnTypeOK /\ FdsOwned /\ ThreadsJoined /\ AcceptJoined

(***************************************************************************)
(* Why a client's ::close never closes someone else's connection           *)
(* (NoForeignClose).  Every holder of a descriptor (the listening socket   *)
(* while stop() has not closed it, the fd the accept thread is about to    *)
(* push, each serving client thread) holds a different number.  A new     *)
(* number comes only from ::socket or ::accept, which return the lowest   *)
(* number not open, and only while the listening socket is open; until   *)
(* then stop() has shut nothing down, so every holder's number is open.   *)
(***************************************************************************)

\* The owner has not yet closed the listening socket: descriptors may still
\* be handed out.
Opening == spc \in {"init", "idle", "listen"}

\* The clients ::accept has given a descriptor to.
Accepted == {d \in Clients : cfd[d] # NoFd}

Free == FdNumbers \ openFds

FdsExclusive ==
    /\ \A c, d \in Clients :
          c # d /\ cpc[c] \in Serving /\ cpc[d] \in Serving => cfd[c] # cfd[d]
    /\ accPc = "push" =>
          /\ accClient \in Clients /\ cpc[accClient] = "idle"
          /\ \A d \in Clients : cpc[d] \in Serving => cfd[d] # cfd[accClient]
    /\ spc \in {"idle", "listen"} =>
          /\ \A d \in Clients : cpc[d] \in Serving => cfd[d] # listenFd
          /\ accPc = "push" => cfd[accClient] # listenFd

FdsOpen ==
    Opening =>
      /\ shut = {}
      /\ \A d \in Clients : cpc[d] \in Serving => cfd[d] \in openFds
      /\ accPc = "push" => cfd[accClient] \in openFds
      /\ spc \in {"idle", "listen"} => listenFd \in openFds

\* The listening socket is open only between start() and stop()'s close.
ListenPhase == listenFd # NoFd => spc \in {"idle", "listen"}

\* Each open number is the listening socket or an accepted client's.
FdCount ==
    /\ IsFiniteSet(openFds)
    /\ Opening =>
         Cardinality(openFds) <= (IF spc = "init" THEN 0 ELSE 1) + Cardinality(Accepted)

\* For every bound k in K, the members of S at or above k have a least one.
HasMins(S, K) ==
    \A k \in K :
      (\E x \in S : x >= k) =>
        \E m \in S : m >= k /\ \A x \in S : x >= k => m <= x

\* The free numbers have a least one above any bound: what ::accept returns.
MinFree == Opening => HasMins(Free, FdNumbers)

ExclInv == CnInv /\ FdsExclusive /\ FdsOpen /\ ListenPhase /\ FdCount /\ MinFree

(***************************************************************************)
(* Taking the least member out of a set keeps the least members above     *)
(* every bound: above k they are the old ones above max(k, m + 1).         *)
(***************************************************************************)
LEMMA MinsRemoveLeast ==
    ASSUME NEW a \in Nat, NEW b \in Nat, NEW S \in SUBSET (a .. b),
           HasMins(S, a .. b), NEW m \in S, \A x \in S : m <= x
    PROVE  HasMins(S \ {m}, a .. b)
<1> SUFFICES ASSUME NEW k \in a .. b, NEW y \in S \ {m}, y >= k
             PROVE  \E n \in S \ {m} : n >= k /\ \A x \in S \ {m} : x >= k => n <= x
  BY DEF HasMins
<1> DEFINE k2 == IF k > m THEN k ELSE m + 1
<1>1. k2 \in a .. b /\ y >= k2 /\ y \in S
  OBVIOUS
<1>2. PICK n \in S : n >= k2 /\ \A x \in S : x >= k2 => n <= x
  BY <1>1 DEF HasMins
<1>3. n # m /\ n >= k
  BY <1>2
<1>4. \A x \in S \ {m} : x >= k => x >= k2
  OBVIOUS
<1> QED  BY <1>2, <1>3, <1>4

(***************************************************************************)
(* Adding one number of the range keeps the least members above every     *)
(* bound: the new least is the old one or the number added.               *)
(***************************************************************************)
LEMMA MinsAddOne ==
    ASSUME NEW a \in Nat, NEW b \in Nat, NEW S \in SUBSET (a .. b),
           HasMins(S, a .. b), NEW r, NEW T, T = S \cup ({r} \cap (a .. b))
    PROVE  HasMins(T, a .. b)
<1> SUFFICES ASSUME NEW k \in a .. b, NEW y \in T, y >= k
             PROVE  \E n \in T : n >= k /\ \A x \in T : x >= k => n <= x
  BY DEF HasMins
<1>1. CASE \E x \in S : x >= k
  <2>1. PICK n \in S : n >= k /\ \A x \in S : x >= k => n <= x
    BY <1>1 DEF HasMins
  <2>2. CASE r \in a .. b /\ r >= k /\ r < n
    BY <2>1, <2>2
  <2>3. CASE ~(r \in a .. b /\ r >= k /\ r < n)
    BY <2>1, <2>3
  <2> QED  BY <2>2, <2>3
<1>2. CASE ~\E x \in S : x >= k
  <2>1. y = r /\ r \in a .. b
    BY <1>2
  <2> QED  BY <1>2, <2>1
<1> QED  BY <1>1, <1>2

(***************************************************************************)
(* While a descriptor can be handed out, some number is free: there are    *)
(* |Clients| + 1 numbers, and the open ones are the listening socket and  *)
(* one per accepted client, so the count is short by one before start()  *)
(* or while a client has not been accepted.                              *)
(***************************************************************************)
LEMMA FreeExists ==
    ASSUME ExclInv, Opening, spc = "init" \/ \E c \in Clients : cfd[c] = NoFd
    PROVE  Free # {}
<1> DEFINE N == Cardinality(Clients)
<1>1. /\ N \in Nat
      /\ IsFiniteSet(FdNumbers) /\ Cardinality(FdNumbers) = N + 1
  <2>1. N \in Nat
    BY ControlAssumption, FS_CardinalityType
  <2> QED  BY <2>1, FS_Interval DEF FdNumbers
<1>2. /\ IsFiniteSet(openFds)
      /\ Cardinality(openFds) <= (IF spc = "init" THEN 0 ELSE 1) + Cardinality(Accepted)
  BY DEF ExclInv, FdCount
<1>3. Cardinality(openFds) <= N
  <2>0. /\ IsFiniteSet(Accepted) /\ Cardinality(Accepted) \in Nat
        /\ Cardinality(openFds) \in Nat
    <3>1. IsFiniteSet(Accepted)
      BY ControlAssumption, FS_Subset DEF Accepted
    <3> QED  BY <1>2, <3>1, FS_CardinalityType
  <2>1. CASE spc = "init"
    <3>1. Cardinality(Accepted) <= N
      BY ControlAssumption, FS_Subset DEF Accepted
    <3> QED  BY <1>1, <1>2, <2>0, <2>1, <3>1
  <2>2. CASE spc # "init"
    <3>1. PICK c \in Clients : cfd[c] = NoFd
      BY <2>2, Zenon
    <3>2. IsFiniteSet(Clients \ {c}) /\ Cardinality(Clients \ {c}) = N - 1
      BY <3>1, ControlAssumption, FS_RemoveElement
    <3>3. Accepted \in SUBSET (Clients \ {c})
      BY <3>1 DEF Accepted
    <3>4. Cardinality(Accepted) <= N - 1
      BY <3>2, <3>3, FS_Subset
    <3> QED  BY <1>1, <1>2, <2>0, <2>2, <3>4
  <2> QED  BY <2>1, <2>2
<1>4. ~(FdNumbers \subseteq openFds)
  <2> SUFFICES ASSUME FdNumbers \subseteq openFds PROVE FALSE
    OBVIOUS
  <2>1. Cardinality(FdNumbers) <= Cardinality(openFds)
    BY <1>2, FS_Subset
  <2> QED  BY <1>1, <1>2, <1>3, <2>1, FS_CardinalityType
<1> QED  BY <1>4 DEF Free

(***************************************************************************)
(* When some number is free, ::socket and ::accept return the least one.  *)
(***************************************************************************)
LEMMA LowestFreeLeast ==
    ASSUME MinFree, Opening, Free # {}
    PROVE  LowestFree \in Free /\ \A x \in Free : LowestFree <= x
<1>1. Cardinality(Clients) \in Nat
  BY ControlAssumption, FS_CardinalityType
<1>2. 3 \in FdNumbers /\ \A x \in Free : x >= 3
  BY <1>1 DEF FdNumbers, Free
<1>3. \E m \in Free : \A x \in Free : m <= x
  BY <1>2 DEF MinFree, HasMins
<1> QED  BY <1>3 DEF LowestFree, Free

LEMMA CnInvInit == CnInit => CnInv
BY DEF CnInit, CnInv, CnTypeOK, SpcStates, AccStates, CpcStates, FdsOwned,
       ThreadsJoined, AcceptJoined, Serving

(***************************************************************************)
(* The owner thread's steps.  start() opens the listening socket, which    *)
(* the owner holds while spc is idle or listen; stop() closes it before    *)
(* leaving those states, only closes client descriptors, and clears       *)
(* client_threads_ only when every thread in it is done.                   *)
(***************************************************************************)
LEMMA CnInvOwner ==
    ASSUME CnInv, Start \/ StopCall \/ OwnerStep
    PROVE  CnInv'
<1> USE DEF CnInv, CnTypeOK, SpcStates, AccStates
<1>1. CASE Start
  BY <1>1 DEF Start, FdsOwned, Owned, ThreadsJoined, AcceptJoined
<1>2. CASE StopCall
  BY <1>2 DEF StopCall, FdsOwned, Owned, ThreadsJoined, AcceptJoined
<1>3. CASE StopCloseListen
  BY <1>3 DEF StopCloseListen, FdsOwned, Owned, ThreadsJoined, AcceptJoined
<1>4. CASE StopCloseClients
  BY <1>4 DEF StopCloseClients, FdsOwned, Owned, ThreadsJoined, AcceptJoined
<1>5. CASE StopJoinAccept
  BY <1>5 DEF StopJoinAccept, FdsOwned, Owned, ThreadsJoined, AcceptJoined
<1>6. CASE StopLockJoin
  BY <1>6 DEF StopLockJoin, FdsOwned, Owned, ThreadsJoined, AcceptJoined
<1>7. CASE StopJoined
  BY <1>7 DEF StopJoined, FdsOwned, Owned, ThreadsJoined, AcceptJoined, Serving
<1> QED  BY <1>1, <1>2, <1>3, <1>4, <1>5, <1>6, <1>7 DEF OwnerStep

(***************************************************************************)
(* The accept thread's steps.  ::accept opens the fd it is about to push;  *)
(* a failed ::accept opens nothing;                                        *)
(* the push hands it to a client thread in client_threads_.                *)
(***************************************************************************)
LEMMA CnInvAccept ==
    ASSUME CnInv, \/ AcceptPoll \/ \E c \in Clients : AcceptConn(c)
                  \/ AcceptFail \/ AcceptPush \/ AcceptExit
    PROVE  CnInv'
<1> USE DEF CnInv, CnTypeOK, SpcStates, AccStates, CpcStates
<1>1. CASE AcceptPoll
  BY <1>1 DEF AcceptPoll, FdsOwned, Owned, ThreadsJoined, AcceptJoined
<1>2. CASE \E c \in Clients : AcceptConn(c)
  BY <1>2 DEF AcceptConn, FdsOwned, Owned, ThreadsJoined, AcceptJoined, Serving
<1>3. CASE AcceptFail
  BY <1>3 DEF AcceptFail, FdsOwned, Owned, ThreadsJoined, AcceptJoined
<1>4. CASE AcceptPush
  BY <1>4 DEF AcceptPush, FdsOwned, Owned, ThreadsJoined, AcceptJoined, Serving
<1>5. CASE AcceptExit
  BY <1>5 DEF AcceptExit, FdsOwned, Owned, ThreadsJoined, AcceptJoined
<1> QED  BY <1>1, <1>2, <1>3, <1>4, <1>5

(***************************************************************************)
(* A client thread's steps.  It owns its fd until its ::close, and stays  *)
(* in client_threads_ until it is done.                                    *)
(***************************************************************************)
LEMMA CnInvClient ==
    ASSUME CnInv, NEW c \in Clients, ClientStep(c) \/ PeerHangup(c)
    PROVE  CnInv'
<1> USE DEF CnInv, CnTypeOK, SpcStates, AccStates, CpcStates
<1>1. CASE \E r \in Requests : ClientRecv(c, r)
  BY <1>1 DEF ClientRecv, FdsOwned, Owned, ThreadsJoined, AcceptJoined, Serving
<1>2. CASE ClientReply(c)
  BY <1>2 DEF ClientReply, FdsOwned, Owned, ThreadsJoined, AcceptJoined, Serving
<1>3. CASE ClientSeesStop(c)
  BY <1>3 DEF ClientSeesStop, FdsOwned, Owned, ThreadsJoined, AcceptJoined, Serving
<1>4. CASE PeerHangup(c)
  BY <1>4 DEF PeerHangup, FdsOwned, Owned, ThreadsJoined, AcceptJoined, Serving
<1>5. CASE ClientClose(c)
  BY <1>5 DEF ClientClose, FdsOwned, Owned, ThreadsJoined, AcceptJoined, Serving
<1>6. CASE ClientErase(c)
  BY <1>6 DEF ClientErase, FdsOwned, Owned, ThreadsJoined, AcceptJoined, Serving
<1> QED  BY <1>1, <1>2, <1>3, <1>4, <1>5, <1>6 DEF ClientStep

LEMMA CnInvStep == CnInv /\ [CnNext]_<<cnVars, statsVars>> => CnInv'
<1> SUFFICES ASSUME CnInv, [CnNext]_<<cnVars, statsVars>> PROVE CnInv'
  OBVIOUS
<1>1. CASE UNCHANGED <<cnVars, statsVars>>
  BY <1>1 DEF cnVars, CnInv, CnTypeOK, FdsOwned, Owned, ThreadsJoined, AcceptJoined
<1> QED  BY <1>1, CnInvOwner, CnInvAccept, CnInvClient DEF CnNext

(***************************************************************************)
(* The exclusive-ownership part of ExclInv.                                *)
(***************************************************************************)
Excl == FdsExclusive /\ FdsOpen /\ ListenPhase /\ FdCount /\ MinFree

LEMMA FdNumbersRange ==
    /\ Cardinality(Clients) \in Nat
    /\ FdNumbers = 3 .. (3 + Cardinality(Clients))
    /\ FdNumbers \subseteq Nat
<1>1. Cardinality(Clients) \in Nat
  BY ControlAssumption, FS_CardinalityType
<1> QED  BY <1>1 DEF FdNumbers

(***************************************************************************)
(* start() and ::accept take the least free number: it is held by nobody,  *)
(* the count of open numbers grows by one with the listening socket or    *)
(* the accepted client, and the least free numbers above each bound      *)
(* survive its removal.                                                   *)
(***************************************************************************)
LEMMA TakeLeast ==
    ASSUME ExclInv, Opening, Free # {}
    PROVE  /\ LowestFree \in Free /\ LowestFree # NoFd
           /\ IsFiniteSet(openFds \cup {LowestFree})
           /\ Cardinality(openFds \cup {LowestFree}) = Cardinality(openFds) + 1
           /\ HasMins(Free \ {LowestFree}, FdNumbers)
           /\ FdNumbers \ (openFds \cup {LowestFree}) = Free \ {LowestFree}
<1>1. LowestFree \in Free /\ \A x \in Free : LowestFree <= x
  BY LowestFreeLeast DEF ExclInv
<1>2. LowestFree # NoFd
  BY <1>1, ControlAssumption DEF Free
<1>3. IsFiniteSet(openFds) /\ LowestFree \notin openFds
  BY <1>1 DEF ExclInv, FdCount, Free
<1>4. /\ IsFiniteSet(openFds \cup {LowestFree})
      /\ Cardinality(openFds \cup {LowestFree}) = Cardinality(openFds) + 1
  BY <1>3, FS_AddElement
<1>5. HasMins(Free \ {LowestFree}, FdNumbers)
  <2>1. HasMins(Free, FdNumbers)
    BY DEF ExclInv, MinFree
  <2>2. /\ Cardinality(Clients) \in Nat
        /\ Free \in SUBSET (3 .. (3 + Cardinality(Clients)))
        /\ HasMins(Free, 3 .. (3 + Cardinality(Clients)))
    BY <2>1, FdNumbersRange DEF Free
  <2>3. HasMins(Free \ {LowestFree}, 3 .. (3 + Cardinality(Clients)))
    BY <1>1, <2>2, MinsRemoveLeast
  <2> QED  BY <2>3, FdNumbersRange
<1> QED  BY <1>1, <1>2, <1>4, <1>5 DEF Free

LEMMA ExclStart ==
    ASSUME ExclInv, Start
    PROVE  Excl'
<1>1. /\ Opening /\ spc = "init" /\ accPc = "off"
      /\ listenFd' = LowestFree /\ openFds' = openFds \cup {LowestFree}
      /\ spc' = "idle" /\ accPc' = "loop"
      /\ UNCHANGED <<shut, cpc, cfd, accClient>>
  BY DEF Start, Opening, ExclInv, CnInv, AcceptJoined
<1>2. Free # {}
  BY <1>1, FreeExists
<1>3. /\ LowestFree \in Free
      /\ IsFiniteSet(openFds \cup {LowestFree})
      /\ Cardinality(openFds \cup {LowestFree}) = Cardinality(openFds) + 1
      /\ HasMins(Free \ {LowestFree}, FdNumbers)
      /\ FdNumbers \ (openFds \cup {LowestFree}) = Free \ {LowestFree}
  BY <1>1, <1>2, TakeLeast
<1>4. FdsExclusive'
  BY <1>1, <1>3 DEF ExclInv, FdsExclusive, FdsOpen, Opening, Free
<1>5. FdsOpen'
  BY <1>1 DEF ExclInv, FdsOpen, Opening
<1>6. ListenPhase'
  BY <1>1 DEF ListenPhase
<1>7. FdCount'
  <2>1. Accepted' = Accepted
    BY <1>1 DEF Accepted
  <2>2. /\ Cardinality(openFds) <= Cardinality(Accepted)
        /\ Cardinality(openFds) \in Nat /\ Cardinality(Accepted) \in Nat
    <3>1. IsFiniteSet(openFds) /\ IsFiniteSet(Accepted)
      BY ControlAssumption, FS_Subset DEF ExclInv, FdCount, Accepted
    <3> QED  BY <1>1, <3>1, FS_CardinalityType DEF ExclInv, FdCount, Opening
  <2> QED  BY <1>1, <1>3, <2>1, <2>2 DEF FdCount, Opening
<1>8. MinFree'
  BY <1>1, <1>3 DEF MinFree, Opening, Free
<1> QED  BY <1>4, <1>5, <1>6, <1>7, <1>8 DEF Excl

(***************************************************************************)
(* ::accept hands the least free number to the client it accepts: no      *)
(* holder has it, since every holder's number is open while the listening *)
(* socket is.                                                             *)
(***************************************************************************)
LEMMA ExclAcceptConn ==
    ASSUME ExclInv, NEW c \in Clients, AcceptConn(c)
    PROVE  Excl'
<1>1. /\ Opening /\ spc \in {"idle", "listen"}
      /\ cpc[c] = "idle" /\ cfd[c] = NoFd /\ accPc = "accept"
      /\ openFds' = openFds \cup {LowestFree}
      /\ cfd' = [cfd EXCEPT ![c] = LowestFree]
      /\ accClient' = c /\ accPc' = "push"
      /\ UNCHANGED <<spc, listenFd, shut, cpc>>
  BY DEF AcceptConn, ExclInv, ListenPhase, Opening
<1>2. Free # {}
  BY <1>1, FreeExists
<1>3. /\ LowestFree \in Free /\ LowestFree # NoFd
      /\ IsFiniteSet(openFds \cup {LowestFree})
      /\ Cardinality(openFds \cup {LowestFree}) = Cardinality(openFds) + 1
      /\ HasMins(Free \ {LowestFree}, FdNumbers)
      /\ FdNumbers \ (openFds \cup {LowestFree}) = Free \ {LowestFree}
  BY <1>1, <1>2, TakeLeast
<1>4. /\ cpc \in [Clients -> CpcStates] /\ DOMAIN cfd = Clients
      /\ \A d \in Clients : cfd'[d] = IF d = c THEN LowestFree ELSE cfd[d]
  BY <1>1 DEF ExclInv, CnInv, CnTypeOK
<1>5. /\ \A d \in Clients : cpc[d] \in Serving => cfd[d] \in openFds
      /\ listenFd \in openFds
  BY <1>1 DEF ExclInv, FdsOpen
<1>6. FdsExclusive'
  BY <1>1, <1>3, <1>4, <1>5 DEF ExclInv, FdsExclusive, Serving, Free
<1>7. FdsOpen'
  BY <1>1, <1>4, <1>5 DEF ExclInv, FdsOpen, Opening, Serving
<1>8. ListenPhase'
  BY <1>1 DEF ExclInv, ListenPhase
<1>9. FdCount'
  <2>1. Accepted' = Accepted \cup {c} /\ c \notin Accepted
    BY <1>1, <1>3, <1>4 DEF Accepted
  <2>2. IsFiniteSet(Accepted) /\ IsFiniteSet(openFds)
    BY ControlAssumption, FS_Subset DEF ExclInv, FdCount, Accepted
  <2>3. Cardinality(Accepted \cup {c}) = Cardinality(Accepted) + 1
    BY <2>1, <2>2, FS_AddElement
  <2>4. /\ Cardinality(openFds) <= 1 + Cardinality(Accepted)
        /\ Cardinality(openFds) \in Nat /\ Cardinality(Accepted) \in Nat
    BY <1>1, <2>2, FS_CardinalityType DEF ExclInv, FdCount, Opening
  <2> QED  BY <1>1, <1>3, <2>1, <2>3, <2>4 DEF FdCount, Opening
<1>10. MinFree'
  BY <1>1, <1>3 DEF MinFree, Opening, Free
<1> QED  BY <1>6, <1>7, <1>8, <1>9, <1>10 DEF Excl

(***************************************************************************)
(* The push makes the accepted client a serving thread with the number    *)
(* the accept thread held, which no other holder has.                     *)
(***************************************************************************)
LEMMA ExclAcceptPush ==
    ASSUME ExclInv, AcceptPush
    PROVE  Excl'
<1>1. /\ accPc = "push" /\ accPc' = "loop"
      /\ accClient \in Clients /\ cpc[accClient] = "idle"
      /\ cpc' = [cpc EXCEPT ![accClient] = "loop"]
      /\ UNCHANGED <<spc, listenFd, openFds, shut, cfd, accClient>>
  BY DEF AcceptPush, ExclInv, FdsExclusive
<1>2. /\ cpc \in [Clients -> CpcStates]
      /\ \A d \in Clients : cpc'[d] = IF d = accClient THEN "loop" ELSE cpc[d]
  BY <1>1 DEF ExclInv, CnInv, CnTypeOK
<1>3. FdsExclusive'
  BY <1>1, <1>2 DEF ExclInv, FdsExclusive, Serving
<1>4. FdsOpen'
  BY <1>1, <1>2 DEF ExclInv, FdsOpen, Opening, Serving
<1>5. ListenPhase' /\ FdCount' /\ MinFree'
  BY <1>1 DEF ExclInv, ListenPhase, FdCount, MinFree, Opening, Accepted, Free
<1> QED  BY <1>3, <1>4, <1>5 DEF Excl

(***************************************************************************)
(* A client's ::close frees its own number only: every other holder's     *)
(* number stays open, and the freed number joins the free ones.          *)
(***************************************************************************)
LEMMA ExclClientClose ==
    ASSUME ExclInv, NEW c \in Clients, ClientClose(c)
    PROVE  Excl'
<1>1. /\ cpc[c] = "closing"
      /\ openFds' = openFds \ {cfd[c]}
      /\ cpc' = [cpc EXCEPT ![c] = "erase"]
      /\ UNCHANGED <<spc, listenFd, shut, accPc, accClient, cfd>>
  BY DEF ClientClose
<1>2. /\ cpc \in [Clients -> CpcStates]
      /\ \A d \in Clients : cpc'[d] = IF d = c THEN "erase" ELSE cpc[d]
  BY <1>1 DEF ExclInv, CnInv, CnTypeOK
<1>3. FdsExclusive'
  BY <1>1, <1>2 DEF ExclInv, FdsExclusive, Serving
<1>4. FdsOpen'
  BY <1>1, <1>2 DEF ExclInv, FdsExclusive, FdsOpen, Opening, Serving
<1>5. ListenPhase'
  BY <1>1 DEF ExclInv, ListenPhase
<1>6. FdCount'
  <2>1. IsFiniteSet(openFds)
    BY DEF ExclInv, FdCount
  <2>2. /\ IsFiniteSet(openFds \ {cfd[c]})
        /\ Cardinality(openFds \ {cfd[c]}) <= Cardinality(openFds)
    BY <2>1, FS_Subset
  <2>3. Accepted' = Accepted
    BY <1>1 DEF Accepted
  <2>4. /\ Cardinality(openFds) \in Nat /\ Cardinality(openFds \ {cfd[c]}) \in Nat
        /\ Cardinality(Accepted) \in Nat
    <3>1. IsFiniteSet(Accepted)
      BY ControlAssumption, FS_Subset DEF Accepted
    <3> QED  BY <2>1, <2>2, <3>1, FS_CardinalityType
  <2> QED  BY <1>1, <2>2, <2>3, <2>4 DEF ExclInv, FdCount, Opening
<1>7. MinFree'
  <2> SUFFICES ASSUME Opening PROVE HasMins(Free', FdNumbers)
    BY <1>1 DEF MinFree, Opening
  <2>1. Free' = Free \cup ({cfd[c]} \cap (3 .. (3 + Cardinality(Clients))))
    BY <1>1, FdNumbersRange DEF Free
  <2>2. /\ 3 \in Nat /\ 3 + Cardinality(Clients) \in Nat
        /\ Free \in SUBSET (3 .. (3 + Cardinality(Clients)))
        /\ HasMins(Free, 3 .. (3 + Cardinality(Clients)))
    BY FdNumbersRange DEF ExclInv, MinFree, Free
  <2>3. HasMins(Free', 3 .. (3 + Cardinality(Clients)))
    BY <2>1, <2>2, MinsAddOne, Zenon
  <2> QED  BY <2>3, FdNumbersRange
<1> QED  BY <1>3, <1>4, <1>5, <1>6, <1>7 DEF Excl

(***************************************************************************)
(* A step that hands out, closes and reassigns no descriptor and moves no  *)
(* thread into or out of holding one keeps Excl.                           *)
(***************************************************************************)
LEMMA ExclFrame ==
    ASSUME ExclInv,
           UNCHANGED <<listenFd, openFds, shut, accClient, cfd>>,
           accPc' = "push" <=> accPc = "push",
           \A d \in Clients : cpc'[d] \in Serving <=> cpc[d] \in Serving,
           accPc = "push" => cpc'[accClient] = cpc[accClient],
           spc' \in {"idle", "listen"} <=> spc \in {"idle", "listen"},
           Opening' <=> Opening,
           spc' = "init" <=> spc = "init"
    PROVE  Excl'
<1>1. FdsExclusive'
  BY DEF ExclInv, FdsExclusive
<1>2. FdsOpen'
  BY DEF ExclInv, FdsOpen
<1>3. ListenPhase'
  BY DEF ExclInv, ListenPhase
<1>4. FdCount' /\ MinFree'
  BY DEF ExclInv, FdCount, MinFree, Accepted, Free
<1> QED  BY <1>1, <1>2, <1>3, <1>4 DEF Excl

LEMMA ExclOwner ==
    ASSUME ExclInv, Start \/ StopCall \/ OwnerStep
    PROVE  Excl'
<1>1. CASE Start
  BY <1>1, ExclStart
<1>2. CASE StopCall \/ StopJoinAccept \/ StopLockJoin \/ StopJoined
  BY <1>2, ExclFrame
     DEF StopCall, StopJoinAccept, StopLockJoin, StopJoined, Opening
<1>3. CASE StopCloseListen \/ StopCloseClients
  <2>1. /\ spc \in {"listen", "clients"} /\ spc' \in {"clients", "joinAccept"}
        /\ openFds' \subseteq openFds
        /\ UNCHANGED <<cpc, cfd, accPc, accClient>>
        /\ listenFd' = NoFd \/ UNCHANGED listenFd
    BY <1>3 DEF StopCloseListen, StopCloseClients
  <2>2. FdCount'
    <3>1. IsFiniteSet(openFds') /\ ~Opening'
      BY <2>1, FS_Subset DEF ExclInv, FdCount, Opening
    <3> QED  BY <3>1 DEF FdCount
  <2>3. FdsExclusive' /\ FdsOpen' /\ MinFree'
    BY <2>1 DEF ExclInv, FdsExclusive, FdsOpen, MinFree, Opening
  <2>4. ListenPhase'
    BY <1>3 DEF ExclInv, ListenPhase, StopCloseListen, StopCloseClients
  <2> QED  BY <2>2, <2>3, <2>4 DEF Excl
<1> QED  BY <1>1, <1>2, <1>3 DEF OwnerStep

LEMMA ExclAccept ==
    ASSUME ExclInv, \/ AcceptPoll \/ \E c \in Clients : AcceptConn(c)
                    \/ AcceptFail \/ AcceptPush \/ AcceptExit
    PROVE  Excl'
<1>1. CASE \E c \in Clients : AcceptConn(c)
  BY <1>1, ExclAcceptConn
<1>2. CASE AcceptPush
  BY <1>2, ExclAcceptPush
<1>3. CASE AcceptPoll
  BY <1>3, ExclFrame DEF AcceptPoll, Opening
<1>4. CASE AcceptFail
  BY <1>4, ExclFrame DEF AcceptFail, Opening
<1>5. CASE AcceptExit
  BY <1>5, ExclFrame DEF AcceptExit, Opening
<1> QED  BY <1>1, <1>2, <1>3, <1>4, <1>5

LEMMA ExclClient ==
    ASSUME ExclInv, NEW c \in Clients, ClientStep(c) \/ PeerHangup(c)
    PROVE  Excl'
<1>1. CASE ClientClose(c)
  BY <1>1, ExclClientClose
<1>2. CASE \/ \E r \in Requests : ClientRecv(c, r)
           \/ ClientReply(c) \/ ClientSeesStop(c) \/ PeerHangup(c) \/ ClientErase(c)
  <2>1. /\ cpc \in [Clients -> CpcStates]
        /\ accPc = "push" => cpc[accClient] = "idle"
    BY DEF ExclInv, CnInv, CnTypeOK, FdsExclusive
  <2>2. PICK v \in CpcStates \ {"idle"} :
           /\ cpc[c] # "idle" /\ cpc' = [cpc EXCEPT ![c] = v]
           /\ (v \in Serving <=> cpc[c] \in Serving)
           /\ UNCHANGED <<spc, listenFd, openFds, shut, accPc, accClient, cfd>>
    BY <1>2 DEF ClientRecv, ClientReply, ClientSeesStop, PeerHangup, ClientErase,
                CpcStates, Serving
  <2>3. \A d \in Clients : cpc'[d] = IF d = c THEN v ELSE cpc[d]
    BY <2>1, <2>2
  <2> QED  BY <2>1, <2>2, <2>3, ExclFrame DEF Opening
<1> QED  BY <1>1, <1>2 DEF ClientStep

LEMMA ExclInvStep == ExclInv /\ [CnNext]_<<cnVars, statsVars>> => ExclInv'
<1> SUFFICES ASSUME ExclInv, [CnNext]_<<cnVars, statsVars>> PROVE ExclInv'
  OBVIOUS
<1>1. CnInv'
  BY CnInvStep DEF ExclInv
<1>2. Excl'
  <2>1. CASE UNCHANGED <<cnVars, statsVars>>
    BY <2>1, ExclFrame DEF cnVars, Opening
  <2>2. CASE CnNext
    BY <2>2, ExclOwner, ExclAccept, ExclClient DEF CnNext
  <2> QED  BY <2>1, <2>2
<1> QED  BY <1>1, <1>2 DEF ExclInv, Excl

LEMMA ExclInvInit == CnInit => ExclInv
<1> SUFFICES ASSUME CnInit PROVE ExclInv
  OBVIOUS
<1>1. Accepted = {} /\ openFds = {} /\ IsFiniteSet(openFds)
  BY FS_EmptySet DEF CnInit, Accepted
<1>2. Free = FdNumbers /\ FdNumbers = 3 .. (3 + Cardinality(Clients))
      /\ Cardinality(Clients) \in Nat
  BY <1>1, FdNumbersRange DEF Free
<1>3. HasMins(Free, FdNumbers)
  BY <1>2 DEF HasMins
<1> QED  BY <1>1, <1>2, <1>3, CnInvInit, FS_EmptySet
        DEF CnInit, ExclInv, FdsExclusive, FdsOpen, ListenPhase, FdCount, MinFree,
            Opening, Serving

(***************************************************************************)
(* A client thread's ::close (control_node.cpp line 160) never closes a   *)
(* descriptor that another thread holds: not the listening socket, not    *)
(* the fd the accept thread is about to push, not another serving         *)
(* client's fd, in every interleaving of start(), stop(), the accept      *)
(* thread and the client threads.                                         *)
(***************************************************************************)
THEOREM NoForeignCloseHolds == CnSpec => NoForeignClose
<1>1. ExclInv /\ [CnNext]_<<cnVars, statsVars>>
        => [\A c \in Clients :
              ClientClose(c) =>
                /\ spc \in {"idle", "listen"} => cfd[c] # listenFd
                /\ accPc = "push" => cfd[c] # cfd[accClient]
                /\ \A d \in Clients \ {c} :
                      cpc[d] \in {"loop", "handling", "closing"} => cfd[d] # cfd[c]
           ]_<<cnVars, statsVars>>
  BY DEF ExclInv, FdsExclusive, ClientClose, Serving
<1> QED  BY <1>1, ExclInvInit, ExclInvStep, PTL DEF CnSpec, NoForeignClose

(***************************************************************************)
(* When stop() has returned, no descriptor of the control node is open:    *)
(* the listening socket is closed, the accept thread has exited and every *)
(* client thread has closed its fd or had it closed by stop().            *)
(***************************************************************************)
THEOREM FdsClosedWhenStoppedHolds == CnSpec => []FdsClosedWhenStopped
<1>1. CnInv => FdsClosedWhenStopped
  BY DEF CnInv, FdsOwned, Owned, ThreadsJoined, AcceptJoined, Serving,
         FdsClosedWhenStopped
<1> QED  BY <1>1, CnInvInit, CnInvStep, PTL DEF CnSpec

=============================================================================
