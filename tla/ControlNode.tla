---------------------------- MODULE ControlNode ----------------------------
(***************************************************************************)
(* The TCP control node (src/control_node/control_node.cpp): start, stop,  *)
(* the accept thread and one thread per client, all sharing one            *)
(* CommandHandler and the list client_fds_ under clients_mutex_.           *)
(*                                                                         *)
(* Threads.  The owner thread calls start() and later stop() (directly or  *)
(* from ~ControlNode); its program counter is spc.  The accept thread's is *)
(* accPc, and each client slot c of Clients (a peer that connects once)    *)
(* has a thread whose counter is cpc[c].  Each action is one step between  *)
(* two points where another thread can interleave: a lock_guard block is   *)
(* one step, guarded by the mutex being free.  The only thread that holds  *)
(* clients_mutex_ across other threads' steps is stop() while it joins the *)
(* client threads (lines 81-88): StopHoldsLock.                            *)
(*                                                                         *)
(* File descriptors.  The kernel hands out the lowest free number          *)
(* (POSIX), and ::close frees a number at once, so a number a client       *)
(* thread has closed can be handed to the next accepted client before the  *)
(* first thread erases it from client_fds_.                                *)
(*                                                                         *)
(* Requests.  A client's framed requests are taken whole (TcpFramer        *)
(* refines MessageStream, so client_loop pops exactly the requests the     *)
(* peer sent, in order); one recv yields one request.  handle() runs       *)
(* unsynchronised in the client thread: ClientRecv enters it, ClientReply  *)
(* leaves it, applying Handle.  The reply's text is not kept.              *)
(***************************************************************************)
EXTENDS CommandHandler, Sequences, FiniteSets

CONSTANTS
    Clients,     \* the peers that connect, each at most once
    Requests,    \* the requests a peer may send
    MaxReqs,     \* bound on the requests one peer sends
    NoFd         \* listen_fd_ = -1: no descriptor

FdNumbers == 3 .. (3 + Cardinality(Clients))

ASSUME ControlAssumption ==
    /\ IsFiniteSet(Clients)
    /\ Requests \subseteq Request
    /\ MaxReqs \in Nat
    /\ NoFd \notin FdNumbers

VARIABLES
    spc,         \* the owner thread: where it is in start() / stop()
    cnRunning,   \* running_
    cnStop,      \* should_stop_
    listenFd,    \* listen_fd_
    openFds,     \* the descriptor numbers open in the process
    shut,        \* numbers ::shutdown by stop(): poll reports POLLHUP
    clientFds,   \* client_fds_ (std::vector<int>)
    threads,     \* the clients with an entry in client_threads_
    accPc,       \* the accept thread
    accClient,   \* the client accept_loop is between ::accept and push_back
    cpc,         \* the client threads
    cfd,         \* each client thread's client_fd
    creq,        \* the request a client thread is handling
    nReqs,       \* requests each peer has sent
    handler      \* handler_: config_, crc_enabled_, logger level

cnVars == <<spc, cnRunning, cnStop, listenFd, openFds, shut, clientFds,
            threads, accPc, accClient, cpc, cfd, creq, nReqs, handler>>

\* The number ::socket / ::accept return: the lowest one not open.
LowestFree == CHOOSE f \in FdNumbers \ openFds :
                  \A g \in FdNumbers \ openFds : f <= g

StopHoldsLock == spc = "joining"

Entries(s) == {s[i] : i \in DOMAIN s}

CnInit ==
    /\ StatsInit
    /\ spc = "init"
    /\ cnRunning = FALSE
    /\ cnStop = FALSE
    /\ listenFd = NoFd
    /\ openFds = {}
    /\ shut = {}
    /\ clientFds = <<>>
    /\ threads = {}
    /\ accPc = "off"
    /\ accClient = CHOOSE c \in Clients : TRUE
    /\ cpc = [c \in Clients |-> "idle"]
    /\ cfd = [c \in Clients |-> NoFd]
    /\ creq = [c \in Clients |-> CHOOSE r \in Requests : TRUE]
    /\ nReqs = [c \in Clients |-> 0]
    /\ handler = HandlerInit

(***************************************************************************)
(* start(): socket, bind and listen succeed; should_stop_ = false,         *)
(* running_ = true, and the accept thread is spawned.                      *)
(***************************************************************************)
Start ==
    /\ spc = "init"
    /\ listenFd' = LowestFree
    /\ openFds' = openFds \cup {LowestFree}
    /\ cnStop' = FALSE
    /\ cnRunning' = TRUE
    /\ accPc' = "loop"
    /\ spc' = "idle"
    /\ UNCHANGED <<statsVars, shut, clientFds, threads, accClient, cpc, cfd, creq,
                   nReqs, handler>>

\* Mutant: stop() closes the client sockets right after setting should_stop_,
\* before the listening socket.
StopCallClosesClientsFirst ==
    /\ spc = "idle"
    /\ cnRunning
    /\ cnStop' = TRUE
    /\ shut' = shut \cup Entries(clientFds)
    /\ openFds' = openFds \ Entries(clientFds)
    /\ clientFds' = <<>>
    /\ spc' = "listen"
    /\ UNCHANGED <<statsVars, cnRunning, listenFd, threads, accPc, accClient, cpc, cfd,
                   creq, nReqs, handler>>

\* stop(), lines 55-58: running_ is set, so should_stop_ = true.
StopCall ==
    /\ spc = "idle"
    /\ cnRunning
    /\ cnStop' = TRUE
    /\ spc' = "listen"
    /\ UNCHANGED <<statsVars, cnRunning, listenFd, openFds, shut, clientFds, threads,
                   accPc, accClient, cpc, cfd, creq, nReqs, handler>>

\* Mutant: the listening socket shut down but never closed.
StopCloseListenLeak ==
    /\ spc = "listen"
    /\ listenFd' = NoFd
    /\ spc' = "clients"
    /\ UNCHANGED <<statsVars, cnRunning, cnStop, openFds, shut, clientFds, threads, accPc,
                   accClient, cpc, cfd, creq, nReqs, handler>>

\* Lines 61-65: shutdown and close the listening socket.
StopCloseListen ==
    /\ spc = "listen"
    /\ openFds' = openFds \ {listenFd}
    /\ listenFd' = NoFd
    /\ spc' = "clients"
    /\ UNCHANGED <<statsVars, cnRunning, cnStop, shut, clientFds, threads, accPc,
                   accClient, cpc, cfd, creq, nReqs, handler>>

\* Lines 68-75: under the mutex, shutdown and close every fd in client_fds_.
StopCloseClients ==
    /\ spc = "clients"
    /\ shut' = shut \cup Entries(clientFds)
    /\ openFds' = openFds \ Entries(clientFds)
    /\ clientFds' = <<>>
    /\ spc' = "joinAccept"
    /\ UNCHANGED <<statsVars, cnRunning, cnStop, listenFd, threads, accPc, accClient,
                   cpc, cfd, creq, nReqs, handler>>

\* Lines 77-78: accept_thread_.join().
StopJoinAccept ==
    /\ spc = "joinAccept"
    /\ accPc = "exited"
    /\ spc' = "lockJoin"
    /\ UNCHANGED <<statsVars, cnRunning, cnStop, listenFd, openFds, shut, clientFds,
                   threads, accPc, accClient, cpc, cfd, creq, nReqs, handler>>

\* Line 82: lock clients_mutex_ and keep it while joining.
StopLockJoin ==
    /\ spc = "lockJoin"
    /\ spc' = "joining"
    /\ UNCHANGED <<statsVars, cnRunning, cnStop, listenFd, openFds, shut, clientFds,
                   threads, accPc, accClient, cpc, cfd, creq, nReqs, handler>>

\* Lines 83-90: every client thread has returned; clear, unlock, running_ = false.
StopJoined ==
    /\ spc = "joining"
    /\ \A c \in threads : cpc[c] = "done"
    /\ threads' = {}
    /\ cnRunning' = FALSE
    /\ spc' = "done"
    /\ UNCHANGED <<statsVars, cnStop, listenFd, openFds, shut, clientFds, accPc,
                   accClient, cpc, cfd, creq, nReqs, handler>>

(***************************************************************************)
(* accept_loop, lines 94-104: should_stop_ is clear, and poll reports the  *)
(* listening socket readable because a peer is connecting.  The thread     *)
(* checks should_stop_ again (line 102) before ::accept, but stop() can    *)
(* set it and close the socket between that check and the call.           *)
(***************************************************************************)
AcceptPoll ==
    /\ accPc = "loop"
    /\ ~cnStop
    /\ listenFd # NoFd
    /\ \E c \in Clients : cpc[c] = "idle" /\ cfd[c] = NoFd
    /\ accPc' = "accept"
    /\ UNCHANGED <<statsVars, spc, cnRunning, cnStop, listenFd, openFds, shut, clientFds,
                   threads, accClient, cpc, cfd, creq, nReqs, handler>>

\* Lines 106-110: ::accept(listen_fd_) returns the lowest free fd.
AcceptConn(c) ==
    /\ accPc = "accept"
    /\ listenFd # NoFd
    /\ cpc[c] = "idle"
    /\ cfd[c] = NoFd
    /\ openFds' = openFds \cup {LowestFree}
    /\ cfd' = [cfd EXCEPT ![c] = LowestFree]
    /\ accClient' = c
    /\ accPc' = "push"
    /\ UNCHANGED <<statsVars, spc, cnRunning, cnStop, listenFd, shut, clientFds, threads,
                   cpc, creq, nReqs, handler>>

\* Lines 108-111: stop() has closed listen_fd_ (now -1): ::accept fails.
AcceptFail ==
    /\ accPc = "accept"
    /\ listenFd = NoFd
    /\ accPc' = "loop"
    /\ UNCHANGED <<statsVars, spc, cnRunning, cnStop, listenFd, openFds, shut, clientFds,
                   threads, accClient, cpc, cfd, creq, nReqs, handler>>

\* Lines 114-118: under the mutex, push_back the fd and spawn client_loop.
AcceptPush ==
    /\ accPc = "push"
    /\ ~StopHoldsLock
    /\ clientFds' = Append(clientFds, cfd[accClient])
    /\ threads' = threads \cup {accClient}
    /\ cpc' = [cpc EXCEPT ![accClient] = "loop"]
    /\ accPc' = "loop"
    /\ UNCHANGED <<statsVars, spc, cnRunning, cnStop, listenFd, openFds, shut, accClient,
                   cfd, creq, nReqs, handler>>

\* Line 94: the loop sees should_stop_ and returns.
AcceptExit ==
    /\ accPc = "loop"
    /\ cnStop
    /\ accPc' = "exited"
    /\ UNCHANGED <<statsVars, spc, cnRunning, cnStop, listenFd, openFds, shut, clientFds,
                   threads, accClient, cpc, cfd, creq, nReqs, handler>>

(***************************************************************************)
(* client_loop, lines 126-151: should_stop_ is clear, the socket is not    *)
(* shut down, recv returns bytes, the framer yields request r, and the     *)
(* thread enters handler_.handle(r).                                       *)
(***************************************************************************)
ClientRecv(c, r) ==
    /\ cpc[c] = "loop"
    /\ ~cnStop
    /\ cfd[c] \notin shut
    /\ nReqs[c] < MaxReqs
    /\ cpc' = [cpc EXCEPT ![c] = "handling"]
    /\ creq' = [creq EXCEPT ![c] = r]
    /\ nReqs' = [nReqs EXCEPT ![c] = @ + 1]
    /\ UNCHANGED <<statsVars, spc, cnRunning, cnStop, listenFd, openFds, shut, clientFds,
                   threads, accPc, accClient, cfd, handler>>

\* Lines 151-156: handle returns (its writes to handler_ take effect), and
\* the reply is encoded and sent; a failed send ends the inner loop only.
ClientReply(c) ==
    /\ cpc[c] = "handling"
    /\ handler' = Handle(handler, creq[c], global).h
    /\ cpc' = [cpc EXCEPT ![c] = "loop"]
    /\ UNCHANGED <<statsVars, spc, cnRunning, cnStop, listenFd, openFds, shut, clientFds,
                   threads, accPc, accClient, cfd, creq, nReqs>>

\* Lines 126, 137: should_stop_ is seen, or stop() shut the socket down (POLLHUP).
ClientSeesStop(c) ==
    /\ cpc[c] = "loop"
    /\ cnStop \/ cfd[c] \in shut
    /\ cpc' = [cpc EXCEPT ![c] = "closing"]
    /\ UNCHANGED <<statsVars, spc, cnRunning, cnStop, listenFd, openFds, shut, clientFds,
                   threads, accPc, accClient, cfd, creq, nReqs, handler>>

\* Lines 137, 144: the peer hangs up (POLLHUP, or recv returns 0).
PeerHangup(c) ==
    /\ cpc[c] = "loop"
    /\ cpc' = [cpc EXCEPT ![c] = "closing"]
    /\ UNCHANGED <<statsVars, spc, cnRunning, cnStop, listenFd, openFds, shut, clientFds,
                   threads, accPc, accClient, cfd, creq, nReqs, handler>>

\* Line 160: ::close(client_fd), which frees the number at once.
ClientClose(c) ==
    /\ cpc[c] = "closing"
    /\ openFds' = openFds \ {cfd[c]}
    /\ cpc' = [cpc EXCEPT ![c] = "erase"]
    /\ UNCHANGED <<statsVars, spc, cnRunning, cnStop, listenFd, shut, clientFds, threads,
                   accPc, accClient, cfd, creq, nReqs, handler>>

\* Lines 163-168: under the mutex, erase every entry equal to client_fd.
ClientErase(c) ==
    /\ cpc[c] = "erase"
    /\ ~StopHoldsLock
    /\ clientFds' = SelectSeq(clientFds, LAMBDA f : f # cfd[c])
    /\ cpc' = [cpc EXCEPT ![c] = "done"]
    /\ UNCHANGED <<statsVars, spc, cnRunning, cnStop, listenFd, openFds, shut, threads,
                   accPc, accClient, cfd, creq, nReqs, handler>>

OwnerStep == StopCloseListen \/ StopCloseClients \/ StopJoinAccept
             \/ StopLockJoin \/ StopJoined

ClientStep(c) == \/ \E r \in Requests : ClientRecv(c, r)
                 \/ ClientReply(c) \/ ClientSeesStop(c)
                 \/ ClientClose(c) \/ ClientErase(c)

CnNext ==
    \/ Start \/ StopCall \/ OwnerStep
    \/ AcceptPoll \/ \E c \in Clients : AcceptConn(c)
    \/ AcceptFail \/ AcceptPush \/ AcceptExit
    \/ \E c \in Clients : ClientStep(c) \/ PeerHangup(c)

(***************************************************************************)
(* Fairness.  Every thread keeps running while it can: the owner inside    *)
(* stop(), the accept thread, and each client thread (their polls time out *)
(* after 100 ms, so a stop flag or a shut socket is seen); an ::accept     *)
(* issued after poll saw a peer returns.  Nothing forces start() or stop() *)
(* to be called, a peer to connect, send or hang up.                      *)
(***************************************************************************)
CnFairness ==
    /\ WF_cnVars(OwnerStep)
    /\ WF_cnVars((\E c \in Clients : AcceptConn(c)) \/ AcceptFail \/ AcceptPush
                  \/ AcceptExit)
    /\ \A c \in Clients : WF_cnVars(ClientReply(c) \/ ClientSeesStop(c)
                                    \/ ClientClose(c) \/ ClientErase(c))

\* The control node alone: nobody writes the statistics.
CnSpec == CnInit /\ [][CnNext]_<<cnVars, statsVars>> /\ CnFairness

(***************************************************************************)
(* Once stop() has been called and the threads run, stop() returns (spec   *)
(* 4.10: the accept and client workers terminate before stop returns).     *)
(***************************************************************************)
StopReturns == (spc = "listen") ~> (spc = "done")

(***************************************************************************)
(* Until stop() empties it, client_fds_ lists the fd of every client       *)
(* thread still serving its peer, so that stop() shuts every live          *)
(* connection down.  Breaking it takes a client closing its fd, the        *)
(* accept thread reusing the number, and the first client's erase.         *)
(***************************************************************************)
ClientFdsTracked ==
    spc \in {"init", "idle", "listen", "clients"} =>
        \A c \in Clients : cpc[c] \in {"loop", "handling"} =>
            cfd[c] \in Entries(clientFds)

(***************************************************************************)
(* The command handler is owned by one client thread (spec 5), so its      *)
(* config_ map is never written by two threads at once: no two client     *)
(* threads are inside handler_.handle together, each handling a SET that   *)
(* passes handle_set's checks and assigns config_[key].                    *)
(***************************************************************************)
HandlerOwned ==
    \A c1, c2 \in Clients :
        (c1 # c2 /\ cpc[c1] = "handling" /\ cpc[c2] = "handling")
            => ~(Writes(creq[c1]) /\ Writes(creq[c2]))

(***************************************************************************)
(* When stop() has returned, the process holds no descriptor of the       *)
(* control node: the listening socket and every client socket are closed, *)
(* whichever thread closed them.                                          *)
(***************************************************************************)
FdsClosedWhenStopped == spc = "done" => openFds = {}

(***************************************************************************)
(* A client thread's ::close(client_fd) (line 160) closes its own          *)
(* connection only: the number is not the listening socket while stop()   *)
(* has not closed it, not the fd the accept thread is about to push, and  *)
(* not the fd of another client thread still serving.  The client may     *)
(* close a number stop() already closed; this says the number has not     *)
(* been handed to anyone else in between.                                 *)
(***************************************************************************)
NoForeignClose ==
    [][\A c \in Clients :
         ClientClose(c) =>
           /\ spc \in {"idle", "listen"} => cfd[c] # listenFd
           /\ accPc = "push" => cfd[c] # cfd[accClient]
           /\ \A d \in Clients \ {c} :
                 cpc[d] \in {"loop", "handling", "closing"} => cfd[d] # cfd[c]
      ]_<<cnVars, statsVars>>

(***************************************************************************)
(* Every descriptor is closed once: a client thread's ::close at line 160 *)
(* is only ever given a number that is still open.  A second close of a   *)
(* number stop() has already closed (line 72) fails with EBADF, or closes *)
(* whatever another thread of the process was given that number for.     *)
(***************************************************************************)
CloseOnlyOpen ==
    [][\A c \in Clients : ClientClose(c) => cfd[c] \in openFds]_<<cnVars, statsVars>>

=============================================================================
