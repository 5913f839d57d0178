---------------------------- MODULE GatewayMain ----------------------------
(***************************************************************************)
(* The gateway process from main() (src/gateway/gateway_main.cpp): the     *)
(* signal handlers are installed, the Gateway is constructed and published *)
(* in g_gateway, and run() starts the loop of the Gateway module.  A       *)
(* SIGINT or SIGTERM may arrive at any point; the handler sets g_shutdown  *)
(* and, once g_gateway is set, calls stop().  Nothing reads g_shutdown.    *)
(***************************************************************************)
EXTENDS Gateway

VARIABLES
    mainPc,      \* "setup": handlers installed, g_gateway still null;
                 \* "published": g_gateway set, run() not past line 56;
                 \* "loop": run() is in its loop (or has left it);
                 \* "failed": run() returned because the source did not open
    gShutdown    \* g_shutdown

mainVars == <<vars, mainPc, gShutdown>>

MainInit ==
    /\ TrkInit
    /\ StatsInit
    /\ pending = <<>>
    /\ shouldStop = FALSE
    /\ running = FALSE
    /\ nFrames = 0
    /\ mainPc = "setup"
    /\ gShutdown = FALSE

\* signal_handler (lines 10-15): one Ctrl+C, at any point of main.
Signal ==
    /\ ~gShutdown
    /\ gShutdown' = TRUE
    /\ shouldStop' = IF mainPc = "setup" THEN shouldStop ELSE TRUE
    /\ UNCHANGED <<trkVars, statsVars, pending, running, nFrames, mainPc>>

\* Line 72: g_gateway = &gateway.
Publish ==
    /\ mainPc = "setup"
    /\ mainPc' = "published"
    /\ UNCHANGED <<vars, gShutdown>>

\* run(), lines 19-56: the source opens; running_ = true, should_stop_ = false.
RunStart ==
    /\ mainPc = "published"
    /\ running' = TRUE
    /\ shouldStop' = FALSE
    /\ mainPc' = "loop"
    /\ UNCHANGED <<trkVars, statsVars, pending, nFrames, gShutdown>>

\* run(), lines 27-31 / 38-41: the source cannot be opened; run() returns.
RunFail ==
    /\ mainPc = "published"
    /\ mainPc' = "failed"
    /\ UNCHANGED <<vars, gShutdown>>

\* The loop of run(), as in Gateway; stop() now comes only from Signal.
LoopStep ==
    /\ mainPc = "loop"
    /\ \/ \E s \in Sources, seq \in SeqNum, d \in Datagrams : ReceiveValid(s, seq, d)
       \/ \E d \in Datagrams : ReceiveMalformed(d)
       \/ StatsCall
       \/ Exit
    /\ UNCHANGED <<mainPc, gShutdown>>

MainNext == Signal \/ Publish \/ RunStart \/ RunFail \/ LoopStep

\* The main thread runs on; the loop thread as in FairSpec.
MainSpec ==
    /\ MainInit /\ [][MainNext]_mainVars
    /\ WF_mainVars(Publish) /\ WF_mainVars(RunStart \/ RunFail)
    /\ WF_mainVars(LoopStep /\ StatsCall) /\ WF_mainVars(LoopStep /\ Exit)

\* The process has left run(): main prints the final statistics and exits.
Returned == mainPc = "failed" \/ (mainPc = "loop" /\ ~running)

(***************************************************************************)
(* A Ctrl+C always ends the gateway (gateway_main prints "Press Ctrl+C to  *)
(* stop"): once the handler has run, run() eventually returns.            *)
(***************************************************************************)
CtrlCStops == gShutdown ~> Returned

=============================================================================
