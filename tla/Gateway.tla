------------------------------- MODULE Gateway -------------------------------
(***************************************************************************)
(* The gateway receive loop (src/gateway/gateway.cpp, Gateway::run and     *)
(* Gateway::process_frame) composed with the parser, the sequence tracker  *)
(* and the statistics aggregator.                                          *)
(*                                                                         *)
(* The loop runs in one thread.  The tracker is owned by that thread; the  *)
(* statistics are shared with the control node's client threads, which    *)
(* read them (GET STATS, GET HEALTH) at any moment.  process_frame makes   *)
(* one, two or three calls into StatsManager, each under its own lock.     *)
(* The model therefore splits process_frame at those calls: ReceiveValid  *)
(* and ReceiveMalformed do the thread-local work (parse, track) and queue  *)
(* the statistics calls the code makes, in its order; StatsCall performs   *)
(* them one step at a time.  Every state is one a concurrent reader can    *)
(* observe, so an invariant over the statistics is a statement about what *)
(* every GET STATS / GET HEALTH reply can show.                            *)
(*                                                                         *)
(* The datagram source delivers any datagram of Datagrams from any source  *)
(* with any sequence number: loss, duplication and reordering on the wire  *)
(* are all among those choices.  A receive that times out changes nothing  *)
(* and is a stuttering step.                                               *)
(***************************************************************************)
EXTENDS SequenceTracker, StatsManager, TelemetryParser, Sequences

CONSTANTS
    CrcEnabled,   \* GatewayConfig::crc_enabled
    Datagrams,    \* the datagrams, as parse_frame sees them, the wire carries
    MaxFrames     \* bound on the number of frames received in a run

\* Malformed frames are recorded against source id 0 (gateway.cpp).
MalformedSrc == 0

ASSUME GatewayAssumption ==
    /\ StatSources = Sources
    /\ MalformedSrc \in Sources
    /\ CrcEnabled \in BOOLEAN
    /\ Datagrams \subseteq Datagram
    /\ MaxFrames \in Nat

VARIABLES
    pending,      \* the StatsManager calls of the current frame not yet made
    shouldStop,   \* should_stop_
    running,      \* running_: the loop of run() has not exited
    nFrames       \* frames received so far (bounded by MaxFrames)

gwVars == <<pending, shouldStop, running, nFrames>>
vars == <<trkVars, statsVars, gwVars>>

StatOps == {"rx", "malformed", "gap", "reorder", "duplicate", "crc_fail"}
StatsCallT == [op : StatOps, src : Sources, n : SeqNum]

Call(op, s, n) == [op |-> op, src |-> s, n |-> n]

(***************************************************************************)
(* The StatsManager calls process_frame makes, in order, after the parse   *)
(* result err and, for a parsed frame, the tracker's event ev.             *)
(***************************************************************************)
MalformedCalls(err) ==
    IF err = "CRC_MISMATCH"
      THEN <<Call("malformed", MalformedSrc, 0), Call("crc_fail", MalformedSrc, 0)>>
      ELSE <<Call("malformed", MalformedSrc, 0)>>

AnomalyCalls(ev) ==
    CASE ev.result = "GAP"       -> <<Call("gap", ev.src_id, ev.gap_size)>>
      [] ev.result = "REORDER"   -> <<Call("reorder", ev.src_id, 0)>>
      [] ev.result = "DUPLICATE" -> <<Call("duplicate", ev.src_id, 0)>>
      [] OTHER                   -> <<>>

\* Mutant: the anomaly counter bumped before record_rx.
ValidCallsRxLast(ev) == AnomalyCalls(ev) \o <<Call("rx", ev.src_id, 0)>>

ValidCalls(ev) == <<Call("rx", ev.src_id, 0)>> \o AnomalyCalls(ev)

\* One StatsManager call, under its lock.
Apply(c) ==
    CASE c.op = "rx"        -> RecordRx(c.src)
      [] c.op = "malformed" -> RecordMalformed(c.src)
      [] c.op = "gap"       -> RecordGap(c.src, c.n)
      [] c.op = "reorder"   -> RecordReorder(c.src)
      [] c.op = "duplicate" -> RecordDuplicate(c.src)
      [] c.op = "crc_fail"  -> RecordCrcFail(c.src)

-----------------------------------------------------------------------------

Init ==
    /\ TrkInit
    /\ StatsInit
    /\ pending = <<>>
    /\ shouldStop = FALSE
    /\ running = TRUE
    /\ nFrames = 0

\* The loop is at the top of an iteration: not stopped, previous frame done.
LoopReady ==
    /\ running
    /\ ~shouldStop
    /\ pending = <<>>
    /\ nFrames < MaxFrames

\* A datagram that parse_frame accepts: track it, then queue record_rx and
\* the anomaly counter the tracker's verdict calls for.
ReceiveValid(s, seq, d) ==
    /\ LoopReady
    /\ ParseFrame(d, CrcEnabled) = "OK"
    /\ Track(s, seq)
    /\ pending' = ValidCalls(TrackEvent(trk[s], s, seq))
    /\ nFrames' = nFrames + 1
    /\ UNCHANGED <<statsVars, shouldStop, running>>

\* A datagram that parse_frame rejects: queue record_malformed(0) and, for a
\* CRC mismatch, record_crc_fail(0).  The tracker is not called.
ReceiveMalformed(d) ==
    /\ LoopReady
    /\ ParseFrame(d, CrcEnabled) # "OK"
    /\ pending' = MalformedCalls(ParseFrame(d, CrcEnabled))
    /\ nFrames' = nFrames + 1
    /\ UNCHANGED <<trkVars, statsVars, shouldStop, running>>

\* The next StatsManager call of process_frame.
StatsCall ==
    /\ pending # <<>>
    /\ Apply(Head(pending))
    /\ pending' = Tail(pending)
    /\ UNCHANGED <<trkVars, shouldStop, running, nFrames>>

\* Gateway::stop(), from another thread (a signal handler in gateway_main).
Stop ==
    /\ ~shouldStop
    /\ shouldStop' = TRUE
    /\ UNCHANGED <<trkVars, statsVars, pending, running, nFrames>>

\* Mutant: the loop leaves only once the frame source is exhausted.
ExitWhenSourceDone ==
    /\ running
    /\ shouldStop
    /\ pending = <<>>
    /\ nFrames = MaxFrames
    /\ running' = FALSE
    /\ UNCHANGED <<trkVars, statsVars, pending, shouldStop, nFrames>>

\* The loop sees should_stop_ between frames, closes the recorder and
\* clears running_.
Exit ==
    /\ running
    /\ shouldStop
    /\ pending = <<>>
    /\ running' = FALSE
    /\ UNCHANGED <<trkVars, statsVars, pending, shouldStop, nFrames>>

Next ==
    \/ \E s \in Sources, seq \in SeqNum, d \in Datagrams : ReceiveValid(s, seq, d)
    \/ \E d \in Datagrams : ReceiveMalformed(d)
    \/ StatsCall
    \/ Stop
    \/ Exit

Spec == Init /\ [][Next]_vars

(***************************************************************************)
(* Fairness of the loop thread: it finishes the frame it is processing,   *)
(* and it rechecks should_stop_ at least every 100 ms, since the UDP       *)
(* receive times out (set_timeout_ms(100)).  Nothing forces a datagram to  *)
(* arrive or stop() to be called.                                          *)
(***************************************************************************)
FairSpec == Spec /\ WF_vars(StatsCall) /\ WF_vars(Exit)

-----------------------------------------------------------------------------
(* Properties. *)

TypeOK ==
    /\ TrkTypeOK
    /\ StatsTypeOK
    /\ pending \in Seq(StatsCallT)
    /\ shouldStop \in BOOLEAN
    /\ running \in BOOLEAN
    /\ nFrames \in Nat

(***************************************************************************)
(* A reader of the statistics never sees an effect before its cause.      *)
(* Every REORDER or DUPLICATE counted against a source, and the source's  *)
(* FIRST frame (which is neither), are already counted in its rx_count;   *)
(* every CRC failure is already counted as malformed.  process_frame calls *)
(* record_rx before the anomaly counter and record_malformed before       *)
(* record_crc_fail, each under its own lock, and a control-node client    *)
(* may read between the two.                                               *)
(***************************************************************************)
CauseBeforeEffect ==
    /\ \A s \in Sources :
          perSource[s].rx_count > 0
            => perSource[s].reorders + perSource[s].duplicates
                 < perSource[s].rx_count
    /\ \A s \in Sources :
          perSource[s].rx_count = 0
            => perSource[s].reorders + perSource[s].duplicates = 0
    /\ global.crc_fail_total <= global.malformed_total

(***************************************************************************)
(* Between frames, the statistics of a source account for every sequence  *)
(* number the tracker has moved past: next_expected is the FIRST frame's  *)
(* sequence number plus one for every frame that advanced it (received    *)
(* frames that were not late) plus every sequence number reported lost in *)
(* a GAP, modulo 2^32.  This ties the gap sizes the tracker reports and   *)
(* record_gap adds to the tracker's own state.                             *)
(***************************************************************************)
SequenceAccounting ==
    pending = <<>> =>
      \A s \in Sources :
        trk[s].initialized =>
          trk[s].next_expected
            = U32(firstSeq[s] + perSource[s].rx_count - perSource[s].reorders
                  - perSource[s].duplicates + perSource[s].gaps)

(***************************************************************************)
(* The health a GET HEALTH reader sees never improves while the gateway   *)
(* runs: no step of the loop takes get_health() from ERROR or DEGRADED    *)
(* back to a better state, whatever a concurrent reader interleaves.  It  *)
(* rests on every StatsManager mutator only adding to counters and on the *)
(* order of get_health's tests.                                            *)
(***************************************************************************)
HealthNeverImproves ==
    [][HealthRank(Health(global')) >= HealthRank(Health(global))]_vars

(***************************************************************************)
(* Once stop() has set should_stop_ while the loop runs, run() returns:    *)
(* the frame in progress is finished and the next check of the flag       *)
(* leaves the loop, however many datagrams keep arriving.                  *)
(***************************************************************************)
StopHonoured == (running /\ shouldStop) ~> ~running

=============================================================================
