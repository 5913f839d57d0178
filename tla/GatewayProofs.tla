---------------------------- MODULE GatewayProofs ----------------------------
(***************************************************************************)
(* Proofs about the gateway receive loop composed with the tracker and the *)
(* statistics, for every set of sources, every window size and modulus,   *)
(* every set of datagrams and every bound on the frames received.          *)
(***************************************************************************)
EXTENDS Gateway, SequenceTrackerProofs, SequenceTheorems

USE TrackerAssumption, GatewayAssumption

AnomalyOps == {"reorder", "duplicate"}

(***************************************************************************)
(* The shape of the calls process_frame still has to make.  At most two:  *)
(* record_rx then the anomaly counter of the same source, or              *)
(* record_malformed then record_crc_fail.  A late-frame counter still to  *)
(* come after record_rx is for a source already counted once (its FIRST  *)
(* frame); one that comes next leaves room below rx_count; a CRC failure  *)
(* that comes next is already counted as malformed.                        *)
(***************************************************************************)
PendingOK(p, g, ps) ==
    /\ Len(p) \in {0, 1, 2}
    /\ Len(p) = 2 =>
         \/ p[1].op = "rx" /\ p[2].op \in {"gap"} \cup AnomalyOps /\ p[2].src = p[1].src
         \/ p[1].op = "malformed" /\ p[2].op = "crc_fail"
    /\ Len(p) = 2 /\ p[2].op \in AnomalyOps => ps[p[2].src].rx_count >= 1
    /\ Len(p) = 1 /\ p[1].op \in AnomalyOps
         => ps[p[1].src].reorders + ps[p[1].src].duplicates + 1 < ps[p[1].src].rx_count
    /\ Len(p) = 1 /\ p[1].op = "crc_fail" => g.crc_fail_total < g.malformed_total

PendingInv == PendingOK(pending, global, perSource)

(***************************************************************************)
(* A source the tracker has seen is counted in rx_count, or its FIRST     *)
(* frame's record_rx is the next call.                                     *)
(***************************************************************************)
InitTracked ==
    \A s \in Sources :
        trk[s].initialized =>
            \/ perSource[s].rx_count >= 1
            \/ pending # <<>> /\ pending[1] = Call("rx", s, 0)

IInv == TypeOK /\ CauseBeforeEffect /\ PendingInv /\ InitTracked

-----------------------------------------------------------------------------

\* Sequence numbers include 0.
LEMMA ZeroSeqNum == 0 \in SeqNum
BY DEF SeqNum

(***************************************************************************)
(* The calls process_frame makes for a parsed frame: record_rx of its     *)
(* source first, then at most one anomaly counter of the same source,     *)
(* a late-frame counter only for a REORDER or DUPLICATE verdict.           *)
(***************************************************************************)
LEMMA ValidCallsShape ==
    ASSUME NEW ev \in SeqEvent
    PROVE  LET vc == ValidCalls(ev) IN
           /\ vc \in Seq(StatsCallT)
           /\ Len(vc) \in {1, 2}
           /\ vc[1] = Call("rx", ev.src_id, 0)
           /\ Len(vc) = 2 => /\ vc[2].op \in {"gap"} \cup AnomalyOps
                             /\ vc[2].src = ev.src_id
                             /\ vc[2].op \in AnomalyOps
                                  => ev.result \in {"REORDER", "DUPLICATE"}
<1>1. ev.src_id \in Sources /\ ev.gap_size \in SeqNum /\ 0 \in SeqNum
  BY ZeroSeqNum DEF SeqEvent
<1>2. Call("rx", ev.src_id, 0) \in StatsCallT
  BY <1>1 DEF Call, StatsCallT, StatOps
<1>3. CASE ev.result = "GAP"
  <2>1. AnomalyCalls(ev) = <<Call("gap", ev.src_id, ev.gap_size)>>
    BY <1>3 DEF AnomalyCalls
  <2>2. Call("gap", ev.src_id, ev.gap_size) \in StatsCallT
    BY <1>1 DEF Call, StatsCallT, StatOps
  <2> QED  BY <1>2, <2>1, <2>2 DEF ValidCalls, Call, AnomalyOps
<1>4. CASE ev.result = "REORDER"
  <2>1. AnomalyCalls(ev) = <<Call("reorder", ev.src_id, 0)>>
    BY <1>4 DEF AnomalyCalls
  <2>2. Call("reorder", ev.src_id, 0) \in StatsCallT
    BY <1>1 DEF Call, StatsCallT, StatOps
  <2> QED  BY <1>2, <1>4, <2>1, <2>2 DEF ValidCalls, Call, AnomalyOps
<1>5. CASE ev.result = "DUPLICATE"
  <2>1. AnomalyCalls(ev) = <<Call("duplicate", ev.src_id, 0)>>
    BY <1>5 DEF AnomalyCalls
  <2>2. Call("duplicate", ev.src_id, 0) \in StatsCallT
    BY <1>1 DEF Call, StatsCallT, StatOps
  <2> QED  BY <1>2, <1>5, <2>1, <2>2 DEF ValidCalls, Call, AnomalyOps
<1>6. CASE ev.result \notin {"GAP", "REORDER", "DUPLICATE"}
  <2>1. AnomalyCalls(ev) = << >>
    BY <1>6 DEF AnomalyCalls
  <2> QED  BY <1>2, <2>1 DEF ValidCalls
<1> QED  BY <1>3, <1>4, <1>5, <1>6

\* The calls for a rejected datagram: record_malformed(0), then
\* record_crc_fail(0) for a CRC mismatch.
LEMMA MalformedCallsShape ==
    ASSUME NEW err
    PROVE  LET mc == MalformedCalls(err) IN
           /\ mc \in Seq(StatsCallT)
           /\ Len(mc) \in {1, 2}
           /\ mc[1].op = "malformed"
           /\ Len(mc) = 2 => mc[2].op = "crc_fail"
<1>1. Call("malformed", MalformedSrc, 0) \in StatsCallT
      /\ Call("crc_fail", MalformedSrc, 0) \in StatsCallT
  BY ZeroSeqNum DEF Call, StatsCallT, StatOps
<1> QED  BY <1>1 DEF MalformedCalls, Call

(***************************************************************************)
(* track returns a verdict about the source it was called for, and a late *)
(* verdict (REORDER or DUPLICATE) only for a source it had already seen.  *)
(***************************************************************************)
LEMMA LateVerdictNeedsFirst ==
    ASSUME NEW st \in SourceState, NEW src \in Sources, NEW seq \in SeqNum
    PROVE  /\ TrackEvent(st, src, seq).src_id = src
           /\ TrackEvent(st, src, seq).result \in {"REORDER", "DUPLICATE"}
                => st.initialized
<1>1. st.initialized \in BOOLEAN /\ st.next_expected \in SeqNum
  BY DEF SourceState
<1>2. CASE ~st.initialized
  <2>1. TrackEvent(st, src, seq) = Event("FIRST", src, 0, seq, 0)
    BY <1>2 DEF TrackEvent
  <2> QED  BY <1>2, <2>1 DEF Event
<1>3. CASE st.initialized
  BY <1>3 DEF TrackEvent, Event
<1> QED  BY <1>1, <1>2, <1>3

\* The calls queued for a parsed frame satisfy PendingOK.
LEMMA PendingOKValid ==
    ASSUME NEW p \in Seq(StatsCallT), NEW g, NEW ps, NEW s,
           Len(p) \in {1, 2}, p[1].op = "rx", p[1].src = s,
           Len(p) = 2 => /\ p[2].op \in {"gap"} \cup AnomalyOps
                         /\ p[2].src = s
                         /\ p[2].op \in AnomalyOps => ps[s].rx_count >= 1
    PROVE  PendingOK(p, g, ps)
<1>1. Len(p) \in {0, 1, 2}
  OBVIOUS
<1>2. Len(p) = 2 =>
         \/ p[1].op = "rx" /\ p[2].op \in {"gap"} \cup AnomalyOps /\ p[2].src = p[1].src
         \/ p[1].op = "malformed" /\ p[2].op = "crc_fail"
  OBVIOUS
<1>3. Len(p) = 2 /\ p[2].op \in AnomalyOps => ps[p[2].src].rx_count >= 1
  OBVIOUS
<1>4. Len(p) = 1 => p[1].op \notin AnomalyOps \cup {"crc_fail"}
  BY DEF AnomalyOps
<1> QED  BY <1>1, <1>2, <1>3, <1>4 DEF PendingOK

\* Each StatsManager call keeps the statistics well formed.
LEMMA ApplyType ==
    ASSUME StatsTypeOK, NEW c \in StatsCallT, Apply(c)
    PROVE  StatsTypeOK'
<1>1. c.src \in StatSources /\ c.n \in Nat /\ c.op \in StatOps
  BY DEF StatsCallT, SeqNum
<1>2. CASE c.op = "rx"
  BY <1>1, <1>2 DEF Apply, RecordRx, Touch, StatsTypeOK, GlobalStats, SourceStats
<1>3. CASE c.op = "malformed"
  BY <1>1, <1>3 DEF Apply, RecordMalformed, Touch, StatsTypeOK, GlobalStats,
                    SourceStats
<1>4. CASE c.op = "gap"
  BY <1>1, <1>4 DEF Apply, RecordGap, Touch, StatsTypeOK, GlobalStats, SourceStats
<1>5. CASE c.op = "reorder"
  BY <1>1, <1>5 DEF Apply, RecordReorder, Touch, StatsTypeOK, GlobalStats,
                    SourceStats
<1>6. CASE c.op = "duplicate"
  BY <1>1, <1>6 DEF Apply, RecordDuplicate, Touch, StatsTypeOK, GlobalStats,
                    SourceStats
<1>7. CASE c.op = "crc_fail"
  BY <1>1, <1>7 DEF Apply, RecordCrcFail, Touch, StatsTypeOK, GlobalStats,
                    SourceStats
<1> QED  BY <1>1, <1>2, <1>3, <1>4, <1>5, <1>6, <1>7 DEF StatOps

\* Every step of the loop keeps the whole state well formed.
LEMMA TypeStep == TypeOK /\ [Next]_vars => TypeOK'
<1> SUFFICES ASSUME TypeOK, [Next]_vars PROVE TypeOK'
  OBVIOUS
<1>1. ASSUME NEW s \in Sources, NEW seq \in SeqNum, NEW d \in Datagrams,
             ReceiveValid(s, seq, d)
      PROVE  TypeOK'
  <2>1. TrkTypeOK'
    <3>1. Track(s, seq) /\ TrkTypeOK
      BY <1>1 DEF ReceiveValid, TypeOK
    <3>2. TrackState(trk[s], seq) \in SourceState
          /\ TrackEvent(trk[s], s, seq) \in SeqEvent
      BY <3>1, TrackStateType, TrackEventType DEF TrkTypeOK
    <3> QED  BY <3>1, <3>2 DEF Track, TrkTypeOK
  <2>2. pending' \in Seq(StatsCallT)
    <3>1. TrackEvent(trk[s], s, seq) \in SeqEvent
      BY TrackEventType DEF TypeOK, TrkTypeOK
    <3> QED  BY <1>1, <3>1, ValidCallsShape DEF ReceiveValid
  <2> QED  BY <1>1, <2>1, <2>2 DEF ReceiveValid, TypeOK, statsVars, StatsTypeOK
<1>2. ASSUME NEW d \in Datagrams, ReceiveMalformed(d) PROVE TypeOK'
  <2>1. pending' \in Seq(StatsCallT)
    BY <1>2, MalformedCallsShape DEF ReceiveMalformed
  <2> QED  BY <1>2, <2>1 DEF ReceiveMalformed, TypeOK, trkVars, statsVars,
                           TrkTypeOK, StatsTypeOK
<1>3. ASSUME StatsCall PROVE TypeOK'
  <2>1. pending # << >> /\ pending \in Seq(StatsCallT)
    BY <1>3 DEF StatsCall, TypeOK
  <2>2. Head(pending) \in StatsCallT /\ Tail(pending) \in Seq(StatsCallT)
    BY <2>1
  <2>3. StatsTypeOK'
    BY <1>3, <2>2, ApplyType DEF StatsCall, TypeOK
  <2> QED  BY <1>3, <2>2, <2>3 DEF StatsCall, TypeOK, trkVars, TrkTypeOK
<1>4. ASSUME Stop PROVE TypeOK'
  BY <1>4 DEF Stop, TypeOK, trkVars, statsVars, TrkTypeOK, StatsTypeOK
<1>5. ASSUME Exit PROVE TypeOK'
  BY <1>5 DEF Exit, TypeOK, trkVars, statsVars, TrkTypeOK, StatsTypeOK
<1>6. CASE UNCHANGED vars
  BY <1>6 DEF vars, trkVars, statsVars, gwVars, TypeOK, TrkTypeOK, StatsTypeOK
<1> QED  BY <1>1, <1>2, <1>3, <1>4, <1>5, <1>6 DEF Next

\* The initial state is well formed.
LEMMA InitType == Init => TypeOK
<1> SUFFICES ASSUME Init PROVE TypeOK
  OBVIOUS
<1>1. TrkTypeOK
  BY UntrackedType, ZeroSeqNum DEF Init, TrkInit, TrkTypeOK
<1>2. StatsTypeOK
  BY DEF Init, StatsInit, StatsTypeOK, ZeroGlobal, ZeroSource, GlobalStats,
         SourceStats
<1>3. pending \in Seq(StatsCallT)
  BY DEF Init
<1>4. shouldStop \in BOOLEAN /\ running \in BOOLEAN /\ nFrames \in Nat
  BY DEF Init
<1> QED  BY <1>1, <1>2, <1>3, <1>4 DEF TypeOK

(***************************************************************************)
(* The gateway's state stays well formed: the tracker's states and        *)
(* verdicts, the statistics counters, and the queue of StatsManager calls *)
(* process_frame still has to make, whatever datagrams arrive.            *)
(***************************************************************************)
THEOREM TypeCorrect == Spec => []TypeOK
BY InitType, TypeStep, PTL DEF Spec

\* The strengthened invariant holds initially.
LEMMA IInvInit == Init => IInv
<1> SUFFICES ASSUME Init PROVE IInv
  OBVIOUS
<1>1. TypeOK
  BY InitType
<1>2. \A s \in Sources : ~trk[s].initialized
  BY DEF Init, TrkInit, Untracked
<1> QED  BY <1>1, <1>2 DEF Init, StatsInit, ZeroGlobal, ZeroSource, IInv,
                          CauseBeforeEffect, PendingInv, PendingOK, InitTracked

\* A step that leaves the statistics alone keeps CauseBeforeEffect.
LEMMA CBEUnchanged ==
    ASSUME CauseBeforeEffect, UNCHANGED statsVars
    PROVE  CauseBeforeEffect'
BY DEF CauseBeforeEffect, statsVars

\* Receiving a parsed frame: track, then queue record_rx and the anomaly.
LEMMA IInvReceiveValid ==
    ASSUME IInv, NEW s \in Sources, NEW seq \in SeqNum, NEW d \in Datagrams,
           ReceiveValid(s, seq, d)
    PROVE  IInv'
<1> DEFINE ev == TrackEvent(trk[s], s, seq)
<1>1. TypeOK /\ TypeOK'
  BY TypeStep DEF IInv, Next
<1>2. trk[s] \in SourceState
  BY <1>1 DEF TypeOK, TrkTypeOK
<1>3. /\ ev \in SeqEvent
      /\ ev.src_id = s
      /\ ev.result \in {"REORDER", "DUPLICATE"} => trk[s].initialized
  BY <1>2, TrackEventType, LateVerdictNeedsFirst
<1>4. /\ pending = << >>
      /\ pending' = ValidCalls(ev)
      /\ UNCHANGED statsVars
      /\ trk' = [trk EXCEPT ![s] = TrackState(trk[s], seq)]
  BY DEF ReceiveValid, LoopReady, Track
<1>6. CauseBeforeEffect'
  BY <1>4, CBEUnchanged DEF IInv
<1>8. PendingInv'
  <2> DEFINE vc == ValidCalls(ev)
  <2>1. /\ vc \in Seq(StatsCallT)
        /\ Len(vc) \in {1, 2}
        /\ vc[1].op = "rx" /\ vc[1].src = s
        /\ Len(vc) = 2 =>
             /\ vc[2].op \in {"gap"} \cup AnomalyOps
             /\ vc[2].src = s
             /\ vc[2].op \in AnomalyOps => perSource[s].rx_count >= 1
    <3>1. trk[s].initialized => perSource[s].rx_count >= 1
      BY <1>4 DEF IInv, InitTracked
    <3>2. /\ vc \in Seq(StatsCallT)
          /\ Len(vc) \in {1, 2}
          /\ vc[1] = Call("rx", ev.src_id, 0)
          /\ Len(vc) = 2 => /\ vc[2].op \in {"gap"} \cup AnomalyOps
                            /\ vc[2].src = ev.src_id
                            /\ vc[2].op \in AnomalyOps
                                 => ev.result \in {"REORDER", "DUPLICATE"}
      BY ONLY <1>3, ValidCallsShape
    <3> QED  BY ONLY <1>3, <3>1, <3>2 DEF Call
  <2>2. PendingOK(vc, global, perSource)
    BY ONLY <2>1, PendingOKValid
  <2> QED  BY <1>4, <2>2 DEF PendingInv, statsVars
<1>9. InitTracked'
  <2> SUFFICES ASSUME NEW t \in Sources, trk'[t].initialized
               PROVE  \/ perSource'[t].rx_count >= 1
                      \/ pending' # << >> /\ pending'[1] = Call("rx", t, 0)
    BY DEF InitTracked
  <2>1. CASE t = s
    <3>1. ValidCalls(ev)[1] = Call("rx", s, 0) /\ Len(ValidCalls(ev)) \in {1, 2}
      BY ONLY <1>3, ValidCallsShape
    <3> QED  BY <1>4, <2>1, <3>1
  <2>2. CASE t # s
    <3>1. trk'[t] = trk[t]
      BY <1>1, <1>4, <2>2 DEF TypeOK, TrkTypeOK
    <3> QED  BY <1>4, <3>1 DEF IInv, InitTracked, statsVars
  <2> QED  BY <2>1, <2>2
<1> QED  BY <1>1, <1>6, <1>8, <1>9 DEF IInv

\* Receiving a rejected datagram: queue record_malformed and record_crc_fail.
LEMMA IInvReceiveMalformed ==
    ASSUME IInv, NEW d \in Datagrams, ReceiveMalformed(d)
    PROVE  IInv'
<1> DEFINE mc == MalformedCalls(ParseFrame(d, CrcEnabled))
<1>1. TypeOK'
  BY TypeStep DEF IInv, Next
<1>2. /\ pending = << >>
      /\ pending' = mc
      /\ UNCHANGED statsVars
      /\ UNCHANGED trkVars
  BY DEF ReceiveMalformed, LoopReady
<1>3. /\ mc \in Seq(StatsCallT)
      /\ Len(mc) \in {1, 2}
      /\ mc[1].op = "malformed"
      /\ Len(mc) = 2 => mc[2].op = "crc_fail"
  BY ONLY MalformedCallsShape
<1>4. PendingOK(mc, global, perSource)
  BY ONLY <1>3 DEF PendingOK, AnomalyOps
<1>5. InitTracked'
  BY <1>2 DEF IInv, InitTracked, statsVars, trkVars
<1> QED  BY <1>1, <1>2, <1>4, <1>5, CBEUnchanged DEF IInv, PendingInv, statsVars

\* Stop and the loop's exit touch neither the statistics nor the queue.
LEMMA IInvStopExit ==
    ASSUME IInv, Stop \/ Exit \/ UNCHANGED vars
    PROVE  IInv'
<1>1. TypeOK'
  BY TypeStep DEF IInv, Next
<1>2. UNCHANGED <<statsVars, trkVars, pending>>
  BY DEF Stop, Exit, vars, gwVars
<1> QED  BY <1>1, <1>2, CBEUnchanged DEF IInv, PendingInv, InitTracked,
                                       statsVars, trkVars

\* Taking the head of a queue of one or two calls.
LEMMA TailOfShort ==
    ASSUME NEW S, NEW p \in Seq(S), Len(p) \in {1, 2}
    PROVE  /\ Tail(p) \in Seq(S)
           /\ Len(p) = 1 => Len(Tail(p)) = 0
           /\ Len(p) = 2 => Len(Tail(p)) = 1 /\ Tail(p)[1] = p[2]
<1>1. p # << >>
  BY EmptySeq
<1> QED  BY <1>1, HeadTailProperties

\* PendingOK of an empty queue, and of a queue of one call.
LEMMA PendingOKEmpty ==
    ASSUME NEW p, NEW g, NEW ps, Len(p) = 0
    PROVE  PendingOK(p, g, ps)
BY DEF PendingOK

LEMMA PendingOKSingle ==
    ASSUME NEW p, NEW g, NEW ps, Len(p) = 1,
           p[1].op \in AnomalyOps
             => ps[p[1].src].reorders + ps[p[1].src].duplicates + 1
                  < ps[p[1].src].rx_count,
           p[1].op = "crc_fail" => g.crc_fail_total < g.malformed_total
    PROVE  PendingOK(p, g, ps)
BY DEF PendingOK

(***************************************************************************)
(* InitTracked survives a call that changes the entry of its own source   *)
(* only, does not lower its rx_count, and, if it is that source's pending *)
(* record_rx, leaves it counted.                                           *)
(***************************************************************************)
LEMMA TrackedStep ==
    ASSUME InitTracked, NEW s \in Sources, pending # << >>, pending[1].src = s,
           \A t \in Sources \ {s} : perSource'[t] = perSource[t],
           perSource[s].rx_count \in Nat, perSource'[s].rx_count \in Nat,
           perSource'[s].rx_count >= perSource[s].rx_count,
           pending[1] = Call("rx", s, 0) => perSource'[s].rx_count >= 1
    PROVE  \A t \in Sources : trk[t].initialized => perSource'[t].rx_count >= 1
<1> SUFFICES ASSUME NEW t \in Sources, trk[t].initialized
             PROVE  perSource'[t].rx_count >= 1
  OBVIOUS
<1>1. perSource[t].rx_count >= 1 \/ pending[1] = Call("rx", t, 0)
  BY DEF InitTracked
<1>2. CASE t = s
  <2>1. CASE perSource[t].rx_count >= 1
    BY <1>2, <2>1
  <2>2. CASE pending[1] = Call("rx", t, 0)
    BY <1>2, <2>2
  <2> QED  BY <1>1, <2>1, <2>2
<1>3. CASE t # s
  BY <1>1, <1>3 DEF Call
<1> QED  BY <1>2, <1>3

(***************************************************************************)
(* CauseBeforeEffect survives a call that changes the entry of one source *)
(* only, when that entry still satisfies it and CRC failures stay within  *)
(* the malformed count.                                                    *)
(***************************************************************************)
LEMMA CBEStep ==
    ASSUME CauseBeforeEffect, NEW s \in Sources,
           \A t \in Sources \ {s} : perSource'[t] = perSource[t],
           perSource'[s].rx_count > 0
             => perSource'[s].reorders + perSource'[s].duplicates
                  < perSource'[s].rx_count,
           perSource'[s].rx_count = 0
             => perSource'[s].reorders + perSource'[s].duplicates = 0,
           global'.crc_fail_total <= global'.malformed_total
    PROVE  CauseBeforeEffect'
<1>1. ASSUME NEW t \in Sources
      PROVE  /\ perSource'[t].rx_count > 0
                  => perSource'[t].reorders + perSource'[t].duplicates
                       < perSource'[t].rx_count
             /\ perSource'[t].rx_count = 0
                  => perSource'[t].reorders + perSource'[t].duplicates = 0
  <2>1. CASE t = s
    BY <2>1
  <2>2. CASE t # s
    BY <2>2 DEF CauseBeforeEffect
  <2> QED  BY <2>1, <2>2
<1> QED  BY <1>1 DEF CauseBeforeEffect

(***************************************************************************)
(* The next StatsManager call of process_frame, one case per call.  Only  *)
(* here do the counters a reader sees change, so this is where the order *)
(* of the calls matters.                                                   *)
(***************************************************************************)
LEMMA IInvStatsCall ==
    ASSUME IInv, StatsCall
    PROVE  IInv'
<1> DEFINE c == pending[1]
           q == Tail(pending)
           Lt(ps, t) == ps[t].reorders + ps[t].duplicates
<1>1. TypeOK /\ TypeOK'
  BY TypeStep DEF IInv, Next
<1>2. /\ pending \in Seq(StatsCallT)
      /\ Len(pending) \in {1, 2}
      /\ c \in StatsCallT
      /\ c.src \in Sources
      /\ Apply(c)
      /\ pending' = q
      /\ UNCHANGED trkVars
  <2>1. pending \in Seq(StatsCallT) /\ pending # << >>
    BY <1>1 DEF StatsCall, TypeOK
  <2>2. Len(pending) \in {1, 2}
    BY <2>1, EmptySeq DEF IInv, PendingInv, PendingOK
  <2>3. Head(pending) = c /\ c \in StatsCallT
    BY <2>1, <2>2, HeadTailProperties, ElementOfSeq
  <2> QED  BY <2>1, <2>2, <2>3 DEF StatsCall, StatsCallT
<1>3. /\ q \in Seq(StatsCallT)
      /\ Len(pending) = 1 => Len(q) = 0
      /\ Len(pending) = 2 => Len(q) = 1 /\ q[1] = pending[2]
  BY <1>2, TailOfShort
<1>4. /\ perSource \in [Sources -> SourceStats]
      /\ global \in GlobalStats
      /\ CauseBeforeEffect
      /\ PendingOK(pending, global, perSource)
      /\ InitTracked
  BY <1>1 DEF IInv, TypeOK, StatsTypeOK, PendingInv
<1>5. Len(pending) = 2 =>
        \/ c.op = "rx" /\ pending[2].op \in {"gap"} \cup AnomalyOps
                       /\ pending[2].src = c.src
                       /\ (pending[2].op \in AnomalyOps => perSource[c.src].rx_count >= 1)
        \/ c.op = "malformed" /\ pending[2].op = "crc_fail"
  BY <1>4 DEF PendingOK
<1>6. ASSUME CauseBeforeEffect', PendingOK(q, global', perSource'),
             \A t \in Sources : trk[t].initialized => perSource'[t].rx_count >= 1
      PROVE  IInv'
  BY <1>1, <1>2, <1>6 DEF IInv, PendingInv, InitTracked, trkVars
<1>7. /\ c.src \in Sources
      /\ perSource[c.src] \in SourceStats
      /\ perSource[c.src].rx_count \in Nat
      /\ Lt(perSource, c.src) \in Nat
      /\ global.crc_fail_total \in Nat /\ global.malformed_total \in Nat
      /\ perSource[c.src].rx_count > 0 => Lt(perSource, c.src) < perSource[c.src].rx_count
      /\ perSource[c.src].rx_count = 0 => Lt(perSource, c.src) = 0
      /\ global.crc_fail_total <= global.malformed_total
  <2>1. c.src \in Sources /\ perSource[c.src] \in SourceStats
    BY <1>2, <1>4
  <2>2. /\ perSource[c.src].rx_count \in Nat
        /\ perSource[c.src].reorders \in Nat
        /\ perSource[c.src].duplicates \in Nat
        /\ global.crc_fail_total \in Nat /\ global.malformed_total \in Nat
    BY <1>4, <2>1 DEF SourceStats, GlobalStats
  <2>3. /\ perSource[c.src].rx_count > 0 => Lt(perSource, c.src) < perSource[c.src].rx_count
        /\ perSource[c.src].rx_count = 0 => Lt(perSource, c.src) = 0
        /\ global.crc_fail_total <= global.malformed_total
    BY <1>4, <2>1 DEF CauseBeforeEffect
  <2> QED  BY <2>1, <2>2, <2>3
<1>8. c.op \notin {"rx", "malformed"} => Len(pending) = 1 /\ Len(q) = 0
  BY <1>2, <1>3, <1>5
<1>9. /\ c.op \in AnomalyOps => Lt(perSource, c.src) + 1 < perSource[c.src].rx_count
      /\ c.op = "crc_fail" => global.crc_fail_total < global.malformed_total
  BY <1>4, <1>8 DEF PendingOK, AnomalyOps
<1>10. PendingOK(q, global', perSource')
         /\ CauseBeforeEffect'
         /\ \A t \in Sources : trk[t].initialized => perSource'[t].rx_count >= 1
  <2>1. CASE c.op = "rx"
    <3>1. /\ global' = [global EXCEPT !.rx_total = @ + 1]
          /\ perSource' = [perSource EXCEPT ![c.src].rx_count = @ + 1]
      BY <1>2, <2>1 DEF Apply, RecordRx
    <3>2. /\ perSource'[c.src].rx_count = perSource[c.src].rx_count + 1
          /\ Lt(perSource', c.src) = Lt(perSource, c.src)
          /\ \A t \in Sources \ {c.src} : perSource'[t] = perSource[t]
          /\ global'.crc_fail_total = global.crc_fail_total
          /\ global'.malformed_total = global.malformed_total
      BY <1>4, <1>7, <3>1 DEF SourceStats, GlobalStats
    <3>3. CauseBeforeEffect'
      BY <1>4, <1>7, <3>2, CBEStep
    <3>4. PendingOK(q, global', perSource')
      <4>1. CASE Len(pending) = 1
        BY ONLY <1>3, <4>1, PendingOKEmpty
      <4>2. CASE Len(pending) = 2
        <5>1. /\ Len(q) = 1
              /\ q[1].op \in {"gap"} \cup AnomalyOps
              /\ q[1].src = c.src
              /\ q[1].op \in AnomalyOps => perSource[c.src].rx_count >= 1
          BY <1>3, <1>5, <2>1, <4>2
        <5>2. q[1].op \in AnomalyOps
                => Lt(perSource', c.src) + 1 < perSource'[c.src].rx_count
          BY <1>7, <3>2, <5>1
        <5>3. q[1].op # "crc_fail"
          BY <5>1 DEF AnomalyOps
        <5> QED  BY ONLY <5>1, <5>2, <5>3, PendingOKSingle
      <4> QED  BY <1>2, <4>1, <4>2
    <3>5. \A t \in Sources : trk[t].initialized => perSource'[t].rx_count >= 1
      BY <1>2, <1>4, <1>7, <3>2, TrackedStep
    <3> QED  BY <3>3, <3>4, <3>5
  <2>2. CASE c.op = "malformed"
    <3>1. /\ global' = [global EXCEPT !.malformed_total = @ + 1]
          /\ perSource' = [perSource EXCEPT ![c.src].malformed = @ + 1]
      BY <1>2, <2>2 DEF Apply, RecordMalformed
    <3>2. /\ perSource'[c.src].rx_count = perSource[c.src].rx_count
          /\ Lt(perSource', c.src) = Lt(perSource, c.src)
          /\ global'.crc_fail_total = global.crc_fail_total
          /\ global'.malformed_total = global.malformed_total + 1
          /\ \A t \in Sources \ {c.src} : perSource'[t] = perSource[t]
      BY <1>2, <1>4, <1>7, <3>1 DEF SourceStats, GlobalStats, StatsCallT, SeqNum
    <3>3. CauseBeforeEffect'
      BY <1>4, <1>7, <3>2, CBEStep
    <3>4. PendingOK(q, global', perSource')
      <4>1. CASE Len(pending) = 1
        BY ONLY <1>3, <4>1, PendingOKEmpty
      <4>2. CASE Len(pending) = 2
        <5>1. Len(q) = 1 /\ q[1].op = "crc_fail"
          BY <1>3, <1>5, <2>2, <4>2
        <5>2. global'.crc_fail_total < global'.malformed_total
          BY <1>7, <3>2
        <5>3. q[1].op \notin AnomalyOps
          BY <5>1 DEF AnomalyOps
        <5> QED  BY ONLY <5>1, <5>2, <5>3, PendingOKSingle
      <4> QED  BY <1>2, <4>1, <4>2
    <3>5. \A t \in Sources : trk[t].initialized => perSource'[t].rx_count >= 1
      <4>1. pending[1] # Call("rx", c.src, 0)
        BY <2>2 DEF Call
      <4> QED  BY <1>2, <1>4, <1>7, <3>2, <4>1, TrackedStep
    <3> QED  BY <3>3, <3>4, <3>5
  <2>3. CASE c.op = "gap"
    <3>1. /\ global' = [global EXCEPT !.gap_total = @ + c.n]
          /\ perSource' = [perSource EXCEPT ![c.src].gaps = @ + c.n]
      BY <1>2, <2>3 DEF Apply, RecordGap
    <3>2. /\ perSource'[c.src].rx_count = perSource[c.src].rx_count
          /\ Lt(perSource', c.src) = Lt(perSource, c.src)
          /\ global'.crc_fail_total = global.crc_fail_total
          /\ global'.malformed_total = global.malformed_total
          /\ \A t \in Sources \ {c.src} : perSource'[t] = perSource[t]
      BY <1>2, <1>4, <1>7, <3>1 DEF SourceStats, GlobalStats, StatsCallT, SeqNum
    <3>3. CauseBeforeEffect'
      BY <1>4, <1>7, <3>2, CBEStep
    <3>4. PendingOK(q, global', perSource')
      BY ONLY <1>8, <2>3, PendingOKEmpty
    <3>5. \A t \in Sources : trk[t].initialized => perSource'[t].rx_count >= 1
      <4>1. pending[1] # Call("rx", c.src, 0)
        BY <2>3 DEF Call
      <4> QED  BY <1>2, <1>4, <1>7, <3>2, <4>1, TrackedStep
    <3> QED  BY <3>3, <3>4, <3>5
  <2>4. CASE c.op = "reorder"
    <3>1. /\ global' = [global EXCEPT !.reorder_total = @ + 1]
          /\ perSource' = [perSource EXCEPT ![c.src].reorders = @ + 1]
      BY <1>2, <2>4 DEF Apply, RecordReorder
    <3>2. /\ perSource'[c.src].rx_count = perSource[c.src].rx_count
          /\ perSource'[c.src].reorders = perSource[c.src].reorders + 1
          /\ perSource'[c.src].duplicates = perSource[c.src].duplicates
          /\ global'.crc_fail_total = global.crc_fail_total
          /\ global'.malformed_total = global.malformed_total
          /\ \A t \in Sources \ {c.src} : perSource'[t] = perSource[t]
      <4>1. perSource'[c.src] = [perSource[c.src] EXCEPT !.reorders = @ + 1]
        BY <1>4, <1>7, <3>1
      <4>2. \A t \in Sources \ {c.src} : perSource'[t] = perSource[t]
        BY <1>4, <3>1
      <4>3. global'.crc_fail_total = global.crc_fail_total
            /\ global'.malformed_total = global.malformed_total
        BY <1>4, <3>1 DEF GlobalStats
      <4> QED  BY <1>7, <4>1, <4>2, <4>3 DEF SourceStats
    <3>3. CauseBeforeEffect'
      <4>1. Lt(perSource, c.src) + 1 < perSource[c.src].rx_count
        BY <1>9, <2>4 DEF AnomalyOps
      <4>2. perSource[c.src].reorders \in Nat /\ perSource[c.src].duplicates \in Nat
        BY <1>7 DEF SourceStats
      <4>3. Lt(perSource', c.src) = Lt(perSource, c.src) + 1
        BY <3>2, <4>2
      <4>4. /\ perSource'[c.src].rx_count > 0
            /\ Lt(perSource', c.src) < perSource'[c.src].rx_count
        BY <1>7, <3>2, <4>1, <4>3
      <4> QED  BY <1>4, <1>7, <3>2, <4>4, CBEStep
    <3>4. PendingOK(q, global', perSource')
      BY ONLY <1>8, <2>4, PendingOKEmpty
    <3>5. \A t \in Sources : trk[t].initialized => perSource'[t].rx_count >= 1
      <4>1. pending[1] # Call("rx", c.src, 0)
        BY <2>4 DEF Call
      <4> QED  BY <1>2, <1>4, <1>7, <3>2, <4>1, TrackedStep
    <3> QED  BY <3>3, <3>4, <3>5
  <2>5. CASE c.op = "duplicate"
    <3>1. /\ global' = [global EXCEPT !.duplicate_total = @ + 1]
          /\ perSource' = [perSource EXCEPT ![c.src].duplicates = @ + 1]
      BY <1>2, <2>5 DEF Apply, RecordDuplicate
    <3>2. /\ perSource'[c.src].rx_count = perSource[c.src].rx_count
          /\ perSource'[c.src].duplicates = perSource[c.src].duplicates + 1
          /\ perSource'[c.src].reorders = perSource[c.src].reorders
          /\ global'.crc_fail_total = global.crc_fail_total
          /\ global'.malformed_total = global.malformed_total
          /\ \A t \in Sources \ {c.src} : perSource'[t] = perSource[t]
      <4>1. perSource'[c.src] = [perSource[c.src] EXCEPT !.duplicates = @ + 1]
        BY <1>4, <1>7, <3>1
      <4>2. \A t \in Sources \ {c.src} : perSource'[t] = perSource[t]
        BY <1>4, <3>1
      <4>3. global'.crc_fail_total = global.crc_fail_total
            /\ global'.malformed_total = global.malformed_total
        BY <1>4, <3>1 DEF GlobalStats
      <4> QED  BY <1>7, <4>1, <4>2, <4>3 DEF SourceStats
    <3>3. CauseBeforeEffect'
      <4>1. Lt(perSource, c.src) + 1 < perSource[c.src].rx_count
        BY <1>9, <2>5 DEF AnomalyOps
      <4>2. perSource[c.src].reorders \in Nat /\ perSource[c.src].duplicates \in Nat
        BY <1>7 DEF SourceStats
      <4>3. Lt(perSource', c.src) = Lt(perSource, c.src) + 1
        BY <3>2, <4>2
      <4>4. /\ perSource'[c.src].rx_count > 0
            /\ Lt(perSource', c.src) < perSource'[c.src].rx_count
        BY <1>7, <3>2, <4>1, <4>3
      <4> QED  BY <1>4, <1>7, <3>2, <4>4, CBEStep
    <3>4. PendingOK(q, global', perSource')
      BY ONLY <1>8, <2>5, PendingOKEmpty
    <3>5. \A t \in Sources : trk[t].initialized => perSource'[t].rx_count >= 1
      <4>1. pending[1] # Call("rx", c.src, 0)
        BY <2>5 DEF Call
      <4> QED  BY <1>2, <1>4, <1>7, <3>2, <4>1, TrackedStep
    <3> QED  BY <3>3, <3>4, <3>5
  <2>6. CASE c.op = "crc_fail"
    <3>1. /\ global' = [global EXCEPT !.crc_fail_total = @ + 1]
          /\ perSource' = [perSource EXCEPT ![c.src].malformed = @ + 1]
      BY <1>2, <2>6 DEF Apply, RecordCrcFail
    <3>2. /\ perSource'[c.src].rx_count = perSource[c.src].rx_count
          /\ Lt(perSource', c.src) = Lt(perSource, c.src)
          /\ global'.crc_fail_total = global.crc_fail_total + 1
          /\ global'.malformed_total = global.malformed_total
          /\ \A t \in Sources \ {c.src} : perSource'[t] = perSource[t]
      BY <1>2, <1>4, <1>7, <3>1 DEF SourceStats, GlobalStats, StatsCallT, SeqNum
    <3>3. CauseBeforeEffect'
      <4>1. global'.crc_fail_total <= global'.malformed_total
        BY <1>7, <1>9, <2>6, <3>2
      <4> QED  BY <1>4, <1>7, <3>2, <4>1, CBEStep
    <3>4. PendingOK(q, global', perSource')
      BY ONLY <1>8, <2>6, PendingOKEmpty
    <3>5. \A t \in Sources : trk[t].initialized => perSource'[t].rx_count >= 1
      <4>1. pending[1] # Call("rx", c.src, 0)
        BY <2>6 DEF Call
      <4> QED  BY <1>2, <1>4, <1>7, <3>2, <4>1, TrackedStep
    <3> QED  BY <3>3, <3>4, <3>5
  <2> QED  BY <1>2, <2>1, <2>2, <2>3, <2>4, <2>5, <2>6 DEF StatsCallT, StatOps
<1> QED  BY <1>6, <1>10

\* Every step of the loop, and every stutter, keeps the strengthened invariant.
LEMMA IInvStep == IInv /\ [Next]_vars => IInv'
<1> SUFFICES ASSUME IInv, [Next]_vars PROVE IInv'
  OBVIOUS
<1>1. CASE \E s \in Sources, seq \in SeqNum, d \in Datagrams : ReceiveValid(s, seq, d)
  BY <1>1, IInvReceiveValid
<1>2. CASE \E d \in Datagrams : ReceiveMalformed(d)
  BY <1>2, IInvReceiveMalformed
<1>3. CASE StatsCall
  BY <1>3, IInvStatsCall
<1>4. CASE Stop \/ Exit \/ UNCHANGED vars
  BY <1>4, IInvStopExit
<1> QED  BY <1>1, <1>2, <1>3, <1>4 DEF Next

(***************************************************************************)
(* CauseBeforeEffect for every number of sources and datagrams and every   *)
(* frame bound: however process_frame's calls into the StatsManager are    *)
(* interleaved with the other steps of the loop, a source never has more   *)
(* reorders and duplicates recorded than frames received (none before its  *)
(* first frame), and the global CRC failures never exceed the global       *)
(* malformed count.  The invariant is not inductive on its own: the        *)
(* record_reorder / record_duplicate call that is still pending after      *)
(* record_rx needs the extra frame PendingInv records, and a source the    *)
(* tracker already knows has a frame counted or one pending (InitTracked). *)
(***************************************************************************)
THEOREM CauseBeforeEffectHolds == Spec => []CauseBeforeEffect
<1>1. IInv => CauseBeforeEffect
  BY DEF IInv
<1> QED  BY <1>1, IInvInit, IInvStep, PTL DEF Spec

(***************************************************************************)
(* get_health is monotone in the counters it tests: more malformed, CRC   *)
(* failures, gaps or reorders never give a better health.                  *)
(***************************************************************************)
LEMMA HealthRankMonotone ==
    ASSUME NEW g \in GlobalStats, NEW h \in GlobalStats,
           h.malformed_total >= g.malformed_total,
           h.crc_fail_total >= g.crc_fail_total,
           h.gap_total >= g.gap_total,
           h.reorder_total >= g.reorder_total
    PROVE  HealthRank(Health(h)) >= HealthRank(Health(g))
BY DEF Health, HealthRank, GlobalStats

\* Every step of the loop leaves each global counter as it was or raises it.
LEMMA GlobalGrows ==
    ASSUME TypeOK, [Next]_vars
    PROVE  /\ global'.malformed_total >= global.malformed_total
           /\ global'.crc_fail_total >= global.crc_fail_total
           /\ global'.gap_total >= global.gap_total
           /\ global'.reorder_total >= global.reorder_total
<1>1. global \in GlobalStats
  BY DEF TypeOK, StatsTypeOK
<1>2. CASE StatsCall
  <2> DEFINE c == Head(pending)
  <2>1. c \in StatsCallT /\ Apply(c)
    <3>1. pending \in Seq(StatsCallT) /\ pending # << >>
      BY <1>2 DEF StatsCall, TypeOK
    <3> QED  BY <1>2, <3>1, HeadTailProperties DEF StatsCall
  <2>2. c.n \in Nat
    BY <2>1 DEF StatsCallT, SeqNum
  <2>3. CASE c.op = "rx"
    <3>1. global' = [global EXCEPT !.rx_total = @ + 1]
      BY <2>1, <2>3 DEF Apply, RecordRx
    <3> QED  BY <1>1, <2>2, <3>1 DEF GlobalStats
  <2>4. CASE c.op = "malformed"
    <3>1. global' = [global EXCEPT !.malformed_total = @ + 1]
      BY <2>1, <2>4 DEF Apply, RecordMalformed
    <3> QED  BY <1>1, <2>2, <3>1 DEF GlobalStats
  <2>5. CASE c.op = "gap"
    <3>1. global' = [global EXCEPT !.gap_total = @ + c.n]
      BY <2>1, <2>5 DEF Apply, RecordGap
    <3> QED  BY <1>1, <2>2, <3>1 DEF GlobalStats
  <2>6. CASE c.op = "reorder"
    <3>1. global' = [global EXCEPT !.reorder_total = @ + 1]
      BY <2>1, <2>6 DEF Apply, RecordReorder
    <3> QED  BY <1>1, <2>2, <3>1 DEF GlobalStats
  <2>7. CASE c.op = "duplicate"
    <3>1. global' = [global EXCEPT !.duplicate_total = @ + 1]
      BY <2>1, <2>7 DEF Apply, RecordDuplicate
    <3> QED  BY <1>1, <2>2, <3>1 DEF GlobalStats
  <2>8. CASE c.op = "crc_fail"
    <3>1. global' = [global EXCEPT !.crc_fail_total = @ + 1]
      BY <2>1, <2>8 DEF Apply, RecordCrcFail
    <3> QED  BY <1>1, <2>2, <3>1 DEF GlobalStats
  <2> QED  BY <2>1, <2>3, <2>4, <2>5, <2>6, <2>7, <2>8 DEF StatsCallT, StatOps
<1>3. CASE ~StatsCall
  <2>1. global' = global
    BY <1>3 DEF Next, ReceiveValid, ReceiveMalformed, Stop, Exit, vars, statsVars
  <2> QED  BY <1>1, <2>1 DEF GlobalStats
<1> QED  BY <1>2, <1>3

(***************************************************************************)
(* HealthNeverImproves for every instance: no step of the gateway loop    *)
(* takes get_health back to a better state, so GET HEALTH replies, read   *)
(* at any moment, never go from ERROR or DEGRADED back to OK.             *)
(***************************************************************************)
THEOREM HealthNeverImprovesHolds == Spec => HealthNeverImproves
<1>1. TypeOK /\ [Next]_vars
        => [HealthRank(Health(global')) >= HealthRank(Health(global))]_vars
  <2> SUFFICES ASSUME TypeOK, [Next]_vars
               PROVE  HealthRank(Health(global')) >= HealthRank(Health(global))
    OBVIOUS
  <2>1. global \in GlobalStats /\ global' \in GlobalStats
    BY TypeStep DEF TypeOK, StatsTypeOK
  <2> QED  BY <2>1, GlobalGrows, HealthRankMonotone
<1> QED  BY <1>1, TypeCorrect, PTL DEF Spec, HealthNeverImproves

=============================================================================
