----------------------- MODULE SequenceAccountingProofs -----------------------
(***************************************************************************)
(* Proof that the gateway's statistics account for every sequence number  *)
(* the tracker has moved past (SequenceAccounting), for every set of      *)
(* sources, every window size and modulus and every bound on the frames.  *)
(*                                                                         *)
(* SequenceAccounting speaks only of the moments between frames.  While   *)
(* process_frame's StatsManager calls are pending, the tracker has moved  *)
(* and the counters have not caught up yet; the strengthening counts the  *)
(* pending calls as if they were made.                                     *)
(***************************************************************************)
EXTENDS GatewayProofs

USE TrackerAssumption, GatewayAssumption

\* What one StatsManager call adds to next_expected's account of source s.
CallDelta(c, s) ==
    IF c.src # s THEN 0
    ELSE CASE c.op = "rx"        -> 1
           [] c.op = "gap"       -> c.n
           [] c.op = "reorder"   -> -1
           [] c.op = "duplicate" -> -1
           [] OTHER              -> 0

\* The same for the calls still pending (at most two, by PendingInv).
PendDelta(s) ==
    (IF Len(pending) >= 1 THEN CallDelta(pending[1], s) ELSE 0)
      + (IF Len(pending) >= 2 THEN CallDelta(pending[2], s) ELSE 0)

\* What a verdict of track adds to the account beyond its record_rx.
EvDelta(ev) ==
    CASE ev.result = "GAP"                       -> ev.gap_size
      [] ev.result \in {"REORDER", "DUPLICATE"} -> -1
      [] OTHER                                   -> 0

\* The counters of a source that move next_expected.
Counted(ps) == ps.rx_count - ps.reorders - ps.duplicates + ps.gaps

\* next_expected's account of s: the FIRST frame's number, plus the counters.
Acct(s) == firstSeq[s] + Counted(perSource[s]) + PendDelta(s)

(***************************************************************************)
(* The strengthening.  A source the tracker knows has next_expected equal *)
(* to its account modulo 2^32, pending calls included; a source it does   *)
(* not know has no frame counted and none pending.                         *)
(***************************************************************************)
AcctInv ==
    \A s \in Sources :
        trk[s].initialized => trk[s].next_expected = U32(Acct(s))

FreshInv ==
    \A s \in Sources :
        ~trk[s].initialized =>
            /\ perSource[s].rx_count = 0
            /\ perSource[s].gaps = 0
            /\ perSource[s].reorders = 0
            /\ perSource[s].duplicates = 0
            /\ \A i \in 1 .. Len(pending) :
                   pending[i].src = s => pending[i].op \in {"malformed", "crc_fail"}

AInv == IInv /\ AcctInv /\ FreshInv

-----------------------------------------------------------------------------

\* The modulus of uint32_t arithmetic is positive.
LEMMA SeqModPos == SeqMod \in Nat \ {0}
BY DEF SeqNum

\* What x % m and x \div m are, for a positive modulus m.
LEMMA DivModDef ==
    ASSUME NEW m \in Nat \ {0}, NEW x \in Int
    PROVE  x % m = x - m * (x \div m) /\ x \div m \in Int
BY SMT

LEMMA ModRange ==
    ASSUME NEW m \in Nat \ {0}, NEW x \in Int
    PROVE  x % m \in 0 .. m - 1
BY SMT

\* The residue is the r in 0 .. m - 1 with x = k * m + r.
LEMMA ModUnique ==
    ASSUME NEW m \in Nat \ {0}, NEW x \in Int, NEW k \in Int, NEW r \in 0 .. m - 1,
           x = k * m + r
    PROVE  x % m = r
BY SMT

\* uint32_t arithmetic: reducing an operand first does not change the sum.
LEMMA U32Shift ==
    ASSUME NEW a \in Int, NEW c \in Int
    PROVE  U32(U32(a) + c) = U32(a + c)
<1>1. SeqMod \in Nat \ {0}
  BY SeqModPos
<1>2. PICK q \in Int : a % SeqMod = a - SeqMod * q
  BY <1>1, DivModDef
<1>3. PICK p \in Int : ((a % SeqMod) + c) % SeqMod = ((a % SeqMod) + c) - SeqMod * p
  <2>1. (a % SeqMod) + c \in Int
    BY <1>1, ModRange
  <2> QED  BY <1>1, <2>1, DivModDef
<1>4. ((a % SeqMod) + c) % SeqMod \in 0 .. SeqMod - 1
  BY <1>1, <1>3
<1>5. a + c = (q + p) * SeqMod + (((a % SeqMod) + c) % SeqMod)
  <2>1. a % SeqMod \in Int /\ ((a % SeqMod) + c) % SeqMod \in Int /\ SeqMod \in Int
    BY <1>1, <1>4, ModRange
  <2>2. \A r, s \in Int : r = a - SeqMod * q /\ s = (r + c) - SeqMod * p
                           => a + c = (q + p) * SeqMod + s
    BY <1>1
  <2> QED  BY <1>2, <1>3, <2>1, <2>2, Zenon
<1>6. q + p \in Int
  BY <1>2, <1>3
<1>7. (a + c) % SeqMod = ((a % SeqMod) + c) % SeqMod
  <2>1. a + c \in Int
    OBVIOUS
  <2> QED  BY <1>1, <1>4, <1>5, <1>6, <2>1, ModUnique, Zenon
<1> QED  BY <1>7 DEF U32

\* A number already reduced is its own residue.
LEMMA U32Id ==
    ASSUME NEW x \in SeqNum
    PROVE  U32(x) = x
BY SeqModPos DEF U32, SeqNum

(***************************************************************************)
(* One StatsManager call moves the account of its own source by its      *)
(* delta and leaves every other source's counters alone; record_malformed *)
(* and record_crc_fail move no counter of the account.                     *)
(***************************************************************************)
LEMMA ApplyCounted ==
    ASSUME StatsTypeOK, NEW c \in StatsCallT, Apply(c), NEW t \in Sources
    PROVE  /\ Counted(perSource'[t]) = Counted(perSource[t]) + CallDelta(c, t)
           /\ (c.src # t \/ c.op \in {"malformed", "crc_fail"}) =>
                 /\ perSource'[t].rx_count = perSource[t].rx_count
                 /\ perSource'[t].gaps = perSource[t].gaps
                 /\ perSource'[t].reorders = perSource[t].reorders
                 /\ perSource'[t].duplicates = perSource[t].duplicates
<1>1. /\ c.src \in Sources /\ c.n \in Nat /\ c.op \in StatOps
      /\ perSource[t] \in SourceStats /\ perSource[c.src] \in SourceStats
  BY DEF StatsCallT, SeqNum, StatsTypeOK
<1>2. CASE c.op = "rx"
  BY <1>1, <1>2 DEF Apply, RecordRx, StatsTypeOK, SourceStats, Counted, CallDelta
<1>3. CASE c.op = "malformed"
  BY <1>1, <1>3 DEF Apply, RecordMalformed, StatsTypeOK, SourceStats, Counted,
                    CallDelta
<1>4. CASE c.op = "gap"
  BY <1>1, <1>4 DEF Apply, RecordGap, StatsTypeOK, SourceStats, Counted, CallDelta
<1>5. CASE c.op = "reorder"
  BY <1>1, <1>5 DEF Apply, RecordReorder, StatsTypeOK, SourceStats, Counted,
                    CallDelta
<1>6. CASE c.op = "duplicate"
  BY <1>1, <1>6 DEF Apply, RecordDuplicate, StatsTypeOK, SourceStats, Counted,
                    CallDelta
<1>7. CASE c.op = "crc_fail"
  BY <1>1, <1>7 DEF Apply, RecordCrcFail, StatsTypeOK, SourceStats, Counted,
                    CallDelta
<1> QED  BY <1>1, <1>2, <1>3, <1>4, <1>5, <1>6, <1>7 DEF StatOps

(***************************************************************************)
(* For a source it knows, track moves next_expected by one for the frame   *)
(* itself plus what its verdict reports: the gap size for a GAP, minus    *)
(* one (not at all) for a late frame.  For a new source it starts at the  *)
(* frame's number plus one and reports FIRST.                              *)
(***************************************************************************)
LEMMA TrackAccount ==
    ASSUME NEW st \in SourceState, NEW src \in Sources, NEW seq \in SeqNum
    PROVE  /\ TrackState(st, seq).initialized
           /\ st.initialized =>
                TrackState(st, seq).next_expected
                  = U32(st.next_expected + (1 + EvDelta(TrackEvent(st, src, seq))))
           /\ ~st.initialized =>
                /\ TrackState(st, seq).next_expected = U32(seq + 1)
                /\ TrackEvent(st, src, seq).result = "FIRST"
<1> DEFINE ne == st.next_expected
           ev == TrackEvent(st, src, seq)
<1>1. st.initialized \in BOOLEAN /\ ne \in SeqNum /\ SeqMod \in Nat \ {0}
  BY SeqModPos DEF SourceState
<1>2. CASE ~st.initialized
  BY <1>2 DEF TrackState, TrackEvent, Event
<1>3. CASE st.initialized /\ seq = ne
  <2>1. TrackState(st, seq)
          = [st EXCEPT !.seen_window = ShiftLeft(@, 1) \cup {WindowSize - 1},
                       !.next_expected = U32(seq + 1)]
    BY <1>1, <1>3 DEF TrackState, SeqNum
  <2>2. ev.result = "OK"
    BY <1>1, <1>3 DEF TrackEvent, Event, SeqNum
  <2>3. EvDelta(ev) = 0
    BY <2>2 DEF EvDelta
  <2>4. ne + (1 + 0) = seq + 1
    BY <1>1, <1>3 DEF SeqNum
  <2> QED  BY <1>3, <2>1, <2>3, <2>4 DEF SourceState
<1>4. CASE st.initialized /\ seq # ne /\ seq > ne
  <2>1. Gap(st, seq) = seq - ne
    BY <1>1, <1>4, U32Id DEF Gap, SeqNum
  <2>2. /\ TrackState(st, seq).next_expected = U32(seq + 1)
        /\ TrackState(st, seq).initialized
        /\ ev.result = "GAP" /\ ev.gap_size = Gap(st, seq)
    BY <1>1, <1>4 DEF TrackState, TrackEvent, Event, SeqNum
  <2>3. EvDelta(ev) = seq - ne
    BY <2>1, <2>2 DEF EvDelta
  <2> QED  BY <1>1, <1>4, <2>2, <2>3 DEF SeqNum
<1>5. CASE st.initialized /\ seq # ne /\ ~(seq > ne)
  <2>1. /\ TrackState(st, seq).next_expected = ne
        /\ TrackState(st, seq).initialized
    BY <1>1, <1>5 DEF TrackState, SeqNum
  <2>2. ev.result \in {"REORDER", "DUPLICATE"}
    <3>1. seq < ne
      BY <1>1, <1>5 DEF SeqNum
    <3>2. CASE Age(st, seq) <= WindowSize /\ (WindowSize - Age(st, seq)) \in st.seen_window
      BY <1>5, <3>1, <3>2 DEF TrackEvent, Event
    <3>3. CASE ~(Age(st, seq) <= WindowSize /\ (WindowSize - Age(st, seq)) \in st.seen_window)
      BY <1>5, <3>1, <3>3 DEF TrackEvent, Event
    <3> QED  BY <3>2, <3>3
  <2>3. EvDelta(ev) = -1
    BY <2>2 DEF EvDelta
  <2>4. U32(ne + (1 + -1)) = ne
    <3>1. ne + (1 + -1) = ne
      BY <1>1 DEF SeqNum
    <3> QED  BY <1>1, <3>1, U32Id
  <2> QED  BY <1>5, <2>1, <2>3, <2>4
<1> QED  BY <1>1, <1>2, <1>3, <1>4, <1>5

\* The calls queued for a parsed frame move the account of its source by
\* one for record_rx plus what the verdict reports, and no other source's.
LEMMA ValidDelta ==
    ASSUME NEW ev \in SeqEvent, NEW t \in Sources
    PROVE  LET vc == ValidCalls(ev) IN
             (IF Len(vc) >= 1 THEN CallDelta(vc[1], t) ELSE 0)
               + (IF Len(vc) >= 2 THEN CallDelta(vc[2], t) ELSE 0)
             = IF ev.src_id = t THEN 1 + EvDelta(ev) ELSE 0
<1>1. ev.src_id \in Sources /\ ev.gap_size \in SeqNum
  BY DEF SeqEvent
<1>2. CASE ev.result = "GAP"
  BY <1>1, <1>2 DEF ValidCalls, AnomalyCalls, Call, CallDelta, EvDelta, SeqNum
<1>3. CASE ev.result \in {"REORDER", "DUPLICATE"}
  BY <1>1, <1>3 DEF ValidCalls, AnomalyCalls, Call, CallDelta, EvDelta
<1>4. CASE ev.result \notin {"GAP", "REORDER", "DUPLICATE"}
  BY <1>1, <1>4 DEF ValidCalls, AnomalyCalls, Call, CallDelta, EvDelta
<1> QED  BY <1>2, <1>3, <1>4

\* With nothing pending, no account has a pending part.
LEMMA PendDeltaEmpty ==
    ASSUME pending = << >>, NEW t
    PROVE  PendDelta(t) = 0
BY DEF PendDelta

\* What a call adds to an account is an integer.
LEMMA CallDeltaType ==
    ASSUME NEW c \in StatsCallT, NEW t
    PROVE  CallDelta(c, t) \in Int
<1>1. c.n \in Nat
  BY DEF StatsCallT, SeqNum
<1>2. CASE c.src = t /\ c.op = "gap"
  BY <1>1, <1>2 DEF CallDelta
<1>3. CASE c.src = t /\ c.op # "gap"
  BY <1>3 DEF CallDelta
<1>4. CASE c.src # t
  BY <1>4 DEF CallDelta
<1> QED  BY <1>2, <1>3, <1>4

\* The account of a source is an integer.
LEMMA AcctType ==
    ASSUME TypeOK, PendingInv, NEW t \in Sources
    PROVE  /\ Acct(t) \in Int
           /\ Counted(perSource[t]) \in Int
           /\ PendDelta(t) \in Int
<1>1. perSource[t] \in SourceStats /\ firstSeq[t] \in SeqNum
  BY DEF TypeOK, StatsTypeOK, TrkTypeOK
<1>2. Counted(perSource[t]) \in Int
  BY <1>1 DEF Counted, SourceStats
<1>3. \A i \in 1 .. Len(pending) : CallDelta(pending[i], t) \in Int
  <2> SUFFICES ASSUME NEW i \in 1 .. Len(pending) PROVE CallDelta(pending[i], t) \in Int
    OBVIOUS
  <2>1. pending[i] \in StatsCallT
    BY DEF TypeOK
  <2> QED  BY <2>1, CallDeltaType
<1>4. PendDelta(t) \in Int
  BY <1>3 DEF PendDelta, PendingInv, PendingOK
<1> QED  BY <1>1, <1>2, <1>4 DEF Acct, SeqNum

LEMMA AInvInit == Init => AInv
<1> SUFFICES ASSUME Init PROVE AInv
  OBVIOUS
<1>1. IInv
  BY IInvInit
<1>2. \A t \in Sources : ~trk[t].initialized /\ perSource[t] = ZeroSource
  BY DEF Init, TrkInit, Untracked, StatsInit
<1> QED  BY <1>1, <1>2 DEF AInv, AcctInv, FreshInv, Init, ZeroSource

(***************************************************************************)
(* A parsed frame: track moves next_expected, and the calls it queues     *)
(* (record_rx, then the anomaly counter) carry exactly that move into the *)
(* account's pending part.                                                 *)
(***************************************************************************)
LEMMA AInvReceiveValid ==
    ASSUME AInv, NEW s \in Sources, NEW seq \in SeqNum, NEW d \in Datagrams,
           ReceiveValid(s, seq, d)
    PROVE  AcctInv' /\ FreshInv'
<1> DEFINE ev == TrackEvent(trk[s], s, seq)
<1>1. /\ pending = << >>
      /\ pending' = ValidCalls(ev)
      /\ trk' = [trk EXCEPT ![s] = TrackState(trk[s], seq)]
      /\ firstSeq' = IF trk[s].initialized THEN firstSeq
                                           ELSE [firstSeq EXCEPT ![s] = seq]
      /\ perSource' = perSource
  BY DEF ReceiveValid, LoopReady, Track, statsVars
<1>2. /\ IInv /\ AcctInv /\ FreshInv
      /\ trk \in [Sources -> SourceState] /\ firstSeq \in [Sources -> SeqNum]
      /\ perSource \in [Sources -> SourceStats]
  BY DEF AInv, IInv, TypeOK, TrkTypeOK, StatsTypeOK
<1>3. /\ ev \in SeqEvent /\ ev.src_id = s
      /\ Len(ValidCalls(ev)) \in {1, 2}
      /\ \A i \in 1 .. Len(ValidCalls(ev)) : ValidCalls(ev)[i].src = s
  <2>1. ev \in SeqEvent /\ ev.src_id = s
    BY <1>2, TrackEventType, LateVerdictNeedsFirst
  <2>2. /\ ValidCalls(ev) \in Seq(StatsCallT)
        /\ Len(ValidCalls(ev)) \in {1, 2}
        /\ ValidCalls(ev)[1] = Call("rx", s, 0)
        /\ Len(ValidCalls(ev)) = 2 => ValidCalls(ev)[2].src = s
    <3>1. ev \in SeqEvent
      BY <2>1
    <3> QED  BY <2>1, <3>1, ValidCallsShape, Zenon
  <2>3. \A i \in 1 .. Len(ValidCalls(ev)) : i \in {1, 2}
    <3>1. \A n \in {1, 2} : \A i \in 1 .. n : i \in {1, 2}
      OBVIOUS
    <3> QED  BY <2>2, <3>1, Zenon
  <2> QED  BY <2>1, <2>2, <2>3 DEF Call
<1>4. \A t \in Sources : PendDelta(t) = 0
  BY <1>1, PendDeltaEmpty
<1>5. \A t \in Sources : PendDelta(t)' = IF t = s THEN 1 + EvDelta(ev) ELSE 0
  BY <1>1, <1>3, ValidDelta DEF PendDelta
<1>6. \A t \in Sources \ {s} : trk'[t] = trk[t] /\ firstSeq'[t] = firstSeq[t]
  BY <1>1, <1>2
<1>7. AcctInv'
  <2> SUFFICES ASSUME NEW t \in Sources, trk'[t].initialized
               PROVE  trk'[t].next_expected = U32(Acct(t))'
    BY DEF AcctInv
  <2>1. CASE t # s
    BY <1>1, <1>4, <1>5, <1>6, <1>2, <2>1 DEF AcctInv, Acct
  <2>2. CASE t = s /\ trk[s].initialized
    <3>1. trk'[s].next_expected = U32(trk[s].next_expected + (1 + EvDelta(ev)))
      BY <1>1, <1>2, <2>2, TrackAccount
    <3>3. /\ Acct(s) \in Int /\ Counted(perSource[s]) \in Int /\ PendDelta(s) \in Int
          /\ EvDelta(ev) \in Int
      <4>1. Acct(s) \in Int /\ Counted(perSource[s]) \in Int /\ PendDelta(s) \in Int
        BY <1>2, AcctType DEF IInv
      <4>2. ev.gap_size \in SeqNum
        BY <1>3 DEF SeqEvent
      <4>3. EvDelta(ev) \in Int
        BY <4>2 DEF EvDelta, SeqNum
      <4> QED  BY <4>1, <4>3
    <3>2. Acct(s)' = Acct(s) + (1 + EvDelta(ev))
      <4>1. firstSeq'[s] = firstSeq[s] /\ perSource'[s] = perSource[s]
        BY <1>1, <2>2
      <4>2. PendDelta(s)' = 1 + EvDelta(ev) /\ PendDelta(s) = 0
        BY <1>4, <1>5
      <4>3. firstSeq[s] \in Int
        BY <1>2 DEF SeqNum
      <4> QED  BY <3>3, <4>1, <4>2, <4>3 DEF Acct
    <3>4. trk[s].next_expected = U32(Acct(s))
      BY <1>2, <2>2 DEF AcctInv
    <3>5. U32(U32(Acct(s)) + (1 + EvDelta(ev))) = U32(Acct(s) + (1 + EvDelta(ev)))
      BY <3>3, U32Shift
    <3>6. trk'[s].next_expected = U32(Acct(s)')
      BY <3>1, <3>2, <3>4, <3>5, Zenon
    <3> QED  BY <2>2, <3>6 DEF U32
  <2>3. CASE t = s /\ ~trk[s].initialized
    <3>1. /\ trk'[s].next_expected = U32(seq + 1)
          /\ ev.result = "FIRST"
      BY <1>1, <1>2, <2>3, TrackAccount
    <3>2. EvDelta(ev) = 0
      BY <3>1 DEF EvDelta
    <3>3. firstSeq'[s] = seq
      BY <1>1, <1>2, <2>3
    <3>4. Counted(perSource[s]) = 0
      BY <1>2, <2>3 DEF FreshInv, Counted
    <3>5. Acct(s)' = seq + 1
      BY <1>1, <1>5, <2>3, <3>2, <3>3, <3>4 DEF Acct, SeqNum
    <3> QED  BY <2>3, <3>1, <3>5
  <2> QED  BY <2>1, <2>2, <2>3
<1>8. FreshInv'
  <2> SUFFICES ASSUME NEW t \in Sources, ~trk'[t].initialized
               PROVE  /\ perSource'[t].rx_count = 0
                      /\ perSource'[t].gaps = 0
                      /\ perSource'[t].reorders = 0
                      /\ perSource'[t].duplicates = 0
                      /\ \A i \in 1 .. Len(pending') :
                            pending'[i].src = t
                              => pending'[i].op \in {"malformed", "crc_fail"}
    BY DEF FreshInv
  <2>1. t # s
    BY <1>1, <1>2, TrackAccount
  <2>2. ~trk[t].initialized
    BY <1>6, <2>1
  <2> QED  BY <1>1, <1>2, <1>3, <2>1, <2>2 DEF FreshInv
<1> QED  BY <1>7, <1>8

\* A rejected datagram queues calls that move no account.
LEMMA AInvReceiveMalformed ==
    ASSUME AInv, NEW d \in Datagrams, ReceiveMalformed(d)
    PROVE  AcctInv' /\ FreshInv'
<1> DEFINE mc == MalformedCalls(ParseFrame(d, CrcEnabled))
<1>1. /\ pending = << >> /\ pending' = mc
      /\ UNCHANGED <<trk, firstSeq, perSource>>
  BY DEF ReceiveMalformed, LoopReady, trkVars, statsVars
<1>2. /\ mc \in Seq(StatsCallT) /\ Len(mc) \in {1, 2}
      /\ \A i \in 1 .. Len(mc) : mc[i].op \in {"malformed", "crc_fail"}
  <2>1. /\ mc \in Seq(StatsCallT) /\ Len(mc) \in {1, 2}
        /\ mc[1].op = "malformed"
        /\ Len(mc) = 2 => mc[2].op = "crc_fail"
    BY MalformedCallsShape
  <2>2. \A i \in 1 .. Len(mc) : i \in {1, 2}
    <3>1. \A n \in {1, 2} : \A i \in 1 .. n : i \in {1, 2}
      OBVIOUS
    <3> QED  BY <2>1, <3>1, Zenon
  <2> QED  BY <2>1, <2>2
<1>3. \A t \in Sources : PendDelta(t)' = 0 /\ PendDelta(t) = 0
  BY <1>1, <1>2, PendDeltaEmpty DEF PendDelta, CallDelta
<1>4. AcctInv'
  BY <1>1, <1>3 DEF AInv, AcctInv, Acct
<1>5. FreshInv'
  BY <1>1, <1>2 DEF AInv, FreshInv
<1> QED  BY <1>4, <1>5

(***************************************************************************)
(* The next StatsManager call moves its delta from the pending part of    *)
(* the account into the counters: the account itself does not change.    *)
(***************************************************************************)
LEMMA AInvStatsCall ==
    ASSUME AInv, StatsCall
    PROVE  AcctInv' /\ FreshInv'
<1> DEFINE c == Head(pending)
<1>1. /\ pending # << >> /\ Apply(c) /\ pending' = Tail(pending)
      /\ UNCHANGED <<trk, firstSeq>>
  BY DEF StatsCall, trkVars
<1>2. /\ IInv /\ AcctInv /\ FreshInv /\ StatsTypeOK
      /\ pending \in Seq(StatsCallT) /\ Len(pending) \in {1, 2}
  <2>1. Len(pending) # 0
    BY <1>1 DEF AInv, IInv, TypeOK
  <2> QED  BY <2>1 DEF AInv, IInv, TypeOK, PendingInv, PendingOK
<1>3. /\ c \in StatsCallT /\ c = pending[1]
      /\ Tail(pending) \in Seq(StatsCallT)
      /\ Len(pending) = 1 => Len(Tail(pending)) = 0
      /\ Len(pending) = 2 => Len(Tail(pending)) = 1 /\ Tail(pending)[1] = pending[2]
  BY <1>2, TailOfShort
<1>4. \A t \in Sources : PendDelta(t) = CallDelta(c, t) + PendDelta(t)'
  <2> SUFFICES ASSUME NEW t \in Sources
               PROVE  PendDelta(t) = CallDelta(c, t) + PendDelta(t)'
    OBVIOUS
  <2>1. CallDelta(c, t) \in Int
    BY <1>2, <1>3, CallDeltaType
  <2>2. CASE Len(pending) = 1
    BY <1>1, <1>3, <2>1, <2>2 DEF PendDelta
  <2>3. CASE Len(pending) = 2
    <3>1. pending[2] \in StatsCallT
      <4>1. 2 \in 1 .. Len(pending)
        BY <2>3
      <4> QED  BY <1>2, <4>1
    <3>2. CallDelta(pending[2], t) \in Int
      BY <3>1, CallDeltaType
    <3>3. PendDelta(t)' = CallDelta(pending[2], t)
      <4>1. PendDelta(t)' = (IF Len(pending') >= 1 THEN CallDelta(pending'[1], t) ELSE 0)
                            + (IF Len(pending') >= 2 THEN CallDelta(pending'[2], t) ELSE 0)
        BY DEF PendDelta
      <4>2. Len(pending') = 1 /\ pending'[1] = pending[2]
        BY <1>1, <1>3, <2>3
      <4> QED  BY <4>1, <4>2, <3>2
    <3>4. PendDelta(t) = CallDelta(c, t) + CallDelta(pending[2], t)
      BY <1>3, <2>1, <2>3, <3>2 DEF PendDelta
    <3> QED  BY <2>1, <3>2, <3>3, <3>4
  <2> QED  BY <1>2, <2>2, <2>3
<1>5. AcctInv'
  <2> SUFFICES ASSUME NEW t \in Sources, trk[t].initialized
               PROVE  trk[t].next_expected = U32(Acct(t)')
    BY <1>1 DEF AcctInv, U32
  <2>1. Counted(perSource'[t]) = Counted(perSource[t]) + CallDelta(c, t)
    BY <1>1, <1>2, <1>3, ApplyCounted
  <2>2. /\ Counted(perSource[t]) \in Int /\ CallDelta(c, t) \in Int
        /\ PendDelta(t) \in Int /\ firstSeq[t] \in Int
    BY <1>2, <1>3, AcctType, CallDeltaType DEF IInv, TypeOK, TrkTypeOK, SeqNum
  <2>3. Acct(t)' = Acct(t)
    <3>1. PendDelta(t)' \in Int
      BY <1>1, <1>3, CallDeltaType DEF PendDelta
    <3>2. PendDelta(t) = CallDelta(c, t) + PendDelta(t)'
      BY <1>4
    <3> QED  BY <1>1, <2>1, <2>2, <3>1, <3>2 DEF Acct
  <2> QED  BY <1>2, <2>3 DEF AcctInv
<1>6. FreshInv'
  <2> SUFFICES ASSUME NEW t \in Sources, ~trk[t].initialized
               PROVE  /\ perSource'[t].rx_count = 0
                      /\ perSource'[t].gaps = 0
                      /\ perSource'[t].reorders = 0
                      /\ perSource'[t].duplicates = 0
                      /\ \A i \in 1 .. Len(pending') :
                            pending'[i].src = t
                              => pending'[i].op \in {"malformed", "crc_fail"}
    BY <1>1 DEF FreshInv
  <2>1. c.src # t \/ c.op \in {"malformed", "crc_fail"}
    BY <1>2, <1>3 DEF FreshInv
  <2>2. /\ perSource'[t].rx_count = perSource[t].rx_count
        /\ perSource'[t].gaps = perSource[t].gaps
        /\ perSource'[t].reorders = perSource[t].reorders
        /\ perSource'[t].duplicates = perSource[t].duplicates
    BY <1>1, <1>2, <1>3, <2>1, ApplyCounted
  <2>3. \A i \in 1 .. Len(pending') : Len(pending) = 2 /\ pending'[i] = pending[2]
    BY <1>1, <1>2, <1>3
  <2>4. Len(pending) = 2 => (pending[2].src = t => pending[2].op \in {"malformed", "crc_fail"})
    BY <1>2 DEF FreshInv
  <2> QED  BY <1>2, <2>2, <2>3, <2>4 DEF FreshInv
<1> QED  BY <1>5, <1>6

\* stop() and the loop's exit touch neither the tracker, the counters nor
\* the queue.
LEMMA AInvStopExit ==
    ASSUME AInv, Stop \/ Exit \/ UNCHANGED vars
    PROVE  AcctInv' /\ FreshInv'
<1>1. UNCHANGED <<trk, firstSeq, perSource, pending>>
  BY DEF Stop, Exit, vars, trkVars, statsVars, gwVars
<1> QED  BY <1>1 DEF AInv, AcctInv, FreshInv, Acct, PendDelta, Counted

LEMMA AInvStep == AInv /\ [Next]_vars => AInv'
<1> SUFFICES ASSUME AInv, [Next]_vars PROVE AInv'
  OBVIOUS
<1>1. IInv'
  BY IInvStep DEF AInv
<1>2. CASE \E s \in Sources, seq \in SeqNum, d \in Datagrams : ReceiveValid(s, seq, d)
  BY <1>1, <1>2, AInvReceiveValid DEF AInv
<1>3. CASE \E d \in Datagrams : ReceiveMalformed(d)
  BY <1>1, <1>3, AInvReceiveMalformed DEF AInv
<1>4. CASE StatsCall
  BY <1>1, <1>4, AInvStatsCall DEF AInv
<1>5. CASE Stop \/ Exit \/ UNCHANGED vars
  BY <1>1, <1>5, AInvStopExit DEF AInv
<1> QED  BY <1>2, <1>3, <1>4, <1>5 DEF Next

(***************************************************************************)
(* SequenceAccounting for every instance: between frames, next_expected  *)
(* of every source the tracker knows is its FIRST frame's number plus the *)
(* frames that advanced it plus every sequence number reported lost in a  *)
(* GAP, modulo 2^32.  The counters record_rx, record_reorder,             *)
(* record_duplicate and record_gap keep therefore account for the         *)
(* tracker's state exactly, whatever datagrams arrive, lost, duplicated,  *)
(* reordered or wrapping the counter.                                      *)
(***************************************************************************)
THEOREM SequenceAccountingHolds == Spec => []SequenceAccounting
<1>1. AInv => SequenceAccounting
  <2> SUFFICES ASSUME AInv, pending = << >>, NEW s \in Sources, trk[s].initialized
               PROVE  trk[s].next_expected
                        = U32(firstSeq[s] + perSource[s].rx_count - perSource[s].reorders
                              - perSource[s].duplicates + perSource[s].gaps)
    BY DEF SequenceAccounting
  <2>1. perSource[s] \in SourceStats /\ firstSeq[s] \in SeqNum
    BY DEF AInv, IInv, TypeOK, TrkTypeOK, StatsTypeOK
  <2>2. Acct(s) = firstSeq[s] + perSource[s].rx_count - perSource[s].reorders
                    - perSource[s].duplicates + perSource[s].gaps
    BY <2>1, PendDeltaEmpty DEF Acct, Counted, SourceStats, SeqNum
  <2> QED  BY <2>2 DEF AInv, AcctInv
<1> QED  BY AInvInit, AInvStep, <1>1, PTL DEF Spec

=============================================================================
