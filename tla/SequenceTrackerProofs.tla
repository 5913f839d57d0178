----------------------- MODULE SequenceTrackerProofs -----------------------
(***************************************************************************)
(* Proofs about the sequence tracker, for every number of sources, every   *)
(* window size and every modulus (the code's 64 and 2^32 included).        *)
(***************************************************************************)
EXTENDS SequenceTracker, TLAPS

USE TrackerAssumption

\* uint32_t arithmetic stays in the sequence space.
LEMMA U32Type ==
    ASSUME NEW x \in Int
    PROVE  U32(x) \in SeqNum
BY DEF U32, SeqNum

\* A bitset shift keeps the indices inside the window.
LEMMA ShiftLeftType ==
    ASSUME NEW w \in SUBSET Bits, NEW k \in Nat
    PROVE  ShiftLeft(w, k) \in SUBSET Bits
BY DEF ShiftLeft, Bits

\* The default-constructed SourceState is well formed.
LEMMA UntrackedType == Untracked \in SourceState
BY DEF Untracked, SourceState, SeqNum

(***************************************************************************)
(* Every branch of track leaves a well-formed SourceState: next_expected a *)
(* uint32_t value and the window a set of bit indices 0 .. WindowSize - 1. *)
(* The REORDER branch sets bit WindowSize - age, which is a bit index      *)
(* because that branch is only reached with 1 <= age <= WindowSize: seq is *)
(* neither next_expected nor above it.                                     *)
(***************************************************************************)
LEMMA TrackStateType ==
    ASSUME NEW st \in SourceState, NEW seq \in SeqNum
    PROVE  TrackState(st, seq) \in SourceState
<1> DEFINE ne == st.next_expected
           w == st.seen_window
<1>1. st.initialized \in BOOLEAN /\ ne \in SeqNum /\ w \in SUBSET Bits
  BY DEF SourceState
<1>2. U32(seq + 1) \in SeqNum
  BY U32Type DEF SeqNum
<1>3. CASE ~st.initialized
  <2>1. TrackState(st, seq)
          = [initialized |-> TRUE, next_expected |-> U32(seq + 1),
             seen_window |-> {}]
    BY <1>3 DEF TrackState
  <2> QED  BY <1>2, <2>1 DEF SourceState
<1>4. CASE st.initialized /\ seq = ne
  <2>1. TrackState(st, seq)
          = [st EXCEPT !.seen_window = ShiftLeft(w, 1) \cup {WindowSize - 1},
                       !.next_expected = U32(seq + 1)]
    BY <1>1, <1>4 DEF TrackState, SeqNum
  <2>2. ShiftLeft(w, 1) \cup {WindowSize - 1} \in SUBSET Bits
    BY <1>1, ShiftLeftType DEF Bits
  <2> QED  BY <1>2, <2>1, <2>2 DEF SourceState
<1>5. CASE st.initialized /\ seq # ne /\ seq > ne
  <2>1. TrackState(st, seq)
          = [st EXCEPT !.seen_window = AdvanceWindow(st, Gap(st, seq)),
                       !.next_expected = U32(seq + 1)]
    BY <1>1, <1>5 DEF TrackState, SeqNum
  <2>2. U32(Gap(st, seq) + 1) \in Nat
    BY <1>1, U32Type DEF Gap, SeqNum
  <2>3. AdvanceWindow(st, Gap(st, seq)) \in SUBSET Bits
    BY <1>1, <2>2, ShiftLeftType DEF AdvanceWindow, Bits
  <2> QED  BY <1>2, <2>1, <2>3 DEF SourceState
<1>6. CASE st.initialized /\ seq # ne /\ ~(seq > ne) /\ Age(st, seq) <= WindowSize
  <2>1. TrackState(st, seq)
          = [st EXCEPT !.seen_window = w \cup {WindowSize - Age(st, seq)}]
    BY <1>1, <1>6 DEF TrackState, SeqNum
  <2>2. Age(st, seq) = ne - seq
    BY <1>1, <1>6 DEF Age, U32, SeqNum
  <2>3. WindowSize - Age(st, seq) \in Bits
    BY <1>1, <1>6, <2>2 DEF Bits, SeqNum
  <2> QED  BY <1>1, <2>1, <2>3 DEF SourceState
<1>7. CASE st.initialized /\ seq # ne /\ ~(seq > ne) /\ ~(Age(st, seq) <= WindowSize)
  BY <1>7 DEF TrackState
<1> QED  BY <1>3, <1>4, <1>5, <1>6, <1>7

\* Every verdict of track is a well-formed SeqEvent.
LEMMA TrackEventType ==
    ASSUME NEW st \in SourceState, NEW src \in Sources, NEW seq \in SeqNum
    PROVE  TrackEvent(st, src, seq) \in SeqEvent
<1>1. st.next_expected \in SeqNum
  BY DEF SourceState
<1>2. Gap(st, seq) \in SeqNum /\ U32(seq - Gap(st, seq)) \in SeqNum
  BY <1>1, U32Type DEF Gap, SeqNum
<1>3. 0 \in SeqNum
  BY DEF SeqNum
<1> QED  BY <1>1, <1>2, <1>3 DEF TrackEvent, Event, SeqEvent, Results

(***************************************************************************)
(* The tracker's state stays well formed under every sequence of track,    *)
(* reset and reset_all calls, whatever sequence numbers arrive.            *)
(***************************************************************************)
THEOREM TrkTypeCorrect == TrkSpec => []TrkTypeOK
<1>1. TrkInit => TrkTypeOK
  <2>1. 0 \in SeqNum /\ NoEvent \in SeqEvent \cup {NoEvent}
    BY DEF SeqNum
  <2> QED  BY <2>1, UntrackedType DEF TrkInit, TrkTypeOK
<1>2. TrkTypeOK /\ [TrkNext]_trkVars => TrkTypeOK'
  <2> SUFFICES ASSUME TrkTypeOK, [TrkNext]_trkVars PROVE TrkTypeOK'
    OBVIOUS
  <2>1. ASSUME NEW s \in Sources, NEW seq \in SeqNum, Track(s, seq)
        PROVE  TrkTypeOK'
    <3>1. trk[s] \in SourceState
      BY DEF TrkTypeOK
    <3>2. TrackState(trk[s], seq) \in SourceState
      BY <3>1, TrackStateType
    <3>3. TrackEvent(trk[s], s, seq) \in SeqEvent
      BY <3>1, TrackEventType
    <3> QED  BY <2>1, <3>2, <3>3 DEF Track, TrkTypeOK
  <2>2. ASSUME NEW s \in Sources, Reset(s) PROVE TrkTypeOK'
    BY <2>2, UntrackedType DEF Reset, TrkTypeOK
  <2>3. ASSUME ResetAll PROVE TrkTypeOK'
    BY <2>3, UntrackedType DEF ResetAll, TrkTypeOK
  <2>4. CASE UNCHANGED trkVars
    BY <2>4 DEF trkVars, TrkTypeOK
  <2> QED  BY <2>1, <2>2, <2>3, <2>4 DEF TrkNext
<1> QED  BY <1>1, <1>2, PTL DEF TrkSpec

=============================================================================
