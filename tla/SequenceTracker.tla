-------------------------- MODULE SequenceTracker --------------------------
(***************************************************************************)
(* The per-source sequence tracker (src/gateway/sequence_tracker.cpp).     *)
(*                                                                         *)
(* For every source id the tracker keeps {initialized, next_expected,      *)
(* seen_window}.  track(src, seq) classifies a frame as FIRST, OK, GAP,    *)
(* REORDER or DUPLICATE and updates that state.  The window is a bitset of *)
(* WindowSize bits (64 in the code); a bitset is modelled as the set of    *)
(* the indices of its set bits.  Sequence numbers are unsigned integers    *)
(* modulo SeqMod (2^32 in the code); every +, - of the code is taken       *)
(* modulo SeqMod, while < and > compare the unsigned values, as the C++    *)
(* does.                                                                   *)
(*                                                                         *)
(* Three ghost variables record history the code does not keep, for the    *)
(* properties only: seen[s], the sequence numbers received from s since    *)
(* its FIRST frame; firstSeq[s], the sequence number of that FIRST frame;  *)
(* lastEvt, the SeqEvent the last call of track returned.                  *)
(***************************************************************************)
EXTENDS Integers

CONSTANTS
    Sources,     \* the source ids (uint16_t src_id)
    SeqMod,      \* 2^32: the modulus of the uint32_t sequence numbers
    WindowSize   \* WINDOW_SIZE = 64

ASSUME TrackerAssumption ==
    /\ Sources # {}
    /\ WindowSize \in Nat \ {0}
    /\ SeqMod \in Nat
    /\ WindowSize < SeqMod

VARIABLES
    trk,       \* sources_ : src_id -> SourceState
    seen,      \* ghost: src_id -> sequence numbers received since FIRST
    firstSeq,  \* ghost: src_id -> sequence number of the FIRST frame
    lastEvt    \* ghost: the SeqEvent returned by the last track call

trkVars == <<trk, seen, firstSeq, lastEvt>>

SeqNum == 0 .. SeqMod - 1
Bits == 0 .. WindowSize - 1

\* uint32_t arithmetic: the value modulo 2^32.
U32(x) == x % SeqMod

Results == {"FIRST", "OK", "GAP", "REORDER", "DUPLICATE"}

SourceState == [initialized : BOOLEAN, next_expected : SeqNum,
                seen_window : SUBSET Bits]

SeqEvent == [result : Results, src_id : Sources, expected_seq : SeqNum,
             actual_seq : SeqNum, gap_size : SeqNum]

\* The value of lastEvt before the first call of track.
NoEvent == [result |-> "NONE", src_id |-> CHOOSE s \in Sources : TRUE,
            expected_seq |-> 0, actual_seq |-> 0, gap_size |-> 0]

\* The default-constructed SourceState that sources_[src_id] creates.
Untracked == [initialized |-> FALSE, next_expected |-> 0, seen_window |-> {}]

\* Mutant: a shift that keeps the bits pushed past the top of the window.
ShiftLeftUnmasked(w, k) == {i + k : i \in w}

\* std::bitset operator<<= : bit i moves to bit i + k, bits past the top
\* are lost.
ShiftLeft(w, k) == {i + k : i \in {j \in w : j + k < WindowSize}}

\* The uint32_t values the branches of track compute.
Gap(st, seq) == U32(seq - st.next_expected)
Age(st, seq) == U32(st.next_expected - seq)

\* The window after a frame that advances next_expected by gap + 1.
\* gap + 1 is a uint32_t sum: it is 0 when gap = 2^32 - 1.
AdvanceWindow(st, gap) ==
    (IF U32(gap + 1) >= WindowSize
       THEN {}
       ELSE ShiftLeft(st.seen_window, U32(gap + 1))) \cup {WindowSize - 1}

(***************************************************************************)
(* SequenceTracker::track, as the new SourceState and the returned event.  *)
(* The guards are those of the code's if / else if chain, made disjoint.   *)
(* The DUPLICATE branch leaves the window unchanged and the REORDER        *)
(* branch sets bit WindowSize - age: both are "add bit WindowSize - age",  *)
(* which is a no-op when the bit is already set.                           *)
(***************************************************************************)
TrackState(st, seq) ==
    CASE ~st.initialized ->
            [initialized |-> TRUE, next_expected |-> U32(seq + 1),
             seen_window |-> {}]
      [] st.initialized /\ seq = st.next_expected ->
            [st EXCEPT !.seen_window = ShiftLeft(@, 1) \cup {WindowSize - 1},
                       !.next_expected = U32(seq + 1)]
      [] st.initialized /\ seq > st.next_expected ->
            [st EXCEPT !.seen_window = AdvanceWindow(st, Gap(st, seq)),
                       !.next_expected = U32(seq + 1)]
      [] st.initialized /\ seq < st.next_expected
            /\ Age(st, seq) <= WindowSize ->
            [st EXCEPT !.seen_window = @ \cup {WindowSize - Age(st, seq)}]
      [] OTHER -> st

Event(r, src, exp, act, gap) ==
    [result |-> r, src_id |-> src, expected_seq |-> exp,
     actual_seq |-> act, gap_size |-> gap]

TrackEvent(st, src, seq) ==
    CASE ~st.initialized -> Event("FIRST", src, 0, seq, 0)
      [] st.initialized /\ seq = st.next_expected -> Event("OK", src, seq, seq, 0)
      [] st.initialized /\ seq > st.next_expected ->
            Event("GAP", src, U32(seq - Gap(st, seq)), seq, Gap(st, seq))
      [] st.initialized /\ seq < st.next_expected
            /\ Age(st, seq) <= WindowSize
            /\ (WindowSize - Age(st, seq)) \in st.seen_window ->
            Event("DUPLICATE", src, st.next_expected, seq, 0)
      [] OTHER -> Event("REORDER", src, st.next_expected, seq, 0)

-----------------------------------------------------------------------------
(* The tracker as a component of its own: Init and one action per method. *)

TrkInit ==
    /\ trk = [s \in Sources |-> Untracked]
    /\ seen = [s \in Sources |-> {}]
    /\ firstSeq = [s \in Sources |-> 0]
    /\ lastEvt = NoEvent

\* track(src_id, seq), with the ghost history it feeds.
Track(s, seq) ==
    /\ trk' = [trk EXCEPT ![s] = TrackState(@, seq)]
    /\ lastEvt' = TrackEvent(trk[s], s, seq)
    /\ seen' = [seen EXCEPT ![s] = IF trk[s].initialized THEN @ \cup {seq}
                                                       ELSE {seq}]
    /\ firstSeq' = IF trk[s].initialized THEN firstSeq
                                         ELSE [firstSeq EXCEPT ![s] = seq]

\* reset(src_id): sources_.erase(src_id).  An absent entry behaves as the
\* default-constructed one.
Reset(s) ==
    /\ trk' = [trk EXCEPT ![s] = Untracked]
    /\ UNCHANGED <<seen, firstSeq, lastEvt>>

\* reset_all(): sources_.clear().
ResetAll ==
    /\ trk' = [s \in Sources |-> Untracked]
    /\ UNCHANGED <<seen, firstSeq, lastEvt>>

TrkNext ==
    \/ \E s \in Sources, seq \in SeqNum : Track(s, seq)
    \/ \E s \in Sources : Reset(s)
    \/ ResetAll

TrkSpec == TrkInit /\ [][TrkNext]_trkVars

-----------------------------------------------------------------------------
(* Properties. *)

TrkTypeOK ==
    /\ trk \in [Sources -> SourceState]
    /\ seen \in [Sources -> SUBSET SeqNum]
    /\ firstSeq \in [Sources -> SeqNum]
    /\ lastEvt \in SeqEvent \cup {NoEvent}

(***************************************************************************)
(* A step of track gives a DUPLICATE verdict only to a frame whose         *)
(* sequence number was received from that source before the step: the     *)
(* window bit track tests for age (bit WindowSize - age) must stand for    *)
(* next_expected - age.  This is the agreement between the OK path (shift, *)
(* set bit 63) and the REORDER path (set bit 64 - age) that spec section 9 *)
(* calls the one subtle invariant.                                         *)
(***************************************************************************)
DuplicateOnlyIfSeen ==
    lastEvt'.result = "DUPLICATE"
        => lastEvt'.actual_seq \in seen[lastEvt'.src_id]

NoFalseDuplicate == [][DuplicateOnlyIfSeen]_trkVars

=============================================================================
