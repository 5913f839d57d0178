---------------------------- MODULE StatsManager ----------------------------
(***************************************************************************)
(* The statistics aggregator (src/gateway/stats_manager.cpp).              *)
(*                                                                         *)
(* Every mutator and every reader takes the std::shared_mutex for its      *)
(* whole body (unique_lock for mutators, shared_lock for readers), so each *)
(* call is one atomic step on the state below.  A reader is a pure         *)
(* function of the state: what get_global_stats or get_health returns in   *)
(* a state is what any concurrent reader may observe there.                *)
(*                                                                         *)
(* Per-source last_seq and last_ts_ns are left out: no property reads      *)
(* them.  The uint64_t counters are unbounded naturals: 2^64 frames are    *)
(* out of reach of any run of the program.                                 *)
(***************************************************************************)
EXTENDS Naturals

CONSTANT StatSources   \* the source ids a counter can be recorded against

VARIABLES
    global,      \* global_ : GlobalStats
    perSource,   \* sources_ : src_id -> SourceStats
    created      \* the keys of sources_ (entries made by get_or_create_source)

statsVars == <<global, perSource, created>>

GlobalStats == [rx_total : Nat, malformed_total : Nat, gap_total : Nat,
                reorder_total : Nat, duplicate_total : Nat,
                crc_fail_total : Nat]

SourceStats == [rx_count : Nat, malformed : Nat, gaps : Nat,
                reorders : Nat, duplicates : Nat]

ZeroGlobal == [rx_total |-> 0, malformed_total |-> 0, gap_total |-> 0,
               reorder_total |-> 0, duplicate_total |-> 0, crc_fail_total |-> 0]

ZeroSource == [rx_count |-> 0, malformed |-> 0, gaps |-> 0,
               reorders |-> 0, duplicates |-> 0]

StatsInit ==
    /\ global = ZeroGlobal
    /\ perSource = [s \in StatSources |-> ZeroSource]
    /\ created = {}

\* get_or_create_source(src_id), as done by every mutator.
Touch(s) == created' = created \cup {s}

RecordRx(s) ==
    /\ global' = [global EXCEPT !.rx_total = @ + 1]
    /\ perSource' = [perSource EXCEPT ![s].rx_count = @ + 1]
    /\ Touch(s)

RecordMalformed(s) ==
    /\ global' = [global EXCEPT !.malformed_total = @ + 1]
    /\ perSource' = [perSource EXCEPT ![s].malformed = @ + 1]
    /\ Touch(s)

\* Mutant: record_gap counting gap events instead of lost frames.
RecordGapOnce(s, n) ==
    /\ global' = [global EXCEPT !.gap_total = @ + 1]
    /\ perSource' = [perSource EXCEPT ![s].gaps = @ + 1]
    /\ Touch(s)

\* record_gap adds the size of the gap, not 1.
RecordGap(s, n) ==
    /\ global' = [global EXCEPT !.gap_total = @ + n]
    /\ perSource' = [perSource EXCEPT ![s].gaps = @ + n]
    /\ Touch(s)

RecordReorder(s) ==
    /\ global' = [global EXCEPT !.reorder_total = @ + 1]
    /\ perSource' = [perSource EXCEPT ![s].reorders = @ + 1]
    /\ Touch(s)

RecordDuplicate(s) ==
    /\ global' = [global EXCEPT !.duplicate_total = @ + 1]
    /\ perSource' = [perSource EXCEPT ![s].duplicates = @ + 1]
    /\ Touch(s)

\* record_crc_fail: the global crc_fail_total and the per-source malformed.
RecordCrcFail(s) ==
    /\ global' = [global EXCEPT !.crc_fail_total = @ + 1]
    /\ perSource' = [perSource EXCEPT ![s].malformed = @ + 1]
    /\ Touch(s)

\* reset(): every counter to 0, every source entry dropped.
StatsReset ==
    /\ global' = ZeroGlobal
    /\ perSource' = [s \in StatSources |-> ZeroSource]
    /\ created' = {}

\* Mutant: get_health testing for gaps and reorders before malformed frames.
HealthGapsFirst(g) ==
    IF g.gap_total > 0 \/ g.reorder_total > 0 THEN "DEGRADED"
    ELSE IF g.malformed_total > 0 \/ g.crc_fail_total > 0 THEN "ERROR"
    ELSE "OK"

\* get_health(), on a GlobalStats value.
Health(g) ==
    IF g.malformed_total > 0 \/ g.crc_fail_total > 0 THEN "ERROR"
    ELSE IF g.gap_total > 0 \/ g.reorder_total > 0 THEN "DEGRADED"
    ELSE "OK"

\* The order of enum class HealthState { OK, DEGRADED, ERROR }.
HealthRank(h) == IF h = "OK" THEN 0 ELSE IF h = "DEGRADED" THEN 1 ELSE 2

\* get_source_stats(src_id): the entry, or a zero SourceStats if absent.
GetSourceStats(s) == IF s \in created THEN perSource[s] ELSE ZeroSource

StatsTypeOK ==
    /\ global \in GlobalStats
    /\ perSource \in [StatSources -> SourceStats]
    /\ created \in SUBSET StatSources

=============================================================================
