------------------------------- MODULE Logger -------------------------------
(***************************************************************************)
(* logs::Logger on every rank: threads log records and call fatal, and the *)
(* main thread calls consolidate, which gathers the buffered records of    *)
(* all ranks on rank 0.  What the sinks print is left out; a report stands *)
(* for the representatives that rank 0 prints.                             *)
(***************************************************************************)
EXTENDS Integers, Sequences, SequencesExt, FiniteSets, TLC

CONSTANTS
    LCallers,      \* the logging threads <<rank, thread>>; thread 1 is the main thread
    LMessages,     \* the message texts
    LSeverities,   \* the severities in use
    LThreshold,    \* LThreshold[r]: the threshold_ of rank r
    LMaxLogs,      \* bound on the records submitted, of all ranks
    LMaxCalls,     \* bound on the consolidations of a rank
    LMaxFaults     \* bound on the internal failures the logger absorbs

FATAL == 4
LRanks == {c[1] : c \in LCallers}
Keys == [sev : LSeverities, msg : LMessages]

ASSUME LoggerConstants ==
    /\ LSeverities \subseteq 0 .. 4 /\ LThreshold \in [LRanks -> 0 .. 4] /\ FATAL \in LSeverities
    /\ LMaxLogs \in Nat /\ LMaxCalls \in Nat /\ LMaxFaults \in Nat
    /\ \A r \in LRanks : <<r, 1>> \in LCallers
    /\ IsFiniteSet(LRanks) /\ LRanks \subseteq Nat /\ 0 \in LRanks

VARIABLES
    has_communicator,  \* configure_communicator was called on every rank
    lpc,        \* where each thread is
    lcall,      \* the call it is in: "log" or "fatal"
    lbuf,       \* consolidation_buffer_
    latched,    \* abort_latch_
    ended,      \* the ranks whose process has ended
    llogs,      \* the records submitted
    swapped,    \* the buffers that its consolidate calls took, in order
    given,      \* its contributions to the gathers: numbers of calls
    reports,    \* the representatives each rank printed, by consolidation
    lfaults     \* the failures absorbed

lvars == <<has_communicator, lpc, lcall, lbuf, latched, ended, llogs, swapped, given, reports, lfaults>>

-----------------------------------------------------------------------------
(* The consolidation engine *)

\* std::sort and std::unique: the ranks in ascending order, each once.
Ascending(ranks) ==
    CHOOSE s \in [1 .. Cardinality(ranks) -> ranks] :
        \A i, j \in 1 .. Cardinality(ranks) : i < j => s[i] < s[j]

NewRange(x) == [first |-> x, last |-> x]
Lengthened(out, x) == [i \in DOMAIN out |-> IF i = Len(out) THEN [first |-> out[i].first, last |-> x] ELSE out[i]]

\* Mutant of WithRank: a rank may be left out between two of a range.
WithRankLoose(out, x) ==
    IF out # <<>> /\ x <= Last(out).last + 2 THEN Lengthened(out, x) ELSE Append(out, NewRange(x))

\* The next rank lengthens the last range or begins one.
WithRank(out, x) ==
    IF out # <<>> /\ x = Last(out).last + 1 THEN Lengthened(out, x) ELSE Append(out, NewRange(x))

\* The ranges of consecutive ranks.
compact_ranges(ranks) ==
    LET s == Ascending(ranks)
        out[i \in 0 .. Cardinality(ranks)] == IF i = 0 THEN <<>> ELSE WithRank(out[i - 1], s[i])
    IN out[Cardinality(ranks)]

RangesCount(ranges) ==
    LET count[i \in 0 .. Len(ranges)] ==
            IF i = 0 THEN 0 ELSE count[i - 1] + (ranges[i].last - ranges[i].first + 1)
    IN count[Len(ranges)]

\* The map of key to ranks that rank 0 decodes from the gathered records;
\* bufs[r] is what rank r contributed.
deserialize_records(bufs) ==
    [k \in UNION {Range(bufs[r]) : r \in DOMAIN bufs} |-> {r \in DOMAIN bufs : k \in Range(bufs[r])}]

consolidate_collective(bufs) ==
    LET groups == deserialize_records(bufs)
    IN {LET ranges == compact_ranges(groups[k]) IN [key |-> k, count |-> RangesCount(ranges), ranges |-> ranges]
          : k \in DOMAIN groups}

\* Without a communicator: the records of each key, under rank -1.
consolidate_local(buf) ==
    {[key |-> k, count |-> Cardinality({i \in DOMAIN buf : buf[i] = k}), ranges |-> <<[first |-> -1, last |-> -1]>>]
        : k \in Range(buf)}

-----------------------------------------------------------------------------

LInit ==
    /\ has_communicator \in BOOLEAN
    /\ lpc = [c \in LCallers |-> "idle"]
    /\ lcall = [c \in LCallers |-> "log"]
    /\ lbuf = [r \in LRanks |-> <<>>]
    /\ latched = [r \in LRanks |-> FALSE]
    /\ ended = {}
    /\ llogs = 0
    /\ swapped = [r \in LRanks |-> <<>>]
    /\ given = [r \in LRanks |-> <<>>]
    /\ reports = [r \in LRanks |-> <<>>]
    /\ lfaults = 0

Running(c) == c[1] \notin ended
At(c, pc) == Running(c) /\ lpc[c] = pc
LGoto(c, pc) == lpc' = [lpc EXCEPT ![c] = pc]

\* log below the threshold does nothing; otherwise the record is buffered and
\* every sink gets its line.  A FATAL record goes on to the abort.
log(c, k, call) ==
    /\ At(c, "idle") /\ llogs < LMaxLogs
    /\ call = "fatal" => k.sev = FATAL
    /\ llogs' = llogs + 1
    /\ lcall' = [lcall EXCEPT ![c] = call]
    /\ IF k.sev # FATAL /\ k.sev < LThreshold[c[1]]
       THEN UNCHANGED <<lpc, lbuf>>
       ELSE /\ lbuf' = [lbuf EXCEPT ![c[1]] = Append(@, k)]
            /\ IF k.sev = FATAL THEN LGoto(c, "dispatch") ELSE UNCHANGED lpc
    /\ UNCHANGED <<has_communicator, latched, ended, swapped, given, reports, lfaults>>

dispatch_to_sinks(c) ==
    /\ At(c, "dispatch") /\ LGoto(c, "latch")
    /\ UNCHANGED <<has_communicator, lcall, lbuf, latched, ended, llogs, swapped, given, reports, lfaults>>

\* A failure inside log(FATAL) is absorbed and log returns; fatal then aborts itself.
LogThrows(c) ==
    /\ At(c, "dispatch")
    /\ lfaults < LMaxFaults /\ lfaults' = lfaults + 1
    /\ LGoto(c, IF lcall[c] = "fatal" THEN "latch" ELSE "idle")
    /\ UNCHANGED <<has_communicator, lcall, lbuf, latched, ended, llogs, swapped, given, reports>>

\* Mutant of try_acquire: what the exchange of the latch returned is read the
\* wrong way round.
try_acquire_inverted(c) ==
    /\ At(c, "latch")
    /\ latched' = [latched EXCEPT ![c[1]] = TRUE]
    /\ LGoto(c, IF latched[c[1]] THEN "abort" ELSE "spin")
    /\ UNCHANGED <<has_communicator, lcall, lbuf, ended, llogs, swapped, given, reports, lfaults>>

\* abort_latch_: the first thread of the process that gets here goes on to
\* the abort, the others spin until the process ends.
try_acquire(c) ==
    /\ At(c, "latch")
    /\ latched' = [latched EXCEPT ![c[1]] = TRUE]
    /\ LGoto(c, IF latched[c[1]] THEN "spin" ELSE "abort")
    /\ UNCHANGED <<has_communicator, lcall, lbuf, ended, llogs, swapped, given, reports, lfaults>>

\* MPI_Abort ends the job; without a communicator exit ends the process.
Abort(c) ==
    /\ At(c, "abort")
    /\ LGoto(c, "aborted")
    /\ ended' = IF has_communicator THEN LRanks ELSE ended \cup {c[1]}
    /\ UNCHANGED <<has_communicator, lcall, lbuf, latched, llogs, swapped, given, reports, lfaults>>

\* consolidate takes the buffer, and returns at once when there is nothing in it.
consolidate(c) ==
    LET r == c[1] IN
    /\ At(c, "idle") /\ c[2] = 1 /\ Len(swapped[r]) < LMaxCalls
    /\ swapped' = [swapped EXCEPT ![r] = Append(@, lbuf[r])]
    /\ lbuf' = [lbuf EXCEPT ![r] = <<>>]
    /\ IF lbuf[r] = <<>> THEN UNCHANGED <<lpc, given, reports>>
       ELSE IF ~has_communicator
       THEN reports' = [reports EXCEPT ![r] = Append(@, [of |-> Len(swapped[r]) + 1, reps |-> consolidate_local(lbuf[r])])]
            /\ UNCHANGED <<lpc, given>>
       ELSE /\ given' = [given EXCEPT ![r] = Append(@, Len(swapped[r]) + 1)]
            /\ IF r = 0 THEN LGoto(c, "gather") ELSE UNCHANGED lpc
            /\ UNCHANGED reports
    /\ UNCHANGED <<has_communicator, lcall, latched, ended, llogs, lfaults>>

\* MPI_Gather and MPI_Gatherv end on rank 0 when every rank has contributed as
\* often as rank 0; a contribution of the others ends without waiting for it.
Gatherv(c) ==
    LET n == Len(given[0]) IN
    /\ At(c, "gather")
    /\ \A q \in LRanks : Len(given[q]) >= n
    /\ LGoto(c, "idle")
    /\ reports' = [reports EXCEPT ![0] =
            Append(@, [of |-> given[0][n], reps |-> consolidate_collective([q \in LRanks |-> swapped[q][given[q][n]]])])]
    /\ UNCHANGED <<has_communicator, lcall, lbuf, latched, ended, llogs, swapped, given, lfaults>>

LStep(c) == dispatch_to_sinks(c) \/ try_acquire(c) \/ Abort(c) \/ Gatherv(c)

LNext ==
    \E c \in LCallers :
        \/ \E k \in Keys, call \in {"log", "fatal"} : log(c, k, call)
        \/ LStep(c) \/ LogThrows(c) \/ consolidate(c)

LSpec == LInit /\ [][LNext]_lvars

-----------------------------------------------------------------------------
(* Properties *)

NoneSkipped == \A r \in LRanks : \A i \in 1 .. Len(swapped[r]) : swapped[r][i] # <<>>

\* What rank 0 prints for a consolidation names, for every record that some
\* rank had buffered at that consolidation, exactly the ranks that had it, as
\* disjoint ranges with their number -- as long as no rank has come to
\* consolidate with an empty buffer.
ConsolidatedExact ==
    has_communicator /\ NoneSkipped =>
        \A i \in 1 .. Len(reports[0]) :
            LET Had(k) == {q \in LRanks : k \in Range(swapped[q][reports[0][i].of])}
            IN /\ \A q \in LRanks : Len(swapped[q]) >= reports[0][i].of
               /\ {p.key : p \in reports[0][i].reps} = {k \in Keys : Had(k) # {}}
               /\ \A p \in reports[0][i].reps :
                    /\ p.count = Cardinality(Had(p.key))
                    /\ UNION {g.first .. g.last : g \in Range(p.ranges)} = Had(p.key)

\* A thread that calls fatal ends its process, also when logging the record
\* fails, and so does one that has logged a FATAL record: it aborts, or spins
\* while another thread of the process, which has the latch, does.
FatalEnds ==
    \A r \in LRanks :
        (\E c \in LCallers : c[1] = r /\ (lpc[c] = "latch" \/ (lpc[c] = "dispatch" /\ lcall[c] = "fatal")))
            ~> r \in ended

\* consolidate returns on rank 0 once every rank has called it as often,
\* unless a process has ended or a rank has come with an empty buffer: that
\* rank stays out of the gather, and rank 0 may wait in it for ever.
ConsolidationReturns ==
    (lpc[<<0, 1>>] = "gather" /\ NoneSkipped /\ \A q \in LRanks : Len(swapped[q]) >= Len(swapped[0]))
        ~> (lpc[<<0, 1>>] # "gather" \/ ended # {})
=============================================================================
