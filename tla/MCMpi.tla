------------------------------- MODULE MCMpi -------------------------------
(***************************************************************************)
(* The programs of HALO and LOGS that run over MPI, each by itself: the    *)
(* point-to-point exchange, the structured exchange, the replicated gather *)
(* and the logger.                                                         *)
(***************************************************************************)
EXTENDS HaloExchange, StructuredExchange, ReplicatedGather, Logger

VARIABLE part   \* the program that runs; the others stay where they start

N(r, c) == [rank |-> r, count |-> c]
\* One thread exchanges twice with the other rank and with itself, or two
\* threads of rank 0 send a field each to rank 1.
Twice == [faults |-> 1, rounds |-> "t1" :> 2 @@ "t2" :> 0, comm |-> "t1" :> "A" @@ "t2" :> "B",
          sends |-> 0 :> <<N(1, 2), N(0, 1)>> @@ 1 :> <<N(0, 1)>>,
          recvs |-> 0 :> <<N(0, 1), N(1, 1)>> @@ 1 :> <<N(0, 2)>>]
TwoThreads == [faults |-> 0, rounds |-> "t1" :> 1 @@ "t2" :> 1, comm |-> "t1" :> "A" @@ "t2" :> "B",
               sends |-> 0 :> <<N(1, 1)>> @@ 1 :> <<>>, recvs |-> 0 :> <<>> @@ 1 :> <<N(0, 1)>>]
MCPrograms == {Twice, TwoThreads}

Nb(s) == [f \in 0 .. Len(s) - 1 |-> s[f + 1]]
Line == [extents |-> <<4>>, widths |-> <<1>>, neighbors |-> 0 :> Nb(<<-1, 1>>) @@ 1 :> Nb(<<0, 2>>) @@ 2 :> Nb(<<1, -1>>)]
Ring == [extents |-> <<6>>, widths |-> <<2>>, neighbors |-> 0 :> Nb(<<2, 1>>) @@ 1 :> Nb(<<0, 2>>) @@ 2 :> Nb(<<1, 0>>)]
Square == [extents |-> <<4, 3>>, widths |-> <<1, 1>>,
           neighbors |-> 0 :> Nb(<<-1, 1, -1, 2>>) @@ 1 :> Nb(<<0, -1, -1, 3>>) @@ 2 :> Nb(<<-1, 3, 0, -1>>) @@ 3 :> Nb(<<2, -1, 1, -1>>)]
\* Periodic in the first dimension, with two blocks: they meet on both faces.
Belt == [extents |-> <<4, 3>>, widths |-> <<1, 1>>,
         neighbors |-> 0 :> Nb(<<1, 1, -1, 2>>) @@ 1 :> Nb(<<0, 0, -1, -1>>) @@ 2 :> Nb(<<-1, -1, 0, -1>>)]
\* The interior is thinner than the ghost zone.
Narrow == [extents |-> <<5>>, widths |-> <<2>>, neighbors |-> 0 :> Nb(<<-1, 1>>) @@ 1 :> Nb(<<0, -1>>)]
Alone == [extents |-> <<3>>, widths |-> <<1>>, neighbors |-> 0 :> Nb(<<-1, -1>>)]
\* Refused: twice the width does not fit.
Thin == [extents |-> <<3>>, widths |-> <<2>>, neighbors |-> 0 :> Nb(<<-1, 1>>) @@ 1 :> Nb(<<0, -1>>)]
MCLayouts == {Line, Ring, Square, Belt, Narrow, Alone, Thin}

MCBands == {-1, 0, 1, 2}
MCLevels == {-1, 0, 2}

MCCallers == {<<0, 1>>, <<0, 2>>, <<1, 1>>, <<2, 1>>}
MCThreshold == [r \in 0 .. 2 |-> IF r = 1 THEN 1 ELSE 0]

MInit ==
    /\ part \in {"halo", "faces", "gather", "log"}
    /\ HInit /\ (part # "halo" => ~staged /\ ~eager /\ ~hmultiple /\ hprogram = Twice)
             /\ (staged => hprogram = Twice)
    /\ SInit /\ (part # "faces" => layout = Thin /\ sroute = "faces")
    /\ GInit /\ (part # "gather" => ~gmultiple /\ ~gstaged /\ glevels = 0 /\ gpolicy = "throw_on_error" /\ \A r \in GRanks : gband[r] = 0)
    /\ LInit /\ (part # "log" => ~has_communicator)

MNext ==
    \/ part = "halo" /\ HNext /\ UNCHANGED <<svars, gvars, lvars, part>>
    \/ part = "faces" /\ SNext /\ UNCHANGED <<hvars, gvars, lvars, part>>
    \/ part = "gather" /\ GNext /\ UNCHANGED <<hvars, svars, lvars, part>>
    \/ part = "log" /\ LNext /\ UNCHANGED <<hvars, svars, gvars, part>>

\* The fairness of the programs whose end is a temporal property: ranks and
\* threads go on with their own programs, and MPI makes progress.
MFairness ==
    /\ \A r \in 0 .. 3 : WF_svars(part = "faces" /\ r \in Blocks /\ SStep(r))
    /\ WF_svars(part = "faces" /\ \E p \in Pairs : Deliver(p))
    /\ \A r \in GRanks : WF_gvars(part = "gather" /\ GStep(r))
    /\ \A c \in LCallers : WF_lvars(part = "log" /\ LStep(c))

MSpec == MInit /\ [][MNext]_<<hvars, svars, gvars, lvars, part>> /\ MFairness

\* Ghost cells are fresh on both kinds of exchange: the indexed one, with
\* concurrent threads on communicators of their own, and the structured one,
\* on faces whose neighbour is met on no other face.
GhostsFresh == HaloFresh /\ GhostsMatch

\* How far a program is sure to get, each under its condition.  The exchanges
\* stand still unfinished only after a failed MPI call, or where one of two
\* threads of a rank, below MPI_THREAD_MULTIPLE, waits with the guard held.
\* The gathers return with MPI_THREAD_MULTIPLE, without failing calls.
\* fatal ends the process, through the abort or the spin of the latch's loser.
\* consolidate returns if every rank calls it with a record buffered.
EveryProgramEnds == []ExchangesComplete /\ GatherReturns /\ FatalEnds /\ ConsolidationReturns
=============================================================================
