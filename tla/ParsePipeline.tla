--------------------------- MODULE ParsePipeline ----------------------------
(***************************************************************************)
(* DAGR parse_pipeline: settings, streams, tasks and dependencies are read *)
(* from a CONF document in that order, and the task graph is sorted.       *)
(***************************************************************************)
EXTENDS ConfTree

CONSTANT Pipelines   \* what the path given to parse_pipeline holds

VARIABLES
    pipeDoc,
    pipePhase,   \* where the call is, or the exception it ended with
    pipePos,     \* the index of the loop it is in
    pipeline     \* Pipeline_Config as far as it is read

pipeVars == <<pipeDoc, pipePhase, pipePos, pipeline>>

MaxUint32 == 2147483647   \* stands for UINT32_MAX
ToUint32(n) == IF n < 0 THEN MaxUint32 + (n + 1) ELSE n

\* Seconds of the interval texts; a text that is no number gives zero.
IntervalTexts == "86400s" :> {86400} @@ "100S" :> {100} @@ "60" :> {60} @@ "+5s" :> {5}
                 @@ "-5s" :> {-5} @@ "0s" :> {0}
                 @@ "99999999999999999999s" :> {-1, 0, 1}   \* the product overflows
ParseSnapshotInterval(t) == IF t \in DOMAIN IntervalTexts THEN IntervalTexts[t] ELSE {0}

TemporalProfiles == {"linear", "step"}
OobPolicies      == {"clamp", "cycle"}
RequiredFields   == {"temporal_profile", "out_of_bounds_policy", "dataset_path", "snapshot_interval"}

IndexText(i) == CHOOSE t \in IndexTexts : IntOf[t] = i
StreamPath(i, f) == <<"streams", IndexText(i), f>>
StreamText(i, f) == GetString(pipeDoc, StreamPath(i, f))
Setting(f) == GetInt(pipeDoc, <<"settings", f>>)
TaskPath(i) == <<"tasks", IndexText(i), "name">>
DepPath(i, f) == <<"dependencies", IndexText(i), f>>

PipeInit ==
    /\ pipeDoc \in Pipelines
    /\ pipePhase = "open"
    /\ pipePos = 0
    /\ pipeline = [settings |-> <<>>, streams |-> <<>>, task_names |-> <<>>, edges |-> <<>>]

\* from_file; its exception is the call's.
OpenPipeline ==
    /\ pipePhase = "open"
    /\ pipePhase' = IF FromFile(pipeDoc) = "ok" THEN "settings" ELSE FromFile(pipeDoc)
    /\ UNCHANGED <<pipeDoc, pipePos, pipeline>>

SettingNames == <<"max_concurrency", "deadlock_timeout", "shutdown_timeout">>

\* Each setting that is there: an int, cast to uint32.
ReadSettings ==
    /\ pipePhase = "settings"
    /\ LET given == SelectSeq(SettingNames, LAMBDA f : Has(pipeDoc, <<"settings", f>>))
           bad == SelectSeq(given, LAMBDA f : Setting(f).code # "ok") IN
         IF bad # <<>>
           THEN pipePhase' = Setting(bad[1]).code /\ UNCHANGED pipeline
           ELSE /\ pipePhase' = "streams"
                /\ pipeline' = [pipeline EXCEPT !.settings =
                      [i \in DOMAIN given |-> ToUint32(IntOf[Setting(given[i]).node.text])]]
    /\ UNCHANGED <<pipeDoc, pipePos>>

SeenNames == {pipeline.streams[i].name : i \in DOMAIN pipeline.streams}

\* The first thing wrong with stream i, in the order of the checks.
StreamError(i) ==
    LET name == StreamText(i, "name")
        profile == StreamText(i, "temporal_profile")
        policy == StreamText(i, "out_of_bounds_policy")
        path == StreamText(i, "dataset_path")
        interval == StreamText(i, "snapshot_interval") IN
    IF ~Has(pipeDoc, StreamPath(i, "name")) THEN "missing field"
    ELSE IF name.code # "ok" THEN name.code
    ELSE IF name.node.text \in SeenNames THEN "duplicate stream"
    ELSE IF \E f \in RequiredFields : ~Has(pipeDoc, StreamPath(i, f)) THEN "missing field"
    ELSE IF profile.code # "ok" THEN profile.code
    ELSE IF profile.node.text \notin TemporalProfiles THEN "unrecognized"
    ELSE IF policy.code # "ok" THEN policy.code
    ELSE IF policy.node.text \notin OobPolicies THEN "unrecognized"
    ELSE IF path.code # "ok" THEN path.code
    ELSE IF path.node.text = "" THEN "empty path"
    ELSE interval.code

\* One stream: its descriptor is appended, or the call throws.
ReadStream ==
    /\ pipePhase = "streams"
    /\ IF pipePos = SizeAt(pipeDoc, <<"streams">>)
         THEN pipePhase' = "tasks" /\ pipePos' = 0 /\ UNCHANGED pipeline
         ELSE IF StreamError(pipePos) # "ok"
         THEN pipePhase' = StreamError(pipePos) /\ UNCHANGED <<pipePos, pipeline>>
         ELSE \E secs \in ParseSnapshotInterval(StreamText(pipePos, "snapshot_interval").node.text) :
                IF secs <= 0
                  THEN pipePhase' = "bad interval" /\ UNCHANGED <<pipePos, pipeline>>
                  ELSE /\ pipeline' = [pipeline EXCEPT !.streams = Append(@,
                             [name |-> StreamText(pipePos, "name").node.text,
                              profile |-> StreamText(pipePos, "temporal_profile").node.text,
                              policy |-> StreamText(pipePos, "out_of_bounds_policy").node.text,
                              interval |-> secs])]
                       /\ pipePos' = pipePos + 1
                       /\ UNCHANGED pipePhase
    /\ UNCHANGED pipeDoc

\* One task: a name that is met again keeps both entries and the later index.
ReadTask ==
    /\ pipePhase = "tasks"
    /\ LET name == GetString(pipeDoc, TaskPath(pipePos)) IN
         IF pipePos = SizeAt(pipeDoc, <<"tasks">>)
           THEN pipePhase' = "dependencies" /\ pipePos' = 0 /\ UNCHANGED pipeline
           ELSE IF name.code # "ok"
           THEN pipePhase' = name.code /\ UNCHANGED <<pipePos, pipeline>>
           ELSE /\ pipeline' = [pipeline EXCEPT !.task_names = Append(@, name.node.text)]
                /\ pipePos' = pipePos + 1
                /\ UNCHANGED pipePhase
    /\ UNCHANGED pipeDoc

PipeTasks == 0 .. Len(pipeline.task_names) - 1

\* Mutant of TaskIndex: the indices are counted from one.
TaskIndexOffByOne(name) ==
    LET at == {i \in DOMAIN pipeline.task_names : pipeline.task_names[i] = name} IN
    CHOOSE i \in at : \A j \in at : j <= i

\* task_index[name]: the last task of that name.
TaskIndex(name) ==
    LET at == {i \in DOMAIN pipeline.task_names : pipeline.task_names[i] = name} IN
    (CHOOSE i \in at : \A j \in at : j <= i) - 1

\* One dependency: both names are read, then looked up.
ReadDependency ==
    /\ pipePhase = "dependencies"
    /\ LET from == GetString(pipeDoc, DepPath(pipePos, "from"))
           to == GetString(pipeDoc, DepPath(pipePos, "to")) IN
         IF pipePos = SizeAt(pipeDoc, <<"dependencies">>)
           THEN pipePhase' = "sort" /\ UNCHANGED <<pipePos, pipeline>>
           ELSE IF from.code # "ok" \/ to.code # "ok"
           THEN pipePhase' = (IF from.code # "ok" THEN from.code ELSE to.code)
                /\ UNCHANGED <<pipePos, pipeline>>
           ELSE IF {from.node.text, to.node.text} \subseteq ToSet(pipeline.task_names)
           THEN /\ pipeline' = [pipeline EXCEPT !.edges =
                       Append(@, <<TaskIndex(from.node.text), TaskIndex(to.node.text)>>)]
                /\ pipePos' = pipePos + 1
                /\ UNCHANGED pipePhase
           ELSE pipePhase' = "unknown task" /\ UNCHANGED <<pipePos, pipeline>>
    /\ UNCHANGED pipeDoc

\* The tasks Kahn's loop has taken after k rounds of its queue.
Peeled[k \in 0 .. 4] ==
    IF k = 0 THEN {}
    ELSE {n \in PipeTasks : \A i \in DOMAIN pipeline.edges :
              pipeline.edges[i][2] = n => pipeline.edges[i][1] \in Peeled[k - 1]}

\* The sort takes every task, or the call throws.
SortTasks ==
    /\ pipePhase = "sort"
    /\ pipePhase' = IF Peeled[4] = PipeTasks THEN "accepted" ELSE "cycle"
    /\ UNCHANGED <<pipeDoc, pipePos, pipeline>>

PipeNext == OpenPipeline \/ ReadSettings \/ ReadStream \/ ReadTask \/ ReadDependency \/ SortTasks

-----------------------------------------------------------------------------
\* The dependency the document states, by task names.
StatedEdge(i) == <<GetString(pipeDoc, DepPath(i, "from")).node.text,
                   GetString(pipeDoc, DepPath(i, "to")).node.text>>
PipeAcyclic == \A S \in (SUBSET PipeTasks) \ {{}} :
                 \E n \in S : \A i \in DOMAIN pipeline.edges :
                    pipeline.edges[i][2] = n => pipeline.edges[i][1] \notin S

(***************************************************************************)
(* A pipeline that is accepted is the one in the document: every stream in *)
(* its order with a name of its own and a positive interval, and an edge   *)
(* per dependency between tasks of the stated names, among which there is  *)
(* no cycle; a graph refused as cyclic has one.                            *)
(***************************************************************************)
PipelineFaithful ==
    /\ pipePhase = "accepted" =>
         /\ Len(pipeline.streams) = SizeAt(pipeDoc, <<"streams">>)
         /\ Cardinality(SeenNames) = Len(pipeline.streams)
         /\ \A i \in DOMAIN pipeline.streams :
              /\ pipeline.streams[i].name = StreamText(i - 1, "name").node.text
              /\ pipeline.streams[i].interval > 0
              /\ pipeline.streams[i].policy \in OobPolicies
         /\ Len(pipeline.edges) = SizeAt(pipeDoc, <<"dependencies">>)
         /\ \A i \in DOMAIN pipeline.edges :
              LET e == pipeline.edges[i] IN
              /\ {e[1], e[2]} \subseteq PipeTasks
              /\ <<pipeline.task_names[e[1] + 1], pipeline.task_names[e[2] + 1]>> = StatedEdge(i - 1)
         /\ PipeAcyclic
    /\ pipePhase = "cycle" => ~PipeAcyclic
=============================================================================
