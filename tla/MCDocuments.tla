---------------------------- MODULE MCDocuments ----------------------------
(***************************************************************************)
(* What is read from outside and written back, side by side: CONF itself,  *)
(* the AMIO manifest, the DAGR pipeline file, the orchestrator's check of  *)
(* the graph, and the data files of the three AMIO drivers.  They share no *)
(* state; part says which one a behaviour is about.                        *)
(***************************************************************************)
EXTENDS ConfigLoader, ParsePipeline, ValidateDag, Drivers

VARIABLE part

allVars == <<part, confVars, loadVars, pipeVars, vars, dvars>>

S1 == YScalar("1")
BigTree == YMap("a" :> YMap("b" :> S1 @@ "c" :> YSeq(<<S1, YScalar("1.5"), YScalar("x")>>) @@ "n" :> YNull)
                @@ "l" :> YSeq(<<S1, YScalar("2")>>) @@ "t" :> YScalar("true"))
MCConfDocuments == {BigTree, YScalar("x"), YNull, YSeq(<<BigTree, S1>>), Malformed}
MCPaths == {<<>>, <<"a">>, <<"a", "">>, <<"", "a">>, <<"a", "b">>, <<"a", "b", "0">>, <<"a", "c">>, <<"a", "c", "1">>,
            <<"a", "c", "3">>, <<"a", "c", "x">>, <<"a", "n">>, <<"l">>, <<"l", "0">>, <<"l", "-1">>,
            <<"t">>, <<"z">>, <<"0", "a", "b">>, <<"1">>}

\* A full manifest, and every way to replace or remove two of its entries.
FullManifest ==
    [k \in Keys |-> CASE k = <<"backend">> -> YScalar("zarr")
                      [] k = <<"codec", "active_codec">> -> YScalar("blosc")
                      [] k = CodecKey -> YSeq(<<YScalar("blosc"), YScalar("libaec")>>)
                      [] k \in IntListKeys -> YSeq(<<YScalar("0"), YScalar("2")>>)
                      [] k = <<"staging_pool", "max_buffer_count">> -> YScalar("16")
                      [] k = <<"backpressure", "high_watermark">> -> YScalar("3")
                      [] k = <<"backpressure", "queue_capacity">> -> YScalar("4")
                      [] OTHER -> YScalar("2")]
Replacements(k) ==
    CASE k = <<"backend">> -> {YNull, YSeq(<<>>)}
      [] k = <<"codec", "active_codec">> -> {YScalar("libaec"), YScalar("zstandard"), YScalar("zfp")}
      [] k = CodecKey -> {YSeq(<<>>), YSeq(<<YScalar("zfp")>>), YScalar("blosc")}
      [] k \in IntListKeys -> {YSeq(<<>>), YSeq(<<YScalar("x")>>)}
      [] k \in {KeyOrder[1], KeyOrder[3]} -> {YScalar(t) : t \in {"0", "16", "4096", "4097", "-1"}}
      [] k \in {KeyOrder[10], KeyOrder[11], KeyOrder[12]} -> {YScalar(t) : t \in {"0", "3", "4", "-1"}}
      [] OTHER -> {YScalar(t) : t \in {"0", "-1", "5000", "x"}}
Entries == UNION {{<<k, n>> : n \in Replacements(k) \cup {Undefined}} : k \in Keys}
With(m, es) ==
    LET replaced == {e[1] : e \in es}
        node == [k \in Keys |-> IF k \in replaced THEN (CHOOSE e \in es : e[1] = k)[2] ELSE m[k]]
        kept == {k \in Keys : node[k] # Undefined} IN
    DocumentOf(kept, node)
MCManifests == {NoFile, Malformed, YNull}
               \cup {With(FullManifest, {e, f}) : e \in Entries, f \in
                       {x \in Entries : x[1] \in {KeyOrder[1], KeyOrder[11], CodecKey, <<"backend">>}}}

\* Pipeline files: streams that differ in one field, and small task graphs.
Stream(f, t) ==
    LET fields == "name" :> "s" @@ "temporal_profile" :> "linear" @@ "out_of_bounds_policy" :> "clamp"
                  @@ "dataset_path" :> "d.nc" @@ "snapshot_interval" :> "86400s" IN
    YMap([x \in {y \in DOMAIN fields : y = f => t # "absent"} |-> YScalar(IF x = f THEN t ELSE fields[x])])
Streams == {Stream("name", "s2"), Stream("name", "absent")}
           \cup {Stream("snapshot_interval", t) : t \in DOMAIN IntervalTexts \cup {"s", "x", "absent"}}
           \cup {Stream("temporal_profile", t) : t \in {"step", "cubic"}}
           \cup {Stream("out_of_bounds_policy", t) : t \in {"cycle", "wrap", "absent"}}
           \cup {Stream("dataset_path", ""), YMap("name" :> YSeq(<<>>))}
NamedTask(n) == YMap("name" :> YScalar(n))
Dep(d) == YMap("from" :> YScalar(d[1]) @@ "to" :> YScalar(d[2]))
TaskLists == {<<>>, <<"a">>, <<"a", "b">>, <<"a", "b", "c">>, <<"a", "b", "a">>}
Deps == {"a", "b", "c"} \X {"a", "b", "c"}
DepLists == UNION {[1 .. n -> Deps] : n \in 0 .. 2} \cup {<<<<"a", "b">>, d, e>> : d \in Deps, e \in Deps}
MCPipelines ==
    {NoFile, Malformed, YMap("tasks" :> YSeq(<<YMap("x" :> S1)>>)),
     YMap("settings" :> YMap("max_concurrency" :> YScalar("-1") @@ "shutdown_timeout" :> YScalar("x"))),
     YMap("dependencies" :> YSeq(<<YMap("from" :> YScalar("a"))>>))}
    \cup {YMap("streams" :> YSeq(<<s, t>>) @@ "settings" :> YMap("max_concurrency" :> YScalar("-1"))) :
            s \in Streams, t \in Streams}
    \cup {YMap("tasks" :> YSeq([i \in DOMAIN ts |-> NamedTask(ts[i])])
               @@ "dependencies" :> YSeq([i \in DOMAIN ds |-> Dep(ds[i])])) :
            ts \in TaskLists, ds \in DepLists}

ConfIdle == confDoc = YNull /\ confTree = NoTree /\ confProbe = <<>> /\ confAnswers = <<>>
LoadIdle == /\ manifest = YNull /\ config = Defaults /\ keyPos = 0 /\ loadResult = "idle"
            /\ fieldPath = NoKey /\ original = <<>>
PipeIdle == /\ pipeDoc = YNull /\ pipePhase = "idle" /\ pipePos = 0
            /\ pipeline = [settings |-> <<>>, streams |-> <<>>, task_names |-> <<>>, edges |-> <<>>]
DagIdle == /\ producer = [e \in Edges |-> DanglingId] /\ consumer = [e \in Edges |-> 0]
           /\ in_degree = [n \in Tasks |-> 0] /\ queue = {} /\ sorted = {} /\ sorted_count = 0
           /\ verdict = "dangling"

-----------------------------------------------------------------------------
(* The drivers: shared and unlimited dimensions for netCDF, layouts that   *)
(* fit and that do not for Zarr, every product template and messages of    *)
(* other programs for GRIB2.                                               *)

MCShapes == "lev" :> {<<2>>} @@ "time" :> {<<1>>, <<2>>} @@ "u" :> {<<2, 2>>} @@ "v" :> {<<2, 3>>}

\* A short has no _FillValue of its own type; lev stands for a fixed time axis.
MCDtypes == [x \in DOMAIN MCShapes |-> IF x = "u" THEN "short" ELSE "float"]

MCManifest == [x \in DOMAIN MCShapes |-> CASE x = "u" -> [units |-> "integer", _FillValue |-> "real"]
                                            [] x = "v" -> [_FillValue |-> "integer"]
                                            [] x = "lev" -> [standard_name |-> "time"]
                                            [] OTHER -> [units |-> "time"]]

Box(o, e, s) == [offsets |-> o, extents |-> e, strides |-> s]

MCBoxes == {Box(<<1>>, <<1>>, <<1>>), Box(<<0>>, <<2>>, <<2>>), Box(<<1, 0>>, <<1, 2>>, <<1, 2>>)}

MCZBoxes == {Box(<<1>>, <<2>>, <<1>>), Box(<<0>>, <<2>>, <<2>>), Box(<<0>>, <<1>>, <<1>>),
             Box(<<0, 0>>, <<1, 1>>, <<1, 1>>), Box(<<1, 0>>, <<1, 1>>, <<1, 1>>), Box(<<0, 0>>, <<1, 2>>, <<1, 1>>)}

MCGBoxes == {Box(<<1>>, <<2>>, <<1>>), Box(<<0>>, <<2>>, <<2>>),
             Box(<<1, 0>>, <<1, 2>>, <<1, 1>>), Box(<<0, 1>>, <<2, 1>>, <<1, 1>>)}

Layout(array, chunk, shard) ==
    [fields |-> Required, chunk |-> chunk, shard |-> shard, array |-> array,
     codec |-> "blosc", cloud |-> FALSE]

MCConfigs == {Layout(<<3>>, <<1>>, <<3>>), Layout(<<1, 3>>, <<1, 3>>, <<1, 3>>),
              Layout(<<2, 3>>, <<2, 2>>, <<2, 4>>), Layout(<<2, 3>>, <<3, 3>>, <<3, 3>>),
              Layout(<<2, 3>>, <<2, 2>>, <<3, 3>>), Layout(<<1, 2, 1>>, <<1, 1, 1>>, <<1, 2, 1>>),
              Layout(<<1, 2, 2>>, <<1, 2, 2>>, <<1, 2, 2>>), Layout(<<2, 2, 1>>, <<1, 2, 1>>, <<2, 2, 1>>),
              [Layout(<<3>>, <<1>>, <<3>>) EXCEPT !.cloud = TRUE],
              [Layout(<<3>>, <<1>>, <<3>>) EXCEPT !.fields = {"uri"}]}

Composition ==
    [aerosol_type |-> 3, optical_property_type |-> 4, wavelength_first_nm |-> 5,
     wavelength_last_nm |-> 6, ensemble_perturbation_number |-> 7, statistical_process |-> 8,
     chemical_constituent_type |-> 9, parameter |-> 11, parameter_number |-> 10,
     discipline |-> 2, scaled_value_first_surface |-> 50]

MCGManifests ==
    {[drt |-> "libaec", path |-> "f", gdt_number |-> 0, pdt_number |-> n] @@ Composition : n \in PdtNumbers}
      \cup {[drt |-> "jpeg2000", path |-> "f", gdt_number |-> 40], [drt |-> "png", path |-> "f"],
            [drt |-> "libaec"], [path |-> "f"], [drt |-> "libaec", path |-> "f", pdt_number |-> 1]}

MCGShapes == {[extents |-> <<2, 2>>, strides |-> <<2, 1>>], [extents |-> <<2, 2>>, strides |-> <<1, 2>>],
              [extents |-> <<3>>, strides |-> <<0>>], [extents |-> <<2, 1, 2>>, strides |-> <<0, 0, 0>>]}

ForeignField(n, d) ==
    [pdt |-> n, tmpl |-> Pdt([Default EXCEPT !.pdt_number = n]), gdt |-> Sparse(19, 7 :> 2 @@ 8 :> 2),
     drs |-> <<>>, npts |-> 4, data |-> [k \in 1 .. 4 |-> <<d, k>>]]

MCForeign ==
    {<<>>, <<[discipline |-> 0, fields |-> <<ForeignField(0, "a"), ForeignField(46, "b")>>],
             [discipline |-> 0, fields |-> <<ForeignField(0, "c"),
                                            [ForeignField(0, "d") EXCEPT !.gdt = Sparse(5, <<>>)]>>]>>}
-----------------------------------------------------------------------------
MCInit ==
    /\ DInit
    /\ \/ part = "conf" /\ ConfInit /\ LoadIdle /\ PipeIdle /\ DagIdle
       \/ part = "manifest" /\ ConfIdle /\ LoadInit /\ PipeIdle /\ DagIdle
       \/ part = "pipeline" /\ ConfIdle /\ LoadIdle /\ PipeInit /\ DagIdle
       \/ part = "dag" /\ ConfIdle /\ LoadIdle /\ PipeIdle /\ Init
       \/ part = "driver" /\ ConfIdle /\ LoadIdle /\ PipeIdle /\ DagIdle

MCNext ==
    \/ part = "conf" /\ ConfNext /\ UNCHANGED <<part, loadVars, pipeVars, vars, dvars>>
    \/ part = "manifest" /\ LoadNext /\ UNCHANGED <<part, confVars, pipeVars, vars, dvars>>
    \/ part = "pipeline" /\ PipeNext /\ UNCHANGED <<part, confVars, loadVars, vars, dvars>>
    \/ part = "dag" /\ Next /\ UNCHANGED <<part, confVars, loadVars, pipeVars, dvars>>
    \/ part = "driver" /\ DNext /\ UNCHANGED <<part, confVars, loadVars, pipeVars, vars>>

MCSpec == MCInit /\ [][MCNext]_allVars

\* A configuration is what its document says: lookups agree with each other,
\* what is accepted can be built, and it survives being written and read.
ConfigurationsKept == LookupsCoherent /\ AcceptedFits /\ NamedRoundTrip

=============================================================================
