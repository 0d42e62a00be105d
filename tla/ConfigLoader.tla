---------------------------- MODULE ConfigLoader ----------------------------
(***************************************************************************)
(* AMIO ConfigLoader: a manifest is read key by key into a Config, the     *)
(* Config is validated, written out as YAML and read again.  A Config is a *)
(* function from keys to values: numbers, texts, and lists of either (the  *)
(* optional numa_domain is a list of at most one).                         *)
(***************************************************************************)
EXTENDS ConfTree

CONSTANT Manifests   \* what the path given to parse holds

VARIABLES
    manifest,   \* the document being read
    config,     \* config_out
    keyPos,     \* the key about to be read
    loadResult, \* "" while running, then the error code
    fieldPath,  \* error_out.field_path, as a key
    original    \* <<>>, or <<the Config that serialize wrote>>

loadVars == <<manifest, config, keyPos, loadResult, fieldPath, original>>

\* The keys in the order populate_from_conf reads them.
KeyOrder == << <<"staging_pool", "buffer_count">>, <<"staging_pool", "buffer_capacity_bytes">>,
   <<"staging_pool", "max_buffer_count">>, <<"worker_pool", "threads">>,
   <<"worker_pool", "cpu_cores">>, <<"worker_pool", "numa_domain">>,
   <<"prefetch", "depth">>, <<"prefetch", "read_timeout_s">>, <<"staging_timeout_ms">>,
   <<"backpressure", "low_watermark">>, <<"backpressure", "high_watermark">>,
   <<"backpressure", "queue_capacity">>, <<"backend">>, <<"codec", "active_codec">>,
   <<"codec", "lossless_allow_list">>, <<"io_ranks">> >>
Keys      == ToSet(KeyOrder)
StringKeys  == {<<"backend">>, <<"codec", "active_codec">>}
IntListKeys == {<<"worker_pool", "cpu_cores">>, <<"io_ranks">>}
CodecKey    == <<"codec", "lossless_allow_list">>
NumaKey     == <<"worker_pool", "numa_domain">>
SizeKeys    == Keys \ (StringKeys \cup IntListKeys \cup {CodecKey, NumaKey})
NoKey       == <<>>

\* Config{}: the defaults of the struct.
Defaults ==
    [k \in Keys |->
       CASE k = <<"staging_pool", "buffer_count">> -> 16
         [] k = <<"staging_pool", "buffer_capacity_bytes">> -> 1048576
         [] k = <<"staging_pool", "max_buffer_count">> -> 4096
         [] k = <<"worker_pool", "threads">> -> 1
         [] k = <<"prefetch", "depth">> -> 4
         [] k = <<"prefetch", "read_timeout_s">> -> 60
         [] k = <<"staging_timeout_ms">> -> 5000
         [] k = <<"backpressure", "queue_capacity">> -> 1024
         [] k \in StringKeys -> ""
         [] k \in IntListKeys \cup {CodecKey, NumaKey} -> <<>>
         [] OTHER -> 0]

MaxSize == 2147483647   \* stands for SIZE_MAX: above every limit
\* static_cast<std::size_t> of an int
ToSize(n) == IF n < 0 THEN MaxSize + (n + 1) ELSE n

\* What the accessor of a key returns, and the value it stores.
ReadNode(m, k) == CASE k \in StringKeys -> GetString(m, k)
                    [] k \in IntListKeys -> GetIntList(m, k)
                    [] k = CodecKey -> GetStringList(m, k)
                    [] OTHER -> GetInt(m, k)
Texts(items) == [i \in DOMAIN items |-> items[i].text]
ValueOf(node, k) == CASE k \in StringKeys -> node.text
                      [] k \in IntListKeys -> [i \in DOMAIN node.items |-> IntOf[node.items[i].text]]
                      [] k = CodecKey -> Texts(node.items)
                      [] k = NumaKey -> <<IntOf[node.text]>>
                      [] OTHER -> ToSize(IntOf[node.text])

-----------------------------------------------------------------------------
ValidCodecs == {"blosc", "zstandard", "libaec", "lossless_jpeg2000"}

Outside(c, k, lo, hi) == c[k] < lo \/ c[k] > hi
Invalid(k)   == [code |-> "AMIO_ERR_MANIFEST_INVALID", field |-> k]
Forbidden(k) == [code |-> "AMIO_ERR_LOSSY_CODEC_FORBIDDEN", field |-> k]

\* The first failing rule of the sizes, in the order of the checks.
ValidateSizes(c) ==
    LET count == KeyOrder[1]  capacity == KeyOrder[2]  ceiling == KeyOrder[3]
        low == KeyOrder[10]  high == KeyOrder[11]  queue == KeyOrder[12] IN
    IF Outside(c, count, 1, 4096) THEN Invalid(count)
    ELSE IF Outside(c, capacity, 1, 1073741824) THEN Invalid(capacity)
    ELSE IF Outside(c, ceiling, c[count], 4096) THEN Invalid(ceiling)
    ELSE IF Outside(c, KeyOrder[4], 1, 256) THEN Invalid(KeyOrder[4])
    ELSE IF Outside(c, KeyOrder[7], 1, 1024) THEN Invalid(KeyOrder[7])
    ELSE IF Outside(c, KeyOrder[8], 1, 3600) THEN Invalid(KeyOrder[8])
    ELSE IF Outside(c, KeyOrder[9], 1, 60000) THEN Invalid(KeyOrder[9])
    ELSE IF c[high] > 0 /\ c[low] >= c[high] THEN Invalid(low)
    ELSE IF c[high] > 0 /\ c[high] > c[queue] THEN Invalid(high)
    ELSE [code |-> "AMIO_OK", field |-> NoKey]

\* Then the codecs: the list's own, the active one, and the one on the other.
ValidateCodecs(c) ==
    LET active == c[<<"codec", "active_codec">>]  list == ToSet(c[CodecKey]) IN
    CASE ~(list \subseteq ValidCodecs) -> Forbidden(CodecKey)
      [] list \subseteq ValidCodecs /\ active # "" /\ (active \notin ValidCodecs
           \/ (list # {} /\ active \notin list)) -> Forbidden(<<"codec", "active_codec">>)
      [] OTHER -> [code |-> "AMIO_OK", field |-> NoKey]

Validate(c) == IF ValidateSizes(c).code # "AMIO_OK" THEN ValidateSizes(c) ELSE ValidateCodecs(c)

-----------------------------------------------------------------------------
IntText(n) == CHOOSE t \in IntTexts : IntOf[t] = n
FitsInt(n) == \E t \in IntTexts : IntOf[t] = n

\* One entry of serialize, as the parser reads it back: nothing after the colon
\* is a null, and a size beyond int is a text no int accessor reads.
Emit(k, v) ==
    CASE k \in StringKeys -> IF v = "" THEN YNull ELSE YScalar(v)
      [] k \in IntListKeys -> IF v = <<>> THEN YNull ELSE YSeq([i \in DOMAIN v |-> YScalar(IntText(v[i]))])
      [] k = CodecKey -> IF v = <<>> THEN YNull ELSE YSeq([i \in DOMAIN v |-> YScalar(v[i])])
      [] k = NumaKey -> IF v = <<>> THEN YNull ELSE YScalar(IntText(v[1]))
      [] OTHER -> YScalar(IF FitsInt(v) THEN IntText(v) ELSE "18446744073709551615")

\* Empty lists and an absent numa_domain are left out.
Written(c) == {k \in Keys : k \in IntListKeys \cup {CodecKey, NumaKey} => c[k] # <<>>}

\* The document of a set of keys, a map per section.
DocumentOf(ks, node) ==
    LET top == {k[1] : k \in ks} IN
    YMap([s \in top |-> IF <<s>> \in ks THEN node[<<s>>]
                        ELSE YMap([f \in {k[2] : k \in {k \in ks : k[1] = s}} |-> node[<<s, f>>]])])

Serialize(c) == DocumentOf(Written(c), [k \in Written(c) |-> Emit(k, c[k])])

-----------------------------------------------------------------------------
LoadInit ==
    /\ manifest \in Manifests
    /\ config = Defaults
    /\ keyPos = 0
    /\ loadResult = ""
    /\ fieldPath = NoKey
    /\ original = <<>>

\* parse: the factory's error has no field.
OpenManifest ==
    /\ original = <<>> /\ keyPos = 0 /\ loadResult = ""
    /\ CASE FromFile(manifest) = "File_Not_Found" ->
              loadResult' = "AMIO_ERR_MANIFEST_NOT_FOUND" /\ UNCHANGED keyPos
         [] FromFile(manifest) = "Parse_Error" ->
              loadResult' = "AMIO_ERR_MANIFEST_INVALID" /\ UNCHANGED keyPos
         [] OTHER -> keyPos' = 1 /\ UNCHANGED loadResult
    /\ config' = Defaults
    /\ UNCHANGED <<manifest, fieldPath, original>>

\* parse_string, on the text serialize wrote
OpenString ==
    /\ original # <<>> /\ keyPos = 0 /\ loadResult = ""
    /\ FromText(manifest) = "ok"
    /\ keyPos' = 1
    /\ config' = Defaults
    /\ UNCHANGED <<manifest, loadResult, fieldPath, original>>

\* populate_from_conf, one key: skipped when absent, an error when it does not convert.
ReadKey ==
    /\ keyPos \in 1 .. Len(KeyOrder) /\ loadResult = ""
    /\ LET k == KeyOrder[keyPos]  r == ReadNode(manifest, k) IN
         CASE ~Has(manifest, k) -> keyPos' = keyPos + 1 /\ UNCHANGED <<config, loadResult, fieldPath>>
           [] Has(manifest, k) /\ r.code = "ok" ->
                /\ config' = [config EXCEPT ![k] = ValueOf(r.node, k)]
                /\ keyPos' = keyPos + 1
                /\ UNCHANGED <<loadResult, fieldPath>>
           [] OTHER -> /\ loadResult' = "AMIO_ERR_MANIFEST_INVALID"
                       /\ fieldPath' = k
                       /\ UNCHANGED <<config, keyPos>>
    /\ UNCHANGED <<manifest, original>>

ValidateConfig ==
    /\ keyPos = Len(KeyOrder) + 1 /\ loadResult = ""
    /\ loadResult' = Validate(config).code
    /\ fieldPath' = Validate(config).field
    /\ UNCHANGED <<manifest, config, keyPos, original>>

\* serialize, and the text is parsed as the next manifest.
SerializeAndReload ==
    /\ loadResult = "AMIO_OK" /\ original = <<>>
    /\ original' = <<config>>
    /\ manifest' = Serialize(config)
    /\ keyPos' = 0 /\ loadResult' = "" /\ fieldPath' = NoKey
    /\ UNCHANGED config

LoadNext == OpenManifest \/ OpenString \/ ReadKey \/ ValidateConfig \/ SerializeAndReload

-----------------------------------------------------------------------------
Loaded == loadResult = "AMIO_OK"
Unreadable(m) == {k \in Keys : Has(m, k) /\ ReadNode(m, k).code # "ok"}

(***************************************************************************)
(* A Config is accepted only if every part built from it can be: the pool  *)
(* holds its slots and can grow to its ceiling, none of these sizes was    *)
(* negative in the manifest and cast to a huge one, the watermarks are     *)
(* ordered and within the queue, and the active codec is lossless and      *)
(* listed; nothing unreadable is skipped over.                             *)
(***************************************************************************)
AcceptedFits ==
    Loaded =>
      /\ Unreadable(manifest) = {}
      /\ config[KeyOrder[1]] \in 1 .. 4096
      /\ config[KeyOrder[3]] \in config[KeyOrder[1]] .. 4096
      /\ \A k \in {KeyOrder[i] : i \in {1, 2, 3, 4, 7, 8, 9}} :
           Has(manifest, k) => IntOf[Node(manifest, k).node.text] > 0
      /\ config[KeyOrder[11]] > 0 => /\ config[KeyOrder[10]] < config[KeyOrder[11]]
                                     /\ config[KeyOrder[11]] <= config[KeyOrder[12]]
      /\ config[<<"codec", "active_codec">>] \in ValidCodecs \cup {""}
      /\ ToSet(config[CodecKey]) \subseteq ValidCodecs

(***************************************************************************)
(* A Config that names its backend and its codec, and whose sizes an int   *)
(* holds, survives being written and read again, empty lists and absent    *)
(* options included.                                                       *)
(***************************************************************************)
NamedRoundTrip ==
    /\ original # <<>>
    /\ \A k \in StringKeys : original[1][k] # ""
    /\ \A k \in SizeKeys : FitsInt(original[1][k])
    => /\ loadResult \in {"", "AMIO_OK"}
       /\ Loaded => config = original[1]

=============================================================================
