----------------------------- MODULE ZarrDriver -----------------------------
(***************************************************************************)
(* amio::detail::Zarr_Driver: the TensorStore build, which keeps one array *)
(* per dataset, and the NCZarr build, which keeps one per variable.  The   *)
(* two libraries are external: what they accept, store and return as the   *)
(* driver's calls use them.                                                *)
(***************************************************************************)
EXTENDS Hyperslab, TLC

CONSTANTS
    ZNames,     \* variable names
    ZPayloads,  \* identities of the data written
    ZBoxes,     \* bounding boxes offered to a read
    Configs     \* dataset configurations: [fields, chunk, shard, array, codec, cloud]

VARIABLES
    build,    \* "tensorstore" or "nczarr"
    zdrv,     \* "closed", "write" or "read"
    cfg,      \* config_
    store,    \* array name -> [shape, cells, packed]
    zwrote,   \* history: per variable, [shape, data] of its last good write
    newest    \* history: the variable written last

zvars == <<build, zdrv, cfg, store, zwrote, newest>>

\* A read without a box.
NoBox == [offsets |-> <<>>, extents |-> <<>>, strides |-> <<>>]

Required == {"uri", "chunk_shape", "shard_shape", "array_shape", "codec"}

ZInit == /\ build \in {"tensorstore", "nczarr"}
         /\ zdrv = "closed"
         /\ cfg = CHOOSE c \in Configs : TRUE
         /\ store = <<>>
         /\ zwrote = <<>>
         /\ newest = CHOOSE x \in ZNames : TRUE

-----------------------------------------------------------------------------
(* Configuration.                                                         *)

parse_zarr_config(c) == Required \subseteq c.fields

validate_sharding(c) ==
    /\ Len(c.chunk) = Len(c.shard)
    /\ \A d \in DOMAIN c.chunk : c.chunk[d] > 0 /\ c.shard[d] > 0 /\ c.shard[d] % c.chunk[d] = 0

validate_codec(c) == c.codec \in {"blosc", "zstandard"}

\* NCZarr ignores the shard shape and takes no cloud URI.
Acceptable(c) ==
    /\ parse_zarr_config(c) /\ validate_codec(c)
    /\ IF build = "tensorstore" THEN validate_sharding(c) ELSE ~c.cloud

-----------------------------------------------------------------------------
(* The arrays.                                                            *)

\* TensorStore's one array is not looked up by the variable's name.
ArrayOf(x) == IF build = "tensorstore" THEN "array" ELSE x

ZDatum(p, k) == <<p, k>>

ZData(p, shape) == [k \in 1 .. total_elements(shape) |-> ZDatum(p, k)]

Fill(shape) == [k \in 1 .. total_elements(shape) |-> "fill"]

\* nc_def_var_chunking refuses a chunk larger than its dimension.
Chunkable(c, shape) ==
    \A d \in DOMAIN shape : d \in DOMAIN c.chunk => c.chunk[d] <= shape[d]

\* nc_def_var, then chunking and codec.
ZDefined(c, shape) == [shape |-> shape, cells |-> Fill(shape), packed |-> Chunkable(c, shape)]

\* tensorstore::Read aligns the source with the target from the last
\* dimension on; leading source dimensions must have one element.
Aligned(src, tgt) ==
    LET k == Len(src) - Len(tgt)
    IN  /\ k >= 0
        /\ \A i \in 1 .. k : src[i] = 1
        /\ \A i \in DOMAIN tgt : src[k + i] = tgt[i]

\* describe_variable: with two dimensions or more the leading one counts
\* timesteps.  The NCZarr build describes nothing.
zdescribe(a) == IF Len(a.shape) >= 2
                  THEN [shape |-> Tail(a.shape), steps |-> Head(a.shape)]
                  ELSE [shape |-> a.shape, steps |-> 1]

Describable(x) == zdrv = "read" /\ build = "tensorstore" /\ ArrayOf(x) \in DOMAIN store

\* The box slices the leading dimensions of the array, as many as it has.
Sliced(a, b) == [offsets |-> b.offsets \o [i \in 1 .. Len(a.shape) - Len(b.offsets) |-> 0],
                 extents |-> b.extents \o SubSeq(a.shape, Len(b.offsets) + 1, Len(a.shape)),
                 strides |-> b.strides \o [i \in 1 .. Len(a.shape) - Len(b.offsets) |-> 1]]

\* A read without a box takes the whole array; the timestep is not used.
ZSource(a, b) == IF b = NoBox THEN Whole(a.shape) ELSE Sliced(a, b)

ZTarget(info, b) == IF b = NoBox THEN info.shape ELSE b.extents

ReadOK(a, info, b) == /\ b # NoBox => validate_bbox(Sliced(a, b), a.shape)
                      /\ Aligned(ZSource(a, b).extents, ZTarget(info, b))

ZRead(a, b) == [e \in 1 .. total_elements(ZSource(a, b).extents) |->
                  a.cells[GatherAt(a.shape, ZSource(a, b))[e]]]

-----------------------------------------------------------------------------
(* The calls.                                                             *)

\* TensorStore creates the dataset's array at once, replacing what is there.
ZOpenWrite(c) ==
    /\ zdrv = "closed" /\ Acceptable(c)
    /\ zdrv' = "write"
    /\ cfg' = c
    /\ store' = IF build = "tensorstore" THEN "array" :> ZDefined(c, c.array) ELSE <<>>
    /\ zwrote' = <<>>
    /\ UNCHANGED <<build, newest>>

\* The same checks for reading; then the store must be there.
ZOpenRead(c) ==
    /\ zdrv = "closed" /\ Acceptable(c) /\ store # <<>>
    /\ zdrv' = "read"
    /\ cfg' = c
    /\ UNCHANGED <<build, store, zwrote, newest>>

\* Refused: the configuration is kept, nothing else changes.
ZOpenFails(c) ==
    /\ zdrv = "closed"
    /\ cfg' = IF parse_zarr_config(c) THEN c ELSE cfg
    /\ UNCHANGED <<build, zdrv, store, zwrote, newest>>

Log(x, shape, p) ==
    /\ zwrote' = (x :> [shape |-> shape, data |-> p]) @@ zwrote
    /\ newest' = x

\* TensorStore: the payload has the shape of the array.
ZWriteTensor(x, p) ==
    /\ zdrv = "write" /\ build = "tensorstore"
    /\ store' = [store EXCEPT !["array"].cells = ZData(p, cfg.array)]
    /\ Log(x, cfg.array, p)
    /\ UNCHANGED <<build, zdrv, cfg>>

\* NCZarr: a new variable is defined, with dimensions of its own.
ZWriteNc(x, shape, p) ==
    /\ zdrv = "write" /\ build = "nczarr"
    /\ x \in DOMAIN store \/ Chunkable(cfg, shape)
    /\ store' = (x :> [(IF x \in DOMAIN store THEN store[x] ELSE ZDefined(cfg, shape))
                         EXCEPT !.cells = ZData(p, shape)]) @@ store
    /\ Log(x, shape, p)
    /\ UNCHANGED <<build, zdrv, cfg>>

\* The chunk shape does not fit: write throws, the variable is defined.
ZWriteThrows(x, shape) ==
    /\ zdrv = "write" /\ build = "nczarr"
    /\ x \notin DOMAIN store /\ ~Chunkable(cfg, shape)
    /\ store' = (x :> ZDefined(cfg, shape)) @@ store
    /\ UNCHANGED <<build, zdrv, cfg, zwrote, newest>>

ZClose == /\ zdrv # "closed"
          /\ zdrv' = "closed"
          /\ UNCHANGED <<build, cfg, store, zwrote, newest>>

ZNext == \/ \E c \in Configs : ZOpenWrite(c) \/ ZOpenRead(c) \/ ZOpenFails(c)
         \/ \E x \in ZNames, p \in ZPayloads :
               ZWriteTensor(x, p) \/ ZWriteNc(x, cfg.array, p) \/ ZWriteThrows(x, cfg.array)
         \/ ZClose

-----------------------------------------------------------------------------
\* One timestep, of one or two dimensions.
SingleRecord(a) == zdescribe(a).steps = 1 /\ Len(a.shape) <= 3

(***************************************************************************)
(* A Zarr read of an array of one timestep, of one or two dimensions, that *)
(* succeeds is right: whatever the box, it gives the elements of the       *)
(* dataset's last write that the box means, never another region of the    *)
(* array.  Of other arrays nothing is said: read does not use the timestep *)
(* and slices the leading dimensions of the array, the timestep's first,   *)
(* by the box of the dimensions after it (zarr_driver.cpp:650, 710-721).   *)
(* The shapes seldom match then, and the read is refused; where all the    *)
(* extents are 1 it gives another element than the one asked for.          *)
(***************************************************************************)
ZarrReadsRight ==
    \A x \in ZNames, b \in ZBoxes \cup {NoBox} :
        Describable(x) /\ DOMAIN zwrote # {} /\ SingleRecord(store[ArrayOf(x)]) =>
            LET a    == store[ArrayOf(x)]
                info == zdescribe(a)
                all  == ZData(zwrote[newest].data, zwrote[newest].shape)
            IN  /\ b # NoBox => validate_bbox(b, info.shape)
                /\ ReadOK(a, info, b)
                => ZRead(a, b) = IF b = NoBox THEN all ELSE Boxed(all, info.shape, b)

=============================================================================
