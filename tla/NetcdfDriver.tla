---------------------------- MODULE NetcdfDriver ----------------------------
(***************************************************************************)
(* amio::detail::NetCDF_Driver: one driver and the file it writes, closes  *)
(* and reads again.  Each call that holds g_nc_driver_mutex is one step.   *)
(* The netCDF library is external: dimensions, variables and cells, as the *)
(* driver's calls use them.                                                *)
(*                                                                         *)
(* A dimension is named <<"lon">> after a coordinate variable, or          *)
(* <<"u", 0>> for "u_dim0"; no name of Fields holds a letter the axis      *)
(* scores look for.                                                        *)
(***************************************************************************)
EXTENDS Hyperslab, TLC

LOCAL INSTANCE SequencesExt
LOCAL INSTANCE FiniteSetsExt

CONSTANTS
    Fields,      \* names of the data variables
    Shapes,      \* per variable, the shapes it is written with, of one rank
    Payloads,    \* identities of the data written
    Boxes,       \* bounding boxes offered to a read
    MaxFaults,   \* bound on the writes of one file that fail
    Dtypes,      \* per variable, its netCDF type
    Manifest     \* per variable, its attributes: [key |-> class of the literal]

Coordinates == {"lon", "lat", "lev", "time"}

Names == DOMAIN Shapes

ASSUME NetcdfAssumption ==
    /\ Names \subseteq Fields \cup Coordinates
    /\ MaxFaults \in Nat
    /\ DOMAIN Manifest = Names /\ DOMAIN Dtypes = Names
    /\ \A x \in Names : \A s, t \in Shapes[x] : Len(s) = Len(t)

VARIABLES
    drv,      \* "closed", "write" or "read": is_open_ and is_write_mode_
    file,     \* the file at file_path_
    wrote,    \* history: per variable, the last write that succeeded
    torn,     \* history: variables whose definition failed before its attributes
    faults    \* how many writes of the file have failed

ncVars == <<drv, file, wrote, torn, faults>>

EmptyFile == [dims |-> <<>>, vars |-> <<>>]
Never     == [shape |-> <<>>]

NcInit == /\ drv = "closed"
          /\ file = EmptyFile
          /\ wrote = [x \in Names |-> Never]
          /\ torn = {} /\ faults = 0

-----------------------------------------------------------------------------
(* Choosing the dimensions of a new variable.                             *)

\* axis_role: X for the last dimension, then Y, Z, T.
Role(shape, d) == Len(shape) - d

\* The names that score 3 on a role, and the ones that merely contain one of
\* the role's words ("lat" contains a "t").
Exact  == [r \in 0 .. 3 |-> <<{"lon"}, {"lat"}, {"lev"}, {"time"}>>[r + 1]]
Within == [r \in 0 .. 3 |-> <<{"lon"}, {"lat"}, {"lev"}, {"time", "lat"}>>[r + 1]]

Score(name, r) == CASE r \notin 0 .. 3                      -> 0
                    [] Len(name) = 1 /\ name[1] \in Exact[r]  -> 3
                    [] Len(name) = 1 /\ name[1] \in Within[r] -> 2
                    [] Len(name) = 2                          -> 1
                    [] OTHER                                  -> 0

OfLength(dims, n) == {i \in DOMAIN dims : dims[i].len = n}

\* The best-scoring dimension of the length asked for, the first of equals.
BestDim(dims, n, r) ==
    LET top == Max({Score(dims[i].name, r) : i \in OfLength(dims, n)})
    IN  Min({i \in OfLength(dims, n) : Score(dims[i].name, r) = top})

DimName(x, shape, d) ==
    IF x \in Coordinates /\ Len(shape) = 1 THEN <<x>> ELSE <<x, d - 1>>

ByName(dims, name) == {i \in DOMAIN dims : dims[i].name = name}

\* One turn of the loop over the dimensions of x: a dimension of the right
\* length is shared, unless x is a coordinate; otherwise the variable's own
\* is used, defined if it is not there; "time" is the record dimension.
ChooseDim(x, shape, acc, d) ==
    LET shared == x \notin Coordinates /\ OfLength(acc.dims, shape[d]) # {}
        name   == DimName(x, shape, d)
        own    == ByName(acc.dims, name)
        new    == [name |-> name, unlim |-> name = <<"time">>,
                   len |-> IF name = <<"time">> THEN 0 ELSE shape[d]]
    IN  CASE shared    -> [acc EXCEPT !.ids = Append(@, BestDim(acc.dims, shape[d], Role(shape, d)))]
          [] ~shared /\ own # {} -> [acc EXCEPT !.ids = Append(@, Min(own))]
          [] OTHER -> [dims |-> Append(acc.dims, new), ids |-> Append(acc.ids, Len(acc.dims) + 1)]

ChooseDims(f, x, shape) ==
    FoldLeft(LAMBDA acc, d : ChooseDim(x, shape, acc, d), [dims |-> f.dims, ids |-> <<>>],
             [d \in DOMAIN shape |-> d])

-----------------------------------------------------------------------------
(* Attributes.                                                            *)

\* parse_attr_value's classes of literal: "integer", "real", "text", and
\* "time" for text by which CF knows a time axis (axis "T", standard_name
\* "time", units with "since").  CF units are text whatever they say.
Class(key, class) == IF key = "units" \/ class = "time" THEN "text" ELSE class

\* nc_write_attributes: the type an attribute gets in the file.  A numeric
\* _FillValue takes the type of its variable, for four of the types.
AttrType(x, key, class) ==
    CASE Class(key, class) = "text" -> "char"
      [] Class(key, class) # "text" /\ key = "_FillValue" /\ Dtypes[x] \in {"float", "double", "int", "int64"} -> Dtypes[x]
      [] OTHER -> IF class = "integer" THEN "int64" ELSE "double"

nc_write_attributes(x) ==
    [k \in DOMAIN Manifest[x] |-> [type |-> AttrType(x, k, Manifest[x][k]), time |-> Manifest[x][k] = "time"]]

\* Lookups are refused unless the driver is open for reading.
HasAttribute(x, key) == drv = "read" /\ x \in DOMAIN file.vars /\ key \in DOMAIN file.vars[x].attrs

get_text_attribute(x, key)    == HasAttribute(x, key) /\ file.vars[x].attrs[key].type = "char"
get_numeric_attribute(x, key) == HasAttribute(x, key) /\ file.vars[x].attrs[key].type # "char"

-----------------------------------------------------------------------------
(* The file.                                                              *)

\* Dimensions, variable and attributes are defined, and the file leaves
\* define mode.
Defined(f, x, shape) ==
    LET chosen == ChooseDims(f, x, shape)
        v      == [ids |-> chosen.ids, cells |-> <<>>, attrs |-> nc_write_attributes(x)]
    IN  IF x \in DOMAIN f.vars THEN f
        ELSE [dims |-> chosen.dims, vars |-> f.vars @@ (x :> v)]

\* nc_put_vara at the origin: refused past the end of a fixed dimension,
\* while a record dimension grows.
Fits(f, x, shape) ==
    \A d \in DOMAIN shape :
        LET dim == f.dims[f.vars[x].ids[d]] IN dim.unlim \/ shape[d] <= dim.len

Grown(f, x, shape) ==
    [i \in DOMAIN f.dims |->
       LET here == {d \in DOMAIN shape : f.vars[x].ids[d] = i}
       IN  IF f.dims[i].unlim
             THEN [f.dims[i] EXCEPT !.len = Max({@} \cup {shape[d] : d \in here})]
             ELSE f.dims[i]]

Datum(p, k) == <<p, k>>

Put(f, x, shape, p) ==
    LET at == Turns(shape)
        new == [c \in Range(at) |-> Datum(p, CHOOSE k \in DOMAIN at : at[k] = c)]
    IN  [f EXCEPT !.dims = Grown(f, x, shape), !.vars[x].cells = new @@ @]

Extents(f, x) == [d \in DOMAIN f.vars[x].ids |-> f.dims[f.vars[x].ids[d]].len]

\* nc_get_vara and nc_get_vars over the cells: never-written ones hold fill.
Get(f, x, b) == [e \in DOMAIN Selected(b) |->
                   IF Selected(b)[e] \in DOMAIN f.vars[x].cells
                     THEN f.vars[x].cells[Selected(b)[e]] ELSE "fill"]

-----------------------------------------------------------------------------
(* describe_variable and read.                                            *)

\* is_time_axis: a record dimension, one with a CF time name, or one whose
\* coordinate variable CF knows as a time axis.
IsTimeAxis(f, dim) ==
    \/ dim.unlim
    \/ dim.name = <<"time">>
    \/ /\ Len(dim.name) = 1 /\ dim.name[1] \in DOMAIN f.vars
       /\ LET attrs == f.vars[dim.name[1]].attrs
          IN \E k \in {"axis", "standard_name", "units"} \cap DOMAIN attrs : attrs[k].time

\* The leading dimension counts timesteps, unless it is the only one.
HasSteps(f, x) == IsTimeAxis(f, f.dims[f.vars[x].ids[1]]) /\ Len(f.vars[x].ids) > 1

describe_variable(f, x) ==
    LET ext == Extents(f, x)
    IN  IF HasSteps(f, x)
          THEN [shape |-> Tail(ext), steps |-> Max({Head(ext), 1})]
          ELSE [shape |-> ext, steps |-> 1]

\* The start, count and stride arrays: the timestep goes in front when the
\* file has one dimension more than the description.
ReadBox(f, x, info, t, b) ==
    IF Len(f.vars[x].ids) = Len(info.shape) + 1
      THEN [offsets |-> <<t>> \o b.offsets, extents |-> <<1>> \o b.extents,
            strides |-> <<1>> \o b.strides]
      ELSE b

\* read of timestep t under the description the core holds; no box is the
\* whole shape.
ReadData(f, x, info, t, b) == Get(f, x, ReadBox(f, x, info, t, b))

-----------------------------------------------------------------------------
(* The calls.                                                             *)

\* nc_create clobbers; open_write throws on a driver that is open.
OpenWrite == /\ drv = "closed"
             /\ drv' = "write"
             /\ file' = EmptyFile
             /\ wrote' = [x \in Names |-> Never]
             /\ torn' = {} /\ faults' = 0

\* A global attribute cannot be written: the file is empty by then.  (After a
\* bad configuration or a failure of nc_create all is as it was.)
OpenWriteFails == /\ drv = "closed"
                  /\ file' = EmptyFile
                  /\ wrote' = [x \in Names |-> Never]
                  /\ torn' = {} /\ faults' = 0
                  /\ UNCHANGED drv

OpenRead == /\ drv = "closed"
            /\ drv' = "read"
            /\ UNCHANGED <<file, wrote, torn, faults>>

NcWrite(x, shape, p) ==
    /\ drv = "write"
    /\ Fits(Defined(file, x, shape), x, shape)
    /\ file' = Put(Defined(file, x, shape), x, shape, p)
    /\ wrote' = [wrote EXCEPT ![x] = [shape |-> shape, data |-> p,
                                      grown |-> Grown(Defined(file, x, shape), x, shape)]]
    /\ UNCHANGED <<drv, torn, faults>>

Fault == faults < MaxFaults /\ faults' = faults + 1

\* The library fails between two calls of a write.  The definition of a new
\* variable may stop after some of its dimensions,
DimsFail(x, shape) ==
    /\ drv = "write" /\ x \notin DOMAIN file.vars
    /\ Fault
    /\ \E n \in DOMAIN shape : file' = [file EXCEPT !.dims = ChooseDims(file, x, SubSeq(shape, 1, n)).dims]
    /\ UNCHANGED <<drv, wrote, torn>>

\* after nc_def_var, with some of the attributes written: the variable exists,
\* so that no later write defines it or adds the rest,
AttributesFail(x, shape) ==
    /\ drv = "write" /\ x \notin DOMAIN file.vars
    /\ Fault
    /\ \E ks \in SUBSET DOMAIN Manifest[x] :
         /\ ks # DOMAIN Manifest[x]
         /\ file' = [Defined(file, x, shape) EXCEPT !.vars[x].attrs = [k \in ks |-> @[k]]]
    /\ torn' = torn \cup {x}
    /\ UNCHANGED <<drv, wrote>>

\* or after them, before the data.
WriteFails(x, shape) ==
    /\ drv = "write"
    /\ Fault
    /\ file' = Defined(file, x, shape)
    /\ UNCHANGED <<drv, wrote, torn>>

\* close; nc_close may fail, and the driver stays open.
NcClose == /\ drv # "closed"
           /\ drv' = "closed"
           /\ UNCHANGED <<file, wrote, torn, faults>>

\* The host writes a variable again with the same extents, or with more
\* records.
Again(x) == {s \in Shapes[x] : wrote[x] # Never =>
                                 \A d \in DOMAIN s : s[d] >= wrote[x].shape[d]}

NcNext == \/ OpenWrite \/ OpenWriteFails \/ OpenRead \/ NcClose
          \/ \E x \in Names : \E s \in Again(x) :
                DimsFail(x, s) \/ AttributesFail(x, s) \/ WriteFails(x, s) \/ \E p \in Payloads : NcWrite(x, s, p)

-----------------------------------------------------------------------------
\* No record dimension of x has grown since x was written.
Settled(x) == \A i \in DOMAIN file.vars[x].ids :
                 LET id == file.vars[x].ids[i]
                 IN  file.dims[id].len = wrote[x].grown[id].len

WrittenData(x) == [k \in 1 .. total_elements(wrote[x].shape) |-> Datum(wrote[x].data, k)]

ReadWhole(x, info) == FlattenSeq([t \in 1 .. info.steps |->
                                    ReadData(file, x, info, t - 1, Whole(info.shape))])

(***************************************************************************)
(* A variable is read back as it was last written: the timesteps the       *)
(* driver describes, read in order, give every element in its place,       *)
(* whatever dimensions the variable came to share with the others, and     *)
(* whatever writes failed half way - unless a record dimension it shares   *)
(* has grown since, by a write of another variable: the variable has grown *)
(* with it then, by fill values.  Each attribute of the manifest is found  *)
(* by the getter of its class and by no other - unless the write that      *)
(* defined the variable failed at its attributes (netcdf_driver.cpp:614):  *)
(* the missing ones are then never written, but none has another class.    *)
(***************************************************************************)
ReadsBack ==
    drv = "read" =>
        \A x \in Names : wrote[x] # Never =>
            /\ Settled(x) => ReadWhole(x, describe_variable(file, x)) = WrittenData(x)
            /\ \A k \in DOMAIN Manifest[x] :
                 LET text == Class(k, Manifest[x][k]) = "text"
                 IN /\ get_text_attribute(x, k) => text
                    /\ get_numeric_attribute(x, k) => ~text
                    /\ get_text_attribute(x, k) \/ get_numeric_attribute(x, k) \/ x \in torn

(***************************************************************************)
(* A box amio_core lets through selects what it means: reading it gives    *)
(* the elements of the whole read that lie in it, in their order.          *)
(***************************************************************************)
BoxesSelect ==
    drv = "read" =>
        \A x \in Names, b \in Boxes : x \in DOMAIN file.vars =>
            LET info == describe_variable(file, x)
            IN  validate_bbox(b, info.shape) =>
                  \A t \in 0 .. info.steps - 1 :
                      ReadData(file, x, info, t, b)
                        = Boxed(ReadData(file, x, info, t, Whole(info.shape)), info.shape, b)
=============================================================================
