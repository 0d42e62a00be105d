---------------------------- MODULE Grib2Driver ----------------------------
(***************************************************************************)
(* amio::detail::GRIB2_Driver (built with g2c): the templates a write      *)
(* fills in, the record index open_read builds from a file, and the driver *)
(* with the file it writes and reads.  g2c is external: a message is kept  *)
(* as it was composed.  Templates are indexed from zero, as in the code.   *)
(***************************************************************************)
EXTENDS Hyperslab, TLC

LOCAL INSTANCE SequencesExt

CONSTANTS
    GManifests,    \* dataset configurations: "drt", "path" and the "grib2." settings they give
    GShapes,      \* shapes written: [extents, strides]
    GPayloads,    \* identities of the data written
    GBoxes,       \* bounding boxes offered to a read
    Foreign,      \* files found on disk: sequences of messages
    MaxMessages   \* bound on the messages of the file

VARIABLES
    gdrv,     \* [init, reading, out, path, settings, drt, index]
    gfile,    \* the messages of the file
    gwrote    \* history: the writes since the file was created

gvars == <<gdrv, gfile, gwrote>>

-----------------------------------------------------------------------------
(* Settings.                                                              *)

Default ==
    [discipline |-> 0, gdt_number |-> 0, lat_first |-> 90, lon_first |-> 0, lat_last |-> -90,
     lon_last |-> 359, pdt_number |-> 0, parameter_category |-> 0, parameter_number |-> 0,
     type_of_first_fixed_surface |-> 100, scale_factor_first_surface |-> 0,
     scaled_value_first_surface |-> 0, forecast_time |-> 0, indicator_of_unit_of_time |-> 1,
     decimal_scale_factor |-> 0, chemical_constituent_type |-> 0, aerosol_type |-> 0,
     size_dist_param_first |-> 0, size_dist_param_second |-> 0, optical_property_type |-> 0,
     wavelength_first_nm |-> 0, wavelength_last_nm |-> 0, ensemble_perturbation_number |-> 0,
     statistical_process |-> 0, time_range_unit |-> 0, time_range_length |-> 0,
     number_of_time_range_specs |-> 0, total_missing_from_statistical_process |-> 0,
     n_parallel |-> 0]

cfg_int(c, key, def) == IF key \in DOMAIN c THEN c[key] ELSE def

\* The short aliases win over the precise names.
read_settings(c) ==
    [[k \in DOMAIN Default |-> cfg_int(c, k, Default[k])]
        EXCEPT !.parameter_category = cfg_int(c, "category", @),
               !.parameter_number   = cfg_int(c, "parameter", @)]

\* parse_drt_name: the two templates there are.
parse_drt_name(name) == CASE name \in {"libaec", "adaptive_entropy_coding"} -> 42
                          [] name \in {"jpeg2000", "lossless_jpeg2000"}     -> 40
                          [] OTHER                                          -> 0

\* validate_drt: zero when it throws.
validate_drt(c) == IF "drt" \in DOMAIN c THEN parse_drt_name(c.drt) ELSE 0

-----------------------------------------------------------------------------
(* The templates of a message.                                            *)

Sparse(n, f) == [i \in 0 .. n - 1 |-> IF i \in DOMAIN f THEN f[i] ELSE 0]

Abs(n) == IF n < 0 THEN -n ELSE n

Increment(from, to, n) == IF n > 1 THEN Abs(Abs(to - from) \div (n - 1)) ELSE 0

Corners(s, ni, nj) ==
    0 :> 6 @@ 7 :> ni @@ 8 :> nj @@ 11 :> s.lat_first @@ 12 :> s.lon_first @@ 13 :> 48
      @@ 14 :> s.lat_last @@ 15 :> s.lon_last

build_gdt_3_0(s, ni, nj) ==
    Sparse(19, Corners(s, ni, nj) @@ 16 :> Increment(s.lon_first, s.lon_last, ni)
                 @@ 17 :> Increment(s.lat_first, s.lat_last, nj))

build_gdt_3_40(s, ni, nj) ==
    Sparse(19, Corners(s, ni, nj) @@ 16 :> Increment(s.lon_first, s.lon_last, ni)
                 @@ 17 :> s.n_parallel)

\* The parts the product templates share, each at its place.
Parameter(s) == 0 :> s.parameter_category @@ 1 :> s.parameter_number

Process(s, at) == at :> 2 @@ at + 5 :> s.indicator_of_unit_of_time @@ at + 6 :> s.forecast_time

Surface(s, at) ==
    at :> s.type_of_first_fixed_surface @@ at + 1 :> s.scale_factor_first_surface
      @@ at + 2 :> s.scaled_value_first_surface @@ at + 3 :> 255

Aerosol(s) == 2 :> s.aerosol_type

Sizes(s) == 5 :> s.size_dist_param_first @@ 7 :> s.size_dist_param_second

Optics(s) == 8 :> s.optical_property_type @@ 10 :> s.wavelength_first_nm @@ 12 :> s.wavelength_last_nm

TimeRange(s, at) ==
    at :> s.number_of_time_range_specs @@ at + 1 :> s.total_missing_from_statistical_process
      @@ at + 2 :> s.statistical_process @@ at + 4 :> s.time_range_unit
      @@ at + 5 :> s.time_range_length

build_pdt_4_0(s) == Sparse(15, Parameter(s) @@ Process(s, 2) @@ Surface(s, 9))

build_pdt_4_8(s) ==
    Sparse(29, Parameter(s) @@ Process(s, 2) @@ Surface(s, 9) @@ TimeRange(s, 21)
                 @@ 24 :> 2 @@ 27 :> s.indicator_of_unit_of_time)

build_pdt_4_40(s) ==
    Sparse(16, Parameter(s) @@ 2 :> s.chemical_constituent_type @@ Process(s, 3) @@ Surface(s, 10))

build_pdt_4_44(s) ==
    Sparse(21, Parameter(s) @@ Aerosol(s) @@ Sizes(s) @@ Process(s, 8) @@ Surface(s, 15))


build_pdt_4_45(s) ==
    Sparse(24, Parameter(s) @@ Aerosol(s) @@ Sizes(s) @@ Process(s, 8)
                 @@ 16 :> s.ensemble_perturbation_number @@ Surface(s, 18))

build_pdt_4_46(s) ==
    Sparse(35, Parameter(s) @@ Aerosol(s) @@ Sizes(s) @@ Process(s, 8) @@ Surface(s, 15)
                 @@ TimeRange(s, 27))

build_pdt_4_48(s) ==
    Sparse(26, Parameter(s) @@ Aerosol(s) @@ Optics(s) @@ Process(s, 13) @@ Surface(s, 20))

build_pdt_4_49(s) ==
    Sparse(29, Parameter(s) @@ Aerosol(s) @@ Optics(s) @@ Process(s, 13)
                 @@ 21 :> s.ensemble_perturbation_number @@ Surface(s, 23))

build_drs_template(drt, s) ==
    IF drt = 40 THEN Sparse(7, 2 :> s.decimal_scale_factor @@ 6 :> 255)
                ELSE Sparse(8, 2 :> s.decimal_scale_factor)

GdtNumbers == {0, 40}
PdtNumbers == {0, 8, 40, 44, 45, 46, 48, 49}

Gdt(s, ni, nj) == IF s.gdt_number = 0 THEN build_gdt_3_0(s, ni, nj) ELSE build_gdt_3_40(s, ni, nj)

Pdt(s) == CASE s.pdt_number = 0  -> build_pdt_4_0(s)
            [] s.pdt_number = 8  -> build_pdt_4_8(s)
            [] s.pdt_number = 40 -> build_pdt_4_40(s)
            [] s.pdt_number = 44 -> build_pdt_4_44(s)
            [] s.pdt_number = 45 -> build_pdt_4_45(s)
            [] s.pdt_number = 46 -> build_pdt_4_46(s)
            [] s.pdt_number = 48 -> build_pdt_4_48(s)
            [] s.pdt_number = 49 -> build_pdt_4_49(s)

-----------------------------------------------------------------------------
(* Identities.  A name is the sequence of its tagged parts.               *)

Base(d, cat, num, surf, val) == <<<<"d", d>>, <<"c", cat>>, <<"n", num>>, <<"s", surf>>, <<"l", val>>>>

\* The extended name; m holds the composition metadata.
field_identity_name(d, cat, num, surf, val, pdt, m) ==
    LET ct == <<"ct", m.chemical_constituent_type>>
        at == <<"at", m.aerosol_type>>
        op == <<"op", m.optical_property_type>>
        wl == <<"wl", m.wavelength_first_nm, m.wavelength_last_nm>>
        ep == <<"ep", m.ensemble_perturbation_number>>
        sp == <<"sp", m.statistical_process>>
    IN  Base(d, cat, num, surf, val) \o
        CASE pdt = 40 -> <<ct>>
          [] pdt = 44 -> <<at>>
          [] pdt = 45 -> <<at, ep>>
          [] pdt = 46 -> <<at, sp>>
          [] pdt = 48 -> <<at, op, wl>>
          [] pdt = 49 -> <<at, op, wl, ep>>
          [] pdt = 8  -> <<sp>>
          [] OTHER    -> <<>>

\* pdt_value and safe_get: a template shorter than the index yields zero.
pdt_value(t, i) == IF i \in DOMAIN t THEN t[i] ELSE 0

pdt_surface_type_index(pdt) == CASE pdt = 40 -> 10
                                 [] pdt \in {44, 46} -> 15
                                 [] pdt = 45 -> 18
                                 [] pdt = 48 -> 20
                                 [] pdt = 49 -> 23
                                 [] OTHER    -> 9

pdt_surface_value_index(pdt) == pdt_surface_type_index(pdt) + 2

\* Where each template keeps its composition metadata.
MetaAt == 40 :> [chemical_constituent_type |-> 2]
       @@ 44 :> [aerosol_type |-> 2]
       @@ 45 :> [aerosol_type |-> 2, ensemble_perturbation_number |-> 16]
       @@ 46 :> [aerosol_type |-> 2, statistical_process |-> 29]
       @@ 48 :> [aerosol_type |-> 2, optical_property_type |-> 8,
                 wavelength_first_nm |-> 10, wavelength_last_nm |-> 12]
       @@ 49 :> [aerosol_type |-> 2, optical_property_type |-> 8, wavelength_first_nm |-> 10,
                 wavelength_last_nm |-> 12, ensemble_perturbation_number |-> 21]
       @@ 8  :> [statistical_process |-> 23]

MetaFields == {"chemical_constituent_type", "aerosol_type", "optical_property_type",
               "wavelength_first_nm", "wavelength_last_nm", "ensemble_perturbation_number",
               "statistical_process"}

extract_composition_metadata(pdt, t) ==
    [f \in MetaFields |->
       IF pdt \in DOMAIN MetaAt /\ f \in DOMAIN MetaAt[pdt] THEN pdt_value(t, MetaAt[pdt][f]) ELSE 0]

-----------------------------------------------------------------------------
(* The record index.                                                      *)

KeyOf(discipline, f) ==
    field_identity_name(discipline, pdt_value(f.tmpl, 0), pdt_value(f.tmpl, 1),
                        pdt_value(f.tmpl, pdt_surface_type_index(f.pdt)),
                        pdt_value(f.tmpl, pdt_surface_value_index(f.pdt)),
                        f.pdt, extract_composition_metadata(f.pdt, f.tmpl))

\* Ni and Nj, or one row when the grid template does not show the points.
Geometry(f) ==
    LET ni == pdt_value(f.gdt, 7)
        nj == pdt_value(f.gdt, 8)
    IN  IF Cardinality(DOMAIN f.gdt) > 8 /\ ni > 0 /\ nj > 0 /\ ni * nj = f.npts
          THEN [ni |-> ni, nj |-> nj] ELSE [ni |-> f.npts, nj |-> 1]

\* One turn of the loop over the fields: the first record of a key settles
\* its geometry, the next ones are its later timesteps.
Indexed(index, discipline, f, at) ==
    LET k == KeyOf(discipline, f)
    IN  IF k \in DOMAIN index THEN [index EXCEPT ![k].at = Append(@, at)]
        ELSE index @@ (k :> [geo |-> Geometry(f), at |-> <<at>>])

IndexMessage(index, file, i) ==
    FoldLeft(LAMBDA acc, n : Indexed(acc, file[i].discipline, file[i].fields[n], <<i, n>>),
             index, [n \in DOMAIN file[i].fields |-> n])

build_record_index(file) ==
    FoldLeft(LAMBDA acc, i : IndexMessage(acc, file, i), <<>>, [i \in DOMAIN file |-> i])

Grid(geo) == IF geo.nj > 1 THEN <<geo.nj, geo.ni>> ELSE <<geo.ni>>

gdescribe(k) == [shape |-> Grid(gdrv.index[k].geo), steps |-> Len(gdrv.index[k].at)]

Record(k, t) == LET at == gdrv.index[k].at[t + 1] IN gfile[at[1]].fields[at[2]]

\* The grid a box is laid over: the entry's, its row as long as the record.
DecodedGrid(k, t) == IF gdrv.index[k].geo.nj > 1 THEN Grid(gdrv.index[k].geo)
                     ELSE <<Record(k, t).npts>>

\* read: the record decoded whole, the box gathered from it.
gread(k, t, b) == [e \in DOMAIN GatherAt(DecodedGrid(k, t), b) |->
                     Record(k, t).data[GatherAt(DecodedGrid(k, t), b)[e]]]

-----------------------------------------------------------------------------
(* The calls.                                                             *)

GClosed == [init |-> FALSE, reading |-> FALSE, out |-> FALSE, path |-> FALSE, settings |-> Default,
            drt |-> 42, index |-> <<>>]

GInit == gdrv = GClosed /\ gfile = <<>> /\ gwrote = <<>>

\* open_write checks the template name first, even on an open driver, which
\* it otherwise leaves as it is.
GOpenAgain(c) ==
    /\ gdrv.init /\ validate_drt(c) # 0
    /\ gdrv' = [gdrv EXCEPT !.drt = validate_drt(c)]
    /\ UNCHANGED <<gfile, gwrote>>

\* initialize takes the settings and the path; a path of an earlier dataset,
\* which close does not clear, stands when none is given.
Initialized(c) == [gdrv EXCEPT !.drt = validate_drt(c), !.settings = read_settings(c),
                               !.path = @ \/ "path" \in DOMAIN c]

\* The file at the path is emptied.  Without a path there is no file to write.
GOpenWrite(c) ==
    /\ ~gdrv.init /\ validate_drt(c) # 0
    /\ LET opened == Initialized(c)
       IN /\ gdrv' = [opened EXCEPT !.init = TRUE, !.out = opened.path]
          /\ gfile' = IF opened.path THEN <<>> ELSE gfile
          /\ gwrote' = IF opened.path THEN <<>> ELSE gwrote

\* The file cannot be opened: what initialize has taken stays.
GOpenWriteFails(c) ==
    /\ ~gdrv.init /\ validate_drt(c) # 0 /\ Initialized(c).path
    /\ gdrv' = Initialized(c)
    /\ UNCHANGED <<gfile, gwrote>>

\* Another program leaves a file of its own.
GFound(f) == /\ ~gdrv.init
             /\ gfile' = f /\ gwrote' = <<>>
             /\ UNCHANGED gdrv

\* An open_read that throws leaves nothing but settings the next open replaces.
GOpenRead(c) ==
    /\ ~gdrv.init /\ "path" \in DOMAIN c
    /\ gdrv' = [gdrv EXCEPT !.init = TRUE, !.reading = TRUE, !.settings = read_settings(c),
                            !.index = build_record_index(gfile)]
    /\ UNCHANGED <<gfile, gwrote>>

GDatum(p, k) == <<p, k>>

\* The payload as the host laid it out, and as the encoder sees it.
Packed(sh, p) ==
    LET from == IF is_contiguous_row_major(sh.extents, sh.strides)
                  THEN [e \in 1 .. total_elements(sh.extents) |-> e]
                  ELSE pack_row_major(sh.extents, sh.strides)
    IN  [e \in DOMAIN from |-> GDatum(p, from[e])]

Ni(sh) == sh.extents[Len(sh.extents)]
Nj(sh) == IF Len(sh.extents) >= 2 THEN sh.extents[Len(sh.extents) - 1] ELSE 1

\* The grid takes the last two dimensions: of a field with more, the points
\* of the first plane.
Message(s, drt, sh, p) ==
    LET npts == Ni(sh) * Nj(sh)
    IN  [discipline |-> s.discipline,
         fields |-> <<[pdt |-> s.pdt_number, tmpl |-> Pdt(s), gdt |-> Gdt(s, Ni(sh), Nj(sh)),
                       drs |-> build_drs_template(drt, s), npts |-> npts,
                       data |-> SubSeq(Packed(sh, p), 1, npts)]>>]

\* write needs an initialized driver only: with no file open, it succeeds
\* and emits nothing.
GWrite(sh, p) ==
    /\ gdrv.init /\ Len(gfile) < MaxMessages
    /\ gdrv.settings.gdt_number \in GdtNumbers /\ gdrv.settings.pdt_number \in PdtNumbers
    /\ gfile' = IF gdrv.out THEN Append(gfile, Message(gdrv.settings, gdrv.drt, sh, p)) ELSE gfile
    /\ gwrote' = IF gdrv.out THEN Append(gwrote, [settings |-> gdrv.settings, shape |-> sh, data |-> p])
                             ELSE gwrote
    /\ UNCHANGED gdrv

\* A template, type or encoding error: nothing is emitted.
GWriteThrows == gdrv.init /\ UNCHANGED gvars

GFlush == gdrv.out /\ UNCHANGED gvars

\* close; the settings, the template and the output path stay.
GClose == /\ gdrv.init
          /\ gdrv' = [gdrv EXCEPT !.init = FALSE, !.reading = FALSE, !.out = FALSE, !.index = <<>>]
          /\ UNCHANGED <<gfile, gwrote>>

GNext == \/ \E c \in GManifests : GOpenWrite(c) \/ GOpenAgain(c) \/ GOpenWriteFails(c) \/ GOpenRead(c)
         \/ \E sh \in GShapes, p \in GPayloads : GWrite(sh, p)
         \/ \E f \in Foreign : GFound(f)
         \/ GWriteThrows \/ GFlush \/ GClose

-----------------------------------------------------------------------------
\* The name the settings of a write stand for.
NameOf(s) == field_identity_name(s.discipline, s.parameter_category, s.parameter_number,
                                 s.type_of_first_fixed_surface, s.scaled_value_first_surface,
                                 s.pdt_number, s)

WritesOf(k) == SelectSeq(gwrote, LAMBDA w : NameOf(w.settings) = k)

(***************************************************************************)
(* GRIB2 keeps no names.  A field is found again under the name its        *)
(* settings stand for, with one timestep per write, and timestep t holds   *)
(* the t-th write: its elements packed row by row, whatever strides the    *)
(* host's memory had.                                                      *)
(***************************************************************************)
FieldsFoundAgain ==
    gdrv.reading => \A i \in DOMAIN gwrote :
        LET k == NameOf(gwrote[i].settings)
        IN  /\ k \in DOMAIN gdrv.index
            /\ gdescribe(k).steps = Len(WritesOf(k))
            /\ \A t \in DOMAIN WritesOf(k) :
                  LET sh == WritesOf(k)[t].shape
                  IN  Len(sh.extents) <= 2 => Record(k, t - 1).data = Packed(sh, WritesOf(k)[t].data)

(***************************************************************************)
(* A box that fits the shape described for a field selects the elements it *)
(* means from every timestep whose grid is that of the first record.       *)
(***************************************************************************)
GribBoxesSelect ==
    gdrv.reading => \A k \in DOMAIN gdrv.index, b \in GBoxes :
        \A t \in 0 .. gdescribe(k).steps - 1 :
            validate_bbox(b, gdescribe(k).shape) /\ Geometry(Record(k, t)) = Geometry(Record(k, 0))
              => gread(k, t, b) = Boxed(Record(k, t).data, gdescribe(k).shape, b)
=============================================================================
