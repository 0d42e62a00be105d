------------------------------ MODULE Drivers ------------------------------
(***************************************************************************)
(* amio::detail::BackendFactory and the driver it builds for a dataset:    *)
(* one of the three, over a file or store of its own.                      *)
(***************************************************************************)
EXTENDS NetcdfDriver, ZarrDriver, Grib2Driver

VARIABLES
    registry,   \* registry_: the keys with a builder
    backend     \* the driver built for the dataset, "none" before that

dvars == <<ncVars, zvars, gvars, registry, backend>>

Backends == {"netcdf", "zarr", "grib2"}

DInit == NcInit /\ ZInit /\ GInit /\ registry = {} /\ backend = "none"

\* Each driver's file registers its key when the library is loaded.
register_driver(key) == /\ backend = "none"
                        /\ registry' = registry \cup {key}
                        /\ UNCHANGED <<ncVars, zvars, gvars, backend>>

\* An unknown key is AMIO_ERR_UNKNOWN_BACKEND and builds nothing.
build_driver(key) == /\ backend = "none" /\ registry = Backends /\ key \in registry
                     /\ backend' = key
                     /\ UNCHANGED <<ncVars, zvars, gvars, registry>>

DNext == \/ \E key \in Backends : register_driver(key) \/ build_driver(key)
         \/ backend = "netcdf" /\ NcNext /\ UNCHANGED <<zvars, gvars, registry, backend>>
         \/ backend = "zarr"   /\ ZNext  /\ UNCHANGED <<ncVars, gvars, registry, backend>>
         \/ backend = "grib2"  /\ GNext  /\ UNCHANGED <<ncVars, zvars, registry, backend>>

=============================================================================
