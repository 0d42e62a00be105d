------------------------------ MODULE Bindings ------------------------------
(***************************************************************************)
(* The C functions that HALO, CONF, AXIS and SPAN offer to Fortran, over   *)
(* the handle registry each library keeps.  HALO and CONF register plain   *)
(* pointers, which a call uses after the registry's mutex is released;     *)
(* AXIS and SPAN register shared pointers.  The first three never issue a  *)
(* token twice; SPAN recycles its handles first in, first out.             *)
(***************************************************************************)
EXTENDS Integers, Sequences, FiniteSets

CONSTANTS
    BThreads,    \* the host threads that call
    BMaxToken,   \* stands for INT_MAX: HALO issues no token from here on
    BCapacity,   \* HandleRegistry::MAX_CAPACITY of SPAN
    BMaxObjects  \* bound on the objects created

Libs == {"halo", "conf", "axis", "span"}
Shared == {"axis", "span"}

ASSUME BindingsConstants == /\ BMaxToken \in Nat \ {0} /\ BCapacity \in Nat \ {0} /\ BMaxObjects \in Nat

VARIABLES
    handles,    \* handles[lib]: token -> object
    next_token, \* next_token[lib], next_handle_ of SPAN
    released,  \* SPAN's released handles
    objects,    \* object -> [lib, kind, uses]: uses are the objects it points to
    deleted,    \* the objects that are destroyed
    using,      \* the objects a thread's running call uses, or {}
    issued      \* <<lib, token, object>>: what the callers were given

bvars == <<handles, next_token, released, objects, deleted, using, issued>>

INVALID == 0

-----------------------------------------------------------------------------
(* The registries *)

lookup(lib, token) == IF token \in DOMAIN handles[lib] THEN handles[lib][token] ELSE INVALID

\* handles_[token] = object
Bound(registry, token, o) ==
    [k \in DOMAIN registry \cup {token} |-> IF k = token THEN o ELSE registry[k]]

\* The token a new object gets: none when HALO has used up its integers or
\* SPAN is full; SPAN takes a released handle first.
NewToken(lib) ==
    CASE lib = "halo" -> IF next_token[lib] = BMaxToken THEN INVALID ELSE next_token[lib]
      [] lib = "span" -> IF Cardinality(DOMAIN handles[lib]) >= BCapacity THEN INVALID
                         ELSE IF released # <<>> THEN Head(released) ELSE next_token[lib]
      [] OTHER -> next_token[lib]

register_handle(lib, o) ==
    LET token == NewToken(lib)
        recycled == lib = "span" /\ released # <<>>
    IN IF token = INVALID THEN UNCHANGED <<handles, next_token, released, issued>>
       ELSE /\ handles' = [handles EXCEPT ![lib] = Bound(@, token, o)]
            /\ next_token' = IF recycled THEN next_token ELSE [next_token EXCEPT ![lib] = @ + 1]
            /\ released' = IF recycled THEN Tail(released) ELSE released
            /\ issued' = issued \cup {<<lib, token, o>>}

unregister(lib, token) ==
    /\ handles' = [handles EXCEPT ![lib] = [k \in DOMAIN @ \ {token} |-> @[k]]]
    /\ released' = IF lib = "span" THEN Append(released, token) ELSE released
    /\ UNCHANGED next_token

\* The objects that a shared pointer of the registry or of a running call,
\* or of an object in use, keeps alive.
Referenced(hs, us) ==
    (UNION {{hs[l][k] : k \in DOMAIN hs[l]} : l \in Shared}) \cup (UNION {us[t] : t \in BThreads})

-----------------------------------------------------------------------------

BInit ==
    /\ handles = [l \in Libs |-> <<>>]
    /\ next_token = [l \in Libs |-> 1]
    /\ released = <<>>
    /\ objects = <<>>
    /\ deleted = {}
    /\ using = [t \in BThreads |-> {}]
    /\ issued = {}

\* Registers a new object and gives its token out, or gives none.
MakeObject(t, lib, kind, uses) ==
    LET o == Len(objects) + 1 IN
    /\ using[t] = {} /\ Len(objects) < BMaxObjects
    /\ objects' = Append(objects, [lib |-> lib, kind |-> kind, uses |-> uses])
    /\ register_handle(lib, o)
    /\ deleted' = IF NewToken(lib) = INVALID /\ lib = "span" THEN deleted \cup {o} ELSE deleted
    /\ UNCHANGED using

Registered(lib, kind) == {o \in {handles[lib][k] : k \in DOMAIN handles[lib]} : objects[o].kind = kind}

\* A HALO call that gets no token still reports success and the object is lost.
halo_init_c(t) == MakeObject(t, "halo", "comm", {})

\* A plan keeps a pointer to its communicator, and a handle nothing of its plan.
halo_plan_create_c(t) == \E comm \in Registered("halo", "comm") : MakeObject(t, "halo", "plan", {comm})
halo_exchange_async_c(t) == \E plan \in Registered("halo", "plan") : MakeObject(t, "halo", "handle", {})

conf_load_c(t) == MakeObject(t, "conf", "config", {})

axis_mesh_from_named_c(t) == MakeObject(t, "axis", "mesh", {})

\* A matrix keeps nothing of its meshes.
axis_generate_weights_c(t) == \E mesh \in Registered("axis", "mesh") : MakeObject(t, "axis", "matrix", {})

\* Returns HELM_SPAN_ERR_REGISTRY_FULL and drops the view when there is no token.
helm_span_register_legacy_ptr(t) == MakeObject(t, "span", "view", {})

\* A call looks a token up and works on the object, and on what it points to.
CallBegin(t, lib, kind) ==
    /\ using[t] = {}
    /\ \E o \in Registered(lib, kind) : using' = [using EXCEPT ![t] = {o} \cup objects[o].uses]
    /\ UNCHANGED <<handles, next_token, released, objects, deleted, issued>>

halo_exchange_blocking_c(t) == CallBegin(t, "halo", "plan")
halo_wait_c(t) == CallBegin(t, "halo", "handle")
conf_get_c(t) == CallBegin(t, "conf", "config")
axis_apply_c(t) == CallBegin(t, "axis", "matrix")
helm_span_get_view(t) == CallBegin(t, "span", "view")

\* The call returns; the last shared pointer to an object deletes it.
CallEnd(t) ==
    /\ using[t] # {}
    /\ using' = [using EXCEPT ![t] = {}]
    /\ deleted' = deleted \cup {o \in using[t] : objects[o].lib \in Shared /\ o \notin Referenced(handles, using')}
    /\ UNCHANGED <<handles, next_token, released, objects, issued>>

\* Mutant of Destroy: the object is deleted while calls still use it.
DestroyDeletes(t, lib, kind) ==
    /\ using[t] = {}
    /\ \E token \in DOMAIN handles[lib] :
          /\ objects[handles[lib][token]].kind = kind
          /\ unregister(lib, token)
          /\ deleted' = deleted \cup {lookup(lib, token)}
    /\ UNCHANGED <<objects, using, issued>>

\* The registry forgets the token.  A plain pointer is deleted; a shared one
\* only when no running call has it.
Destroy(t, lib, kind) ==
    /\ using[t] = {}
    /\ \E token \in DOMAIN handles[lib] :
          LET o == handles[lib][token] IN
          /\ objects[o].kind = kind
          /\ unregister(lib, token)
          /\ deleted' = IF lib \in Shared /\ o \in Referenced(handles', using) THEN deleted ELSE deleted \cup {o}
    /\ UNCHANGED <<objects, using, issued>>

\* No function destroys a Halo_Handle.
halo_destroy_c(t) == Destroy(t, "halo", "plan") \/ Destroy(t, "halo", "comm")
conf_close_c(t) == Destroy(t, "conf", "config")
axis_destroy_c(t) == Destroy(t, "axis", "mesh") \/ Destroy(t, "axis", "matrix")
helm_span_unregister(t) == Destroy(t, "span", "view")

BNext ==
    \E t \in BThreads :
        \/ halo_init_c(t) \/ halo_plan_create_c(t) \/ halo_exchange_async_c(t)
        \/ halo_exchange_blocking_c(t) \/ halo_wait_c(t) \/ halo_destroy_c(t)
        \/ conf_load_c(t) \/ conf_get_c(t) \/ conf_close_c(t)
        \/ axis_mesh_from_named_c(t) \/ axis_generate_weights_c(t) \/ axis_apply_c(t) \/ axis_destroy_c(t)
        \/ helm_span_register_legacy_ptr(t) \/ helm_span_get_view(t) \/ helm_span_unregister(t)
        \/ CallEnd(t)

BSpec == BInit /\ [][BNext]_bvars

-----------------------------------------------------------------------------
(* Properties *)

\* A token of HALO, CONF or AXIS that a caller still holds means the object
\* it was given for or nothing, however many objects came and went since.
TokensKeepMeaning ==
    \A i \in issued : i[1] # "span" => lookup(i[1], i[2]) \in {i[3], INVALID}

\* A call of AXIS or SPAN never works on a deleted object, whatever the other
\* threads destroy while it runs.
BorrowedAlive == \A t \in BThreads : \A o \in using[t] : objects[o].lib \in Shared => o \notin deleted

\* A token means what it was given for, and what a call has found through one
\* stays alive until the call ends.
RegistriesSound == TokensKeepMeaning /\ BorrowedAlive
=============================================================================
