----------------------------- MODULE SpanFields -----------------------------
(***************************************************************************)
(* SPAN: a FieldView over a host and a device copy of one field, with its  *)
(* coherency state, and the TripleBuffer through which a model hands       *)
(* snapshots to AMIO's thread.  The model writes a whole snapshot into     *)
(* write_ptr(), element by element, and swaps between time steps; AMIO's   *)
(* thread streams io_ptr() element by element and releases it.             *)
(***************************************************************************)
EXTENDS Integers, Sequences

CONSTANTS
    Elements,      \* n_elements
    MaxSnapshots,  \* bound on the snapshots of a model
    MaxTouches     \* bound on the writes to a field view

ASSUME SpAssumption == Elements \in Nat \ {0}

VARIABLES
    buffers,    \* buffers_: track -> buffer
    content,    \* buffer -> the snapshots its elements belong to
    io_locked,  \* io_locked_
    model,      \* the model: the snapshot it writes, and the next element
    streamer,   \* AMIO's thread: the element it reads next, 0 when it waits
    streaming,  \* what it has read of this buffer
    streamed,   \* what it has written out, in order
    swapped,    \* the snapshots of the successful swaps, in order
    host, device,  \* the copies of a field view: a version, or "null"
    state,      \* state_
    version     \* the last version written: a history variable

bufferVars == <<buffers, content, io_locked, model, streamer, streaming, streamed, swapped>>
viewVars == <<host, device, state, version>>
spvars == <<bufferVars, viewVars>>

-----------------------------------------------------------------------------
(* TripleBuffer *)

Tracks == {"WRITE", "READ", "IO"}

\* The constructor refuses null and aliased buffers, and no elements.
BuffersAccepted(f) == Elements > 0 /\ \A t, u \in Tracks : f[t] # 0 /\ (t # u => f[t] # f[u])

\* The model writes element i of the snapshot into write_ptr().
WriteElement ==
    /\ model.next <= Elements
    /\ model.snapshot <= MaxSnapshots
    /\ content' = [content EXCEPT ![buffers["WRITE"]][model.next] = model.snapshot]
    /\ model' = [model EXCEPT !.next = @ + 1]
    /\ UNCHANGED <<buffers, io_locked, streamer, streaming, streamed, swapped, viewVars>>

\* Mutant of Rotated: the snapshot just written goes to AMIO at once.
RotatedWriteToIo == [t \in Tracks |-> CASE t = "READ" -> buffers["IO"] [] t = "IO" -> buffers["WRITE"] [] t = "WRITE" -> buffers["READ"]]

\* Write -> Read -> IO -> Write
Rotated == [t \in Tracks |-> CASE t = "READ" -> buffers["WRITE"] [] t = "IO" -> buffers["READ"] [] t = "WRITE" -> buffers["IO"]]

SwapRefused == io_locked

\* swap_buffers_for_amio at the end of a time step; refused, the model goes
\* on and writes the next snapshot over this one.
Swap ==
    /\ model.next = Elements + 1
    /\ model' = [snapshot |-> model.snapshot + 1, next |-> 1]
    /\ IF SwapRefused THEN UNCHANGED <<buffers, io_locked, swapped>>
       ELSE /\ buffers' = Rotated
            /\ io_locked' = TRUE
            /\ swapped' = Append(swapped, model.snapshot)
    /\ UNCHANGED <<content, streamer, streaming, streamed, viewVars>>

StreamElement ==
    /\ io_locked
    /\ streamer < Elements
    /\ streaming' = Append(streaming, content[buffers["IO"]][streamer + 1])
    /\ streamer' = streamer + 1
    /\ UNCHANGED <<buffers, content, io_locked, model, streamed, swapped, viewVars>>

ReleaseIo ==
    /\ io_locked
    /\ streamer = Elements
    /\ io_locked' = FALSE
    /\ streamer' = 0
    /\ streamed' = Append(streamed, streaming)
    /\ streaming' = <<>>
    /\ UNCHANGED <<buffers, content, model, swapped, viewVars>>

-----------------------------------------------------------------------------
(* FieldView *)

HasHost == host >= 0
HasDevice == device >= 0

HostWrite ==
    /\ HasHost /\ version < MaxTouches
    /\ version' = version + 1
    /\ host' = version'
    /\ state' = "HOST_DIRTY"
    /\ UNCHANGED <<device, bufferVars>>

DeviceWrite ==
    /\ HasDevice /\ version < MaxTouches
    /\ version' = version + 1
    /\ device' = version'
    /\ state' = "DEVICE_DIRTY"
    /\ UNCHANGED <<host, bufferVars>>

SyncForDevice ==
    /\ IF state = "HOST_DIRTY" /\ HasHost /\ HasDevice
         THEN device' = host /\ state' = "HOST_CLEAN"
         ELSE UNCHANGED <<device, state>>
    /\ UNCHANGED <<host, version, bufferVars>>

SyncForHost ==
    /\ IF state = "DEVICE_DIRTY" /\ HasHost /\ HasDevice
         THEN host' = device /\ state' = "HOST_CLEAN"
         ELSE UNCHANGED <<host, state>>
    /\ UNCHANGED <<device, version, bufferVars>>

-----------------------------------------------------------------------------
\* The three constructors of a view: host only, device only, both (-1: null).
SpInit ==
    /\ buffers = [t \in Tracks |-> CASE t = "WRITE" -> 1 [] t = "READ" -> 2 [] t = "IO" -> 3]
    /\ BuffersAccepted(buffers)
    /\ content = [b \in 1 .. 3 |-> [i \in 1 .. Elements |-> 0]]
    /\ io_locked = FALSE
    /\ model = [snapshot |-> 1, next |-> 1]
    /\ streamer = 0 /\ streaming = <<>> /\ streamed = <<>> /\ swapped = <<>>
    /\ host \in {-1, 0} /\ device \in {-1, 0} /\ (host = 0 \/ device = 0)
    /\ state = "HOST_CLEAN"
    /\ version = 0

BufferNext == WriteElement \/ Swap \/ StreamElement \/ ReleaseIo
ViewNext == HostWrite \/ DeviceWrite \/ SyncForDevice \/ SyncForHost

SpSpec == SpInit /\ [][BufferNext \/ ViewNext]_spvars

-----------------------------------------------------------------------------
(***************************************************************************)
(* AMIO writes out whole snapshots only, each successful swap's in turn    *)
(* and one swap late: the buffer it streams is neither the one the model   *)
(* writes nor mixed from two of them.  READ holds the snapshot of the last *)
(* successful swap.                                                        *)
(***************************************************************************)
Whole(s) == [i \in 1 .. Elements |-> s]

SnapshotsWhole ==
    /\ \A k \in DOMAIN streamed : streamed[k] = Whole(IF k = 1 THEN 0 ELSE swapped[k - 1])
    /\ swapped # <<>> => content[buffers["READ"]] = Whole(swapped[Len(swapped)])

(***************************************************************************)
(* The side a view calls current has the last version written: both sides  *)
(* when it is clean and has both, the dirty side otherwise.                *)
(***************************************************************************)
ViewCoherent ==
    CASE state = "HOST_CLEAN" -> (HasHost => host = version) /\ (HasDevice => device = version)
      [] state = "HOST_DIRTY" -> host = version
      [] state = "DEVICE_DIRTY" -> device = version

(***************************************************************************)
(* No copy of a field is taken for newer or more complete than it is.      *)
(***************************************************************************)
CopiesCoherent == SnapshotsWhole /\ ViewCoherent
=============================================================================
