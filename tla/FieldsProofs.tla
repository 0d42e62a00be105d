---------------------------- MODULE FieldsProofs ----------------------------
(***************************************************************************)
(* Proofs about fields in memory and in time: SPAN's three buffers and its *)
(* two-sided views, the transform node's bookends, and TICK's checked      *)
(* arithmetic.                                                             *)
(***************************************************************************)
EXTENDS SpanFields, TransformNode, TickClock, SequenceTheorems, FiniteSetTheorems, TLAPS

-----------------------------------------------------------------------------
(* SPAN: the buffers and the views *)

\* What the k-th successful swap gives AMIO: the snapshot before.
Previous(k) == IF k = 1 THEN 0 ELSE swapped[k - 1]

Newest == IF swapped = <<>> THEN 0 ELSE swapped[Len(swapped)]

BufferTypes ==
    /\ buffers \in [Tracks -> 1 .. 3]
    /\ \A t, u \in Tracks : buffers[t] = buffers[u] => t = u
    /\ content \in [1 .. 3 -> [1 .. Elements -> Nat]]
    /\ io_locked \in BOOLEAN
    /\ model \in [snapshot : Nat, next : 1 .. Elements + 1]
    /\ streamer \in 0 .. Elements
    /\ streaming \in Seq(Nat)
    /\ streamed \in Seq([1 .. Elements -> Nat])
    /\ swapped \in Seq(Nat)

\* The three buffers: what the model has written so far, the newest whole
\* snapshot, and the one before it.
Writing == \A i \in 1 .. Elements : i < model.next => content[buffers["WRITE"]][i] = model.snapshot
Reading == content[buffers["READ"]] = Whole(Newest)
Handed == swapped # <<>> => content[buffers["IO"]] = Whole(Previous(Len(swapped)))

\* AMIO's thread is one swap behind while it streams, and has its part of the
\* buffer.
Streams ==
    /\ \A k \in 1 .. Len(streamed) : streamed[k] = Whole(Previous(k))
    /\ io_locked => Len(swapped) = Len(streamed) + 1
    /\ ~io_locked => Len(swapped) = Len(streamed) /\ streamer = 0
    /\ Len(streaming) = streamer
    /\ \A i \in 1 .. streamer : streaming[i] = Previous(Len(swapped))

BuffersExact == BufferTypes /\ Writing /\ Reading /\ Handed /\ Streams

ViewStates ==
    /\ state \in {"HOST_CLEAN", "HOST_DIRTY", "DEVICE_DIRTY"}
    /\ host \in Int /\ device \in Int /\ version \in Int
    /\ ViewCoherent

\* The model writes into the buffer that neither a reader nor AMIO has.
LEMMA WriteKeeps == ASSUME BuffersExact, WriteElement PROVE BuffersExact'
<1> DEFINE w == buffers["WRITE"]
<1>1. Elements \in Nat /\ Elements > 0 BY SpAssumption
<1>2. /\ w \in 1 .. 3 /\ buffers["READ"] \in 1 .. 3 /\ buffers["IO"] \in 1 .. 3
      /\ w # buffers["READ"] /\ w # buffers["IO"]
  BY DEF BuffersExact, BufferTypes, Tracks
<1>3. /\ model.next \in 1 .. Elements /\ model.snapshot \in Nat
      /\ model' = [model EXCEPT !.next = @ + 1]
      /\ content' = [content EXCEPT ![w][model.next] = model.snapshot]
      /\ buffers' = buffers /\ io_locked' = io_locked /\ streamer' = streamer
      /\ streaming' = streaming /\ streamed' = streamed /\ swapped' = swapped
  BY <1>1 DEF WriteElement, BuffersExact, BufferTypes
<1>4. /\ content' \in [1 .. 3 -> [1 .. Elements -> Nat]]
      /\ \A b \in 1 .. 3 : b # w => content'[b] = content[b]
      /\ \A i \in 1 .. Elements : content'[w][i] = IF i = model.next THEN model.snapshot ELSE content[w][i]
  BY <1>2, <1>3 DEF BuffersExact, BufferTypes
<1>5. model' \in [snapshot : Nat, next : 1 .. Elements + 1] /\ model'.next = model.next + 1 /\ model'.snapshot = model.snapshot
  <2>1. model \in [snapshot : Nat, next : 1 .. Elements + 1] BY DEF BuffersExact, BufferTypes
  <2>2. model' = [snapshot |-> model.snapshot, next |-> model.next + 1] BY <1>3, <2>1
  <2>3. model.next + 1 \in 1 .. Elements + 1 BY <1>1, <1>3
  <2> QED BY <1>3, <2>2, <2>3
<1>6. BufferTypes' BY <1>3, <1>4, <1>5 DEF BuffersExact, BufferTypes
<1>7. Writing' BY <1>1, <1>3, <1>4, <1>5 DEF BuffersExact, Writing
<1>8. Reading' /\ Handed' BY <1>2, <1>3, <1>4 DEF BuffersExact, Reading, Handed, Newest, Previous, Whole
<1>9. Streams' BY <1>3 DEF BuffersExact, Streams, Previous
<1> QED BY <1>6, <1>7, <1>8, <1>9 DEF BuffersExact

\* A swap hands AMIO what was readable, and readers what was written; when
\* AMIO still streams, it changes no buffer.
LEMMA SwapKeeps == ASSUME BuffersExact, Swap PROVE BuffersExact'
<1>1. Elements \in Nat /\ Elements > 0 BY SpAssumption
<1>2. /\ model.next = Elements + 1 /\ model.snapshot \in Nat
      /\ model' = [snapshot |-> model.snapshot + 1, next |-> 1]
      /\ content' = content /\ streamer' = streamer /\ streaming' = streaming /\ streamed' = streamed
  BY DEF Swap, BuffersExact, BufferTypes
<1>3. model' \in [snapshot : Nat, next : 1 .. Elements + 1] /\ model'.next = 1 BY <1>1, <1>2
<1>4. Writing' BY <1>1, <1>3 DEF Writing
<1>5. CASE io_locked
  <2>1. buffers' = buffers /\ io_locked' = io_locked /\ swapped' = swapped
    BY <1>5 DEF Swap, SwapRefused
  <2>2. BufferTypes' BY <1>2, <1>3, <2>1 DEF BuffersExact, BufferTypes
  <2>3. Reading' BY <1>2, <2>1 DEF BuffersExact, Reading, Newest, Whole
  <2>4. Handed' BY <1>2, <2>1 DEF BuffersExact, Handed, Previous, Whole
  <2>5. Streams' BY <1>2, <2>1 DEF BuffersExact, Streams, Previous, Whole
  <2> QED BY <1>4, <2>2, <2>3, <2>4, <2>5 DEF BuffersExact
<1>6. CASE ~io_locked
  <2>1. buffers' = Rotated /\ io_locked' = TRUE /\ swapped' = Append(swapped, model.snapshot)
    BY <1>6 DEF Swap, SwapRefused
  <2>2. /\ buffers \in [Tracks -> 1 .. 3] /\ content \in [1 .. 3 -> [1 .. Elements -> Nat]]
        /\ \A t, u \in Tracks : buffers[t] = buffers[u] => t = u
    BY DEF BuffersExact, BufferTypes
  <2>3. /\ buffers'["READ"] = buffers["WRITE"] /\ buffers'["IO"] = buffers["READ"]
        /\ buffers'["WRITE"] = buffers["IO"] /\ buffers' \in [Tracks -> 1 .. 3]
    BY <2>1, <2>2 DEF Rotated, Tracks
  <2>4. \A t, u \in Tracks : buffers'[t] = buffers'[u] => t = u
    BY <2>2, <2>3 DEF Tracks
  <2>5. PICK n \in Nat : n = Len(swapped) BY DEF BuffersExact, BufferTypes
  <2>6. /\ swapped' \in Seq(Nat) /\ Len(swapped') = n + 1 /\ swapped' # <<>>
        /\ \A i \in 1 .. n : swapped'[i] = swapped[i] /\ swapped'[n + 1] = model.snapshot
    BY <1>2, <2>1, <2>5 DEF BuffersExact, BufferTypes
  <2>7. swapped'[n + 1] = model.snapshot BY <1>2, <2>1, <2>5 DEF BuffersExact, BufferTypes
  <2>8. BufferTypes' BY <1>2, <1>3, <2>1, <2>3, <2>4, <2>6 DEF BuffersExact, BufferTypes
  <2>9. content[buffers["WRITE"]] = Whole(model.snapshot)
    <3>1. content[buffers["WRITE"]] \in [1 .. Elements -> Nat] BY <2>2 DEF Tracks
    <3>2. \A i \in 1 .. Elements : content[buffers["WRITE"]][i] = model.snapshot
      BY <1>1, <1>2 DEF BuffersExact, Writing
    <3> QED BY <3>1, <3>2 DEF Whole
  <2>10. Reading' BY <1>2, <2>3, <2>6, <2>7, <2>9 DEF Reading, Newest, Whole
  <2>11. Previous(n + 1)' = Newest
    <3>1. CASE n = 0
      <4>1. swapped = <<>>
        <5>1. swapped \in Seq(Nat) /\ Len(swapped) = 0 BY <2>5, <3>1 DEF BuffersExact, BufferTypes
        <5> QED BY <5>1, EmptySeq
      <4> QED BY <3>1, <4>1 DEF Previous, Newest
    <3>2. CASE n # 0
      <4>1. swapped # <<>> /\ n \in 1 .. n /\ n + 1 # 1 /\ n + 1 - 1 = n BY <2>5, <3>2
      <4> QED BY <2>5, <2>6, <4>1 DEF Previous, Newest
    <3> QED BY <3>1, <3>2
  <2>12. Handed'
    <3>1. content'[buffers'["IO"]] = Whole(Newest) BY <1>2, <2>3 DEF BuffersExact, Reading
    <3>2. Whole(Previous(Len(swapped)))' = Whole(Newest) BY <2>6, <2>11 DEF Whole
    <3> QED BY <3>1, <3>2 DEF Handed
  <2>13. Len(streamed) = n /\ streamer = 0 BY <1>6, <2>5 DEF BuffersExact, Streams
  <2>14. ASSUME NEW k \in 1 .. n PROVE Previous(k)' = Previous(k)
    <3>1. k # 1 => k - 1 \in 1 .. n BY <2>5
    <3> QED BY <2>6, <3>1 DEF Previous
  <2>15. Streams'
    <3>1. \A k \in 1 .. Len(streamed') : streamed'[k] = Whole(Previous(k)')
      BY <1>2, <2>13, <2>14 DEF BuffersExact, Streams
    <3>2. Len(streaming) = 0 BY <2>13 DEF BuffersExact, Streams
    <3> QED BY <1>2, <2>1, <2>6, <2>13, <3>1, <3>2 DEF Streams, Whole
  <2> QED BY <1>4, <2>8, <2>10, <2>12, <2>15 DEF BuffersExact
<1> QED BY <1>5, <1>6

\* AMIO's thread copies the next element of the buffer it holds.
LEMMA StreamKeeps == ASSUME BuffersExact, StreamElement PROVE BuffersExact'
<1>1. Elements \in Nat /\ Elements > 0 BY SpAssumption
<1>2. /\ io_locked /\ streamer < Elements /\ streamer \in Nat /\ streamer' = streamer + 1
      /\ streaming' = Append(streaming, content[buffers["IO"]][streamer + 1])
      /\ buffers' = buffers /\ content' = content /\ io_locked' = io_locked /\ model' = model
      /\ streamed' = streamed /\ swapped' = swapped
  BY <1>1 DEF StreamElement, BuffersExact, BufferTypes
<1>3. swapped # <<>>
  <2>1. Len(swapped) = Len(streamed) + 1 /\ Len(streamed) \in Nat
    BY <1>2 DEF BuffersExact, Streams, BufferTypes
  <2> QED BY <2>1
<1>4. content[buffers["IO"]][streamer + 1] = Previous(Len(swapped))
  <2>1. streamer + 1 \in 1 .. Elements BY <1>1, <1>2
  <2>2. content[buffers["IO"]] = Whole(Previous(Len(swapped))) BY <1>3 DEF BuffersExact, Handed
  <2> QED BY <2>1, <2>2 DEF Whole
<1>5. content[buffers["IO"]][streamer + 1] \in Nat
  <2>1. streamer + 1 \in 1 .. Elements BY <1>1, <1>2
  <2>2. buffers["IO"] \in 1 .. 3 /\ content \in [1 .. 3 -> [1 .. Elements -> Nat]]
    BY DEF BuffersExact, BufferTypes, Tracks
  <2>3. content[buffers["IO"]] \in [1 .. Elements -> Nat] BY <2>2
  <2> QED BY <2>1, <2>3
<1>6. /\ streaming' \in Seq(Nat) /\ Len(streaming') = streamer + 1
      /\ \A i \in 1 .. streamer : streaming'[i] = streaming[i]
      /\ streaming'[streamer + 1] = Previous(Len(swapped))
  <2>1. PICK e \in Nat : e = content[buffers["IO"]][streamer + 1] BY <1>5
  <2>2. streaming \in Seq(Nat) /\ Len(streaming) = streamer /\ streaming' = Append(streaming, e)
    BY <1>2, <2>1 DEF BuffersExact, BufferTypes, Streams
  <2>3. e = Previous(Len(swapped)) BY <1>4, <2>1, Zenon
  <2> QED BY <1>2, <2>2, <2>3
<1>7. \A i \in 1 .. streamer' : streaming'[i] = Previous(Len(swapped))
  BY <1>2, <1>6 DEF BuffersExact, Streams
<1>8. BufferTypes' BY <1>1, <1>2, <1>6 DEF BuffersExact, BufferTypes
<1>9. Streams' BY <1>2, <1>6, <1>7 DEF BuffersExact, Streams, Previous, Whole
<1>10. Writing' /\ Reading' /\ Handed'
  BY <1>2 DEF BuffersExact, Writing, Reading, Handed, Newest, Previous, Whole
<1> QED BY <1>8, <1>9, <1>10 DEF BuffersExact

\* AMIO's thread has the whole buffer and gives it back.
LEMMA ReleaseIoKeeps == ASSUME BuffersExact, ReleaseIo PROVE BuffersExact'
<1>1. Elements \in Nat /\ Elements > 0 BY SpAssumption
<1>2. /\ io_locked /\ streamer = Elements /\ streamer' = 0 /\ io_locked' = FALSE
      /\ streaming' = <<>> /\ streamed' = Append(streamed, streaming)
      /\ buffers' = buffers /\ content' = content /\ model' = model /\ swapped' = swapped
  BY DEF ReleaseIo
<1>3. PICK n \in Nat : n = Len(streamed) BY DEF BuffersExact, BufferTypes
<1>4. Len(swapped) = n + 1 BY <1>2, <1>3 DEF BuffersExact, Streams
<1>5. streaming = Whole(Previous(n + 1)) /\ streaming \in [1 .. Elements -> Nat]
  <2>1. streaming \in Seq(Nat) /\ Len(streaming) = Elements BY <1>2 DEF BuffersExact, Streams, BufferTypes
  <2>2. streaming \in [1 .. Elements -> Nat] BY <1>1, <2>1
  <2>3. \A i \in 1 .. Elements : streaming[i] = Previous(n + 1) BY <1>2, <1>4 DEF BuffersExact, Streams
  <2> QED BY <2>2, <2>3 DEF Whole
<1>6. /\ streamed' \in Seq([1 .. Elements -> Nat]) /\ Len(streamed') = n + 1
      /\ \A k \in 1 .. n : streamed'[k] = streamed[k]
      /\ streamed'[n + 1] = streaming
  BY <1>2, <1>3, <1>5 DEF BuffersExact, BufferTypes
<1>7. \A k \in 1 .. n + 1 : streamed'[k] = Whole(Previous(k))
  BY <1>3, <1>5, <1>6 DEF BuffersExact, Streams
<1>0. Len(<<>>) = 0 /\ <<>> \in Seq(Nat) BY EmptySeq
<1>8. Streams'
  <2>1. \A k \in 1 .. Len(streamed') : streamed'[k] = Whole(Previous(k)') BY <1>2, <1>6, <1>7 DEF Previous
  <2>2. Len(swapped') = Len(streamed') BY <1>2, <1>4, <1>6
  <2>3. \A i \in 1 .. streamer' : streaming'[i] = Previous(Len(swapped))' BY <1>2
  <2> QED BY <1>0, <1>2, <2>1, <2>2, <2>3 DEF Streams, Whole
<1>9. BufferTypes'
  <2>1. streamer' \in 0 .. Elements BY <1>1, <1>2
  <2> QED BY <1>0, <1>2, <1>6, <2>1 DEF BuffersExact, BufferTypes
<1>10. Writing' /\ Reading' /\ Handed'
  BY <1>2 DEF BuffersExact, Writing, Reading, Handed, Newest, Previous, Whole
<1> QED BY <1>8, <1>9, <1>10 DEF BuffersExact

\* A two-sided view: a write dirties one side, a sync copies it to the other.
LEMMA ViewKeeps == ASSUME ViewStates, ViewNext PROVE ViewStates'
<1> USE DEF ViewStates, ViewCoherent, HasHost, HasDevice
<1>1. CASE HostWrite BY <1>1 DEF HostWrite
<1>2. CASE DeviceWrite BY <1>2 DEF DeviceWrite
<1>3. CASE SyncForDevice BY <1>3 DEF SyncForDevice
<1>4. CASE SyncForHost BY <1>4 DEF SyncForHost
<1> QED BY <1>1, <1>2, <1>3, <1>4 DEF ViewNext

\* Buffers and views do not touch each other.
LEMMA FieldStep == BuffersExact /\ ViewStates /\ [BufferNext \/ ViewNext]_spvars => BuffersExact' /\ ViewStates'
<1> SUFFICES ASSUME BuffersExact, ViewStates, [BufferNext \/ ViewNext]_spvars
             PROVE  BuffersExact' /\ ViewStates'
  OBVIOUS
<1>1. ASSUME UNCHANGED viewVars PROVE ViewStates'
  BY <1>1 DEF viewVars, ViewStates, ViewCoherent, HasHost, HasDevice
<1>2. ASSUME UNCHANGED bufferVars PROVE BuffersExact'
  <2> USE <1>2 DEF bufferVars, BuffersExact
  <2>1. BufferTypes' BY DEF BufferTypes
  <2>2. Writing' BY DEF Writing
  <2>3. Reading' BY DEF Reading, Newest, Whole
  <2>4. Handed' BY DEF Handed, Previous, Whole
  <2>5. Streams' BY DEF Streams, Previous, Whole
  <2> QED BY <2>1, <2>2, <2>3, <2>4, <2>5
<1>3. BufferNext => UNCHANGED viewVars
  BY DEF BufferNext, WriteElement, Swap, StreamElement, ReleaseIo
<1>4. ViewNext => UNCHANGED bufferVars
  BY DEF ViewNext, HostWrite, DeviceWrite, SyncForDevice, SyncForHost
<1>5. BufferNext => BuffersExact'
  BY WriteKeeps, SwapKeeps, StreamKeeps, ReleaseIoKeeps DEF BufferNext
<1>6. UNCHANGED spvars => UNCHANGED bufferVars /\ UNCHANGED viewVars BY DEF spvars
<1> QED BY <1>1, <1>2, <1>3, <1>4, <1>5, <1>6, ViewKeeps

LEMMA FieldStart == SpInit => BuffersExact /\ ViewStates
<1> SUFFICES ASSUME SpInit PROVE BuffersExact /\ ViewStates OBVIOUS
<1>1. Elements \in Nat /\ Elements > 0 BY SpAssumption
<1>2. ViewStates BY DEF SpInit, ViewStates, ViewCoherent, HasHost, HasDevice
<1>3. buffers \in [Tracks -> 1 .. 3] /\ \A t, u \in Tracks : buffers[t] = buffers[u] => t = u
  BY DEF SpInit, Tracks
<1>4. /\ content \in [1 .. 3 -> [1 .. Elements -> Nat]]
      /\ \A b \in 1 .. 3 : content[b] = Whole(0)
  BY DEF SpInit, Whole
<1>5. swapped = <<>> /\ streaming = <<>> /\ streamed = <<>> /\ streamer = 0 /\ io_locked = FALSE
  BY DEF SpInit
<1>6. model \in [snapshot : Nat, next : 1 .. Elements + 1] /\ model.next = 1 BY <1>1 DEF SpInit
<1>7. BufferTypes
  <2>1. <<>> \in Seq(Nat) /\ <<>> \in Seq([1 .. Elements -> Nat]) BY EmptySeq
  <2>2. 0 \in 0 .. Elements BY <1>1
  <2> QED BY <1>3, <1>4, <1>5, <1>6, <2>1, <2>2 DEF BufferTypes
<1>8. Writing BY <1>6 DEF Writing
<1>9. Reading /\ Handed BY <1>3, <1>4, <1>5 DEF Reading, Handed, Newest, Tracks
<1>10. Streams BY <1>5 DEF Streams
<1> QED BY <1>2, <1>7, <1>8, <1>9, <1>10 DEF BuffersExact

(***************************************************************************)
(* SPAN's triple buffer and dual view: for any field size and any number   *)
(* of swaps, every snapshot that AMIO's thread streams and every one a     *)
(* reader sees is whole and is the one due, though the model writes on     *)
(* meanwhile; and no view serves a stale side.                             *)
(***************************************************************************)
THEOREM CopiesStayCoherent == SpSpec => []CopiesCoherent
<1>1. BuffersExact /\ ViewStates => CopiesCoherent
  <2> SUFFICES ASSUME BuffersExact, ViewStates PROVE CopiesCoherent OBVIOUS
  <2>1. DOMAIN streamed = 1 .. Len(streamed) BY DEF BuffersExact, BufferTypes
  <2>2. \A k \in DOMAIN streamed : streamed[k] = Whole(IF k = 1 THEN 0 ELSE swapped[k - 1])
    BY <2>1 DEF BuffersExact, Streams, Previous
  <2>3. swapped # <<>> => content[buffers["READ"]] = Whole(swapped[Len(swapped)])
    BY DEF BuffersExact, Reading, Newest
  <2> QED BY <2>2, <2>3 DEF CopiesCoherent, SnapshotsWhole, ViewStates
<1> QED BY <1>1, FieldStart, FieldStep, PTL DEF SpSpec

-----------------------------------------------------------------------------
(* The transform node *)

Task == [l : TSteps, r : TSteps, alpha : Weights, profile : {"linear", "step"}, count : OutSizes]

\* How many slots the call in progress has pinned.
Pins == IF tpc = "blend" THEN 2 ELSE IF tpc = "fetch_right" THEN 1 ELSE 0

\* The slots of the call's views still hold what was fetched into them, what
\* has been written is exact, and every call that has returned has left its
\* two slots pinned.
Stages ==
    /\ tpc \in {"idle", "fetch_left", "fetch_right", "blend", "completed", "failed"}
    /\ tpc # "idle" => task \in Task
    /\ written # {} => tpc \in {"completed", "failed"}
    /\ tpc = "completed" => written = 1 .. task.count
    /\ written \subseteq 1 .. task.count

Views ==
    /\ staged \in [SlotIds -> Int] /\ pinned \subseteq SlotIds
    /\ tpc \in {"fetch_right", "blend"} => left \in pinned /\ staged[left] = task.l
    /\ tpc = "blend" => right \in pinned /\ staged[right] = task.r

Written == \A i \in written : i <= ViewSize => ElementExact(i)

Kept ==
    /\ IsFiniteSet(pinned) /\ finished \in Nat
    /\ 2 * finished + Pins <= Cardinality(pinned)

Fetched == Stages /\ Views /\ Written /\ Kept

LEMMA BookendStart == TnInit => Fetched
<1> SUFFICES ASSUME TnInit PROVE Fetched OBVIOUS
<1>1. Stages BY DEF TnInit, Stages
<1>2. Views BY DEF TnInit, Views
<1>3. Written BY DEF TnInit, Written
<1>4. Kept BY FS_EmptySet DEF TnInit, Kept, Pins
<1> QED BY <1>1, <1>2, <1>3, <1>4 DEF Fetched

\* A new call begins with nothing written and nothing pinned.
LEMMA DispatchStep ==
    ASSUME Fetched, NEW l \in TSteps, NEW r \in TSteps, NEW a \in Weights,
           NEW p \in {"linear", "step"}, NEW n \in OutSizes, Dispatch(l, r, a, p, n)
    PROVE  Fetched'
<1>1. Stages' BY DEF Fetched, Stages, Dispatch, Task
<1>2. Views' BY DEF Fetched, Views, Dispatch
<1>3. Written' BY DEF Written, Dispatch
<1>4. Kept' BY DEF Fetched, Kept, Pins, Dispatch
<1> QED BY <1>1, <1>2, <1>3, <1>4 DEF Fetched

\* One more slot is pinned, and holds the step.
LEMMA PinStep ==
    ASSUME Fetched, NEW s \in Free, NEW step \in Int, NEW next, Pin(s, step, next)
    PROVE  /\ staged' \in [SlotIds -> Int] /\ pinned' \subseteq SlotIds
           /\ s \in pinned' /\ staged'[s] = step
           /\ \A u \in pinned : u \in pinned' /\ staged'[u] = staged[u]
           /\ IsFiniteSet(pinned') /\ Cardinality(pinned') = Cardinality(pinned) + 1
<1>1. s \in SlotIds /\ s \notin pinned BY DEF Free
<1>2. IsFiniteSet(pinned') /\ Cardinality(pinned') = Cardinality(pinned) + 1
  BY <1>1, FS_AddElement DEF Fetched, Kept, Pin
<1> QED BY <1>1, <1>2 DEF Fetched, Views, Pin

\* A fetch that succeeds adds its slot to those of the call.
LEMMA FetchStep == Fetched /\ (FetchLeft \/ FetchRight) => Fetched'
<1> SUFFICES ASSUME Fetched, FetchLeft \/ FetchRight PROVE Fetched' OBVIOUS
<1>0. /\ task' = task /\ output' = output /\ written' = written /\ finished' = finished
      /\ written = {} /\ task \in Task /\ tpc \in {"fetch_left", "fetch_right"}
      /\ tpc' \in {"fetch_right", "blend", "failed"}
  BY DEF FetchLeft, FetchRight, NotRead, Pin, Fetched, Stages
<1>1. Stages' BY <1>0 DEF Stages
<1>2. Written' BY <1>0 DEF Written
<1>3. task.l \in Int /\ task.r \in Int BY <1>0, TnAssumption DEF Task
<1>4. finished \in Nat /\ IsFiniteSet(pinned) /\ Cardinality(pinned) \in Nat
  BY FS_CardinalityType DEF Fetched, Kept
<1>5. CASE NotRead
  <2>1. Views' BY <1>0, <1>5 DEF NotRead, Fetched, Views
  <2>2. Kept' BY <1>0, <1>4, <1>5 DEF NotRead, Fetched, Kept, Pins
  <2> QED BY <1>1, <1>2, <2>1, <2>2 DEF Fetched
<1>6. ASSUME FetchLeft, NEW s \in Free, Pin(s, task.l, "fetch_right"), left' = s PROVE Fetched'
  <2>0. tpc = "fetch_left" /\ tpc' \in {"fetch_right", "failed"} BY <1>6 DEF FetchLeft, Pin
  <2>1. Views' BY <1>0, <1>3, <1>6, <2>0, PinStep DEF Views
  <2>2. Cardinality(pinned') = Cardinality(pinned) + 1 /\ IsFiniteSet(pinned') BY <1>3, <1>6, PinStep
  <2>3. Kept' BY <1>0, <1>4, <2>0, <2>2 DEF Fetched, Kept, Pins
  <2> QED BY <1>1, <1>2, <2>1, <2>3 DEF Fetched
<1>7. ASSUME FetchRight, NEW s \in Free, Pin(s, task.r, "blend"), right' = s, left' = left PROVE Fetched'
  <2>0. tpc = "fetch_right" /\ tpc' \in {"blend", "failed"} BY <1>7 DEF FetchRight, Pin
  <2>1. left \in pinned /\ staged[left] = task.l BY <2>0 DEF Fetched, Views
  <2>2. /\ staged' \in [SlotIds -> Int] /\ pinned' \subseteq SlotIds
        /\ s \in pinned' /\ staged'[s] = task.r
        /\ left \in pinned' /\ staged'[left] = staged[left]
        /\ IsFiniteSet(pinned') /\ Cardinality(pinned') = Cardinality(pinned) + 1
    BY <1>3, <1>7, <2>1, PinStep
  <2>3. Views' BY <1>0, <1>7, <2>0, <2>1, <2>2 DEF Views
  <2>4. Kept' BY <1>0, <1>4, <2>0, <2>2 DEF Fetched, Kept, Pins
  <2> QED BY <1>1, <1>2, <2>3, <2>4 DEF Fetched
<1> QED BY <1>5, <1>6, <1>7 DEF FetchLeft, FetchRight

\* Another reader only touches slots of no view.
LEMMA OtherStep ==
    ASSUME Fetched, NEW s \in SlotIds, NEW step \in TSteps, OtherRead(s, step)
    PROVE  Fetched'
<1>1. step \in Int BY TnAssumption
<1>2. Stages' BY DEF Fetched, Stages, OtherRead
<1>3. Views' BY <1>1 DEF Fetched, Views, OtherRead, Free
<1>4. Written' BY DEF Fetched, Written, ElementExact, OtherRead
<1>5. Kept' BY DEF Fetched, Kept, Pins, OtherRead
<1> QED BY <1>2, <1>3, <1>4, <1>5 DEF Fetched

\* Products of numbers that are not negative, for the nonlinear steps below.
LEMMA Products ==
    ASSUME NEW x \in Int, NEW y \in Int, x >= 0, y >= 0
    PROVE  x * y >= 0
OBVIOUS

\* A linear blend lies between its operands and at the weight's distance.
LEMMA Between ==
    ASSUME NEW x \in Int, NEW y \in Int, NEW n \in Nat, NEW d \in Nat, d > 0, n <= d
    PROVE  LET o == x * (d - n) + y * n IN
           /\ IF x * d <= y * d THEN x * d <= o /\ o <= y * d ELSE y * d <= o /\ o <= x * d
           /\ (o - x * d) * d = (y * d - x * d) * n
<1> DEFINE o == x * (d - n) + y * n
<1>1. o - x * d = (y - x) * n OBVIOUS
<1>2. y * d - o = (y - x) * (d - n) OBVIOUS
<1>3. y * d - x * d = (y - x) * d OBVIOUS
<1>4. o \in Int /\ x * d \in Int /\ y * d \in Int /\ y - x \in Int /\ d - n \in Int /\ d - n >= 0 OBVIOUS
<1>5. CASE y - x >= 0
  <2>1. (y - x) * n >= 0 /\ (y - x) * (d - n) >= 0 /\ (y - x) * d >= 0 BY <1>4, <1>5, Products
  <2> QED BY <1>1, <1>2, <1>3, <1>4, <2>1
<1>6. CASE y - x < 0
  <2>1. (x - y) * n >= 0 /\ (x - y) * (d - n) >= 0 /\ (x - y) * d > 0 BY <1>4, <1>6, Products
  <2> QED BY <1>1, <1>2, <1>3, <1>4, <2>1
<1> QED BY <1>4, <1>5, <1>6

\* Every element the views cover is blended from the two samples.
LEMMA BlendedExact ==
    ASSUME NEW t \in Task, NEW i \in 1 .. t.count, i <= ViewSize,
           NEW lv \in Reads(t.l, t.count), NEW rv \in Reads(t.r, t.count)
    PROVE  LET o == execute_blend(lv, rv, t.count, t.alpha, to_blend_profile_tag(t.profile))[i]
               l == Sample(t.l, i) * t.alpha.den
               r == Sample(t.r, i) * t.alpha.den
           IN /\ IF l <= r THEN l <= o /\ o <= r ELSE r <= o /\ o <= l
              /\ (t.alpha.num = 0 => o = l)
              /\ (t.profile = "step" => o \in {l, r})
              /\ (t.profile = "linear" => (o - l) * t.alpha.den = (r - l) * t.alpha.num)
<1> DEFINE b == execute_blend(lv, rv, t.count, t.alpha, to_blend_profile_tag(t.profile))
<1>0. /\ t.count \in OutSizes /\ t.l \in TSteps /\ t.r \in TSteps /\ t.alpha \in Weights
      /\ t.profile \in {"linear", "step"}
  BY DEF Task
<1>1. /\ t.count \in Nat /\ t.l \in Int /\ t.r \in Int /\ t.alpha \in Weights /\ i \in Nat
      /\ t.profile \in {"linear", "step"}
  <2>1. t.count \in Nat /\ t.l \in Int /\ t.r \in Int BY <1>0, TnAssumption
  <2> QED BY <1>0, <2>1
<1>2. PICK x, y : x = Sample(t.l, i) /\ y = Sample(t.r, i) OBVIOUS
<1>3. x \in Int /\ y \in Int BY <1>1, <1>2 DEF Sample
<1>4. PICK n \in Nat, d \in Nat : n = t.alpha.num /\ d = t.alpha.den BY <1>1, TnAssumption
<1>5. d > 0 /\ n <= d BY <1>1, <1>4, TnAssumption
<1>6. lv[i] = x /\ rv[i] = y BY <1>2 DEF Reads
<1>7. b[i] = IF to_blend_profile_tag(t.profile) = 0 THEN LinearBlend(x, y, t.alpha)
                                                     ELSE StepBlend(x, y, t.alpha)
  BY <1>6 DEF execute_blend
<1>8. to_blend_profile_tag(t.profile) = 0 <=> t.profile = "linear"
  BY <1>1 DEF to_blend_profile_tag
<1>9. PICK o : o = b[i] OBVIOUS
<1> HIDE DEF b
<1>10. CASE t.profile = "linear"
  <2>1. o = x * (d - n) + y * n BY <1>4, <1>7, <1>8, <1>9, <1>10 DEF LinearBlend
  <2>2. /\ IF x * d <= y * d THEN x * d <= o /\ o <= y * d ELSE y * d <= o /\ o <= x * d
        /\ (o - x * d) * d = (y * d - x * d) * n
    BY <1>3, <1>5, <2>1, Between
  <2>3. n = 0 => o = x * d BY <1>3, <2>1
  <2> QED BY <1>2, <1>4, <1>9, <1>10, <2>2, <2>3 DEF b
<1>11. CASE t.profile = "step"
  <2>1. o = (IF 2 * n >= d THEN y ELSE x) * d BY <1>4, <1>7, <1>8, <1>9, <1>11 DEF StepBlend
  <2>2. o = x * d \/ o = y * d BY <2>1
  <2>3. x * d \in Int /\ y * d \in Int BY <1>3
  <2>4. IF x * d <= y * d THEN x * d <= o /\ o <= y * d ELSE y * d <= o /\ o <= x * d
    BY <2>2, <2>3
  <2>5. n = 0 => o = x * d BY <1>5, <2>1
  <2> QED BY <1>2, <1>4, <1>9, <1>11, <2>2, <2>4, <2>5 DEF b
<1> QED BY <1>1, <1>10, <1>11

\* The kernel reads the two steps of the call: its slots are pinned.
LEMMA BlendStep == Fetched /\ Blend => Fetched'
<1> SUFFICES ASSUME Fetched, Blend PROVE Fetched' OBVIOUS
<1>1. /\ task \in Task /\ tpc = "blend" /\ staged[left] = task.l /\ staged[right] = task.r
      /\ task' = task /\ staged' = staged /\ pinned' = pinned
  BY DEF Blend, Fetched, Stages, Views
<1>2. PICK l \in Reads(task.l, task.count), r \in Reads(task.r, task.count) :
        LET b == execute_blend(l, r, task.count, task.alpha, to_blend_profile_tag(task.profile))
        IN \/ /\ output' = b /\ written' = 1 .. task.count
              /\ tpc' = "completed" /\ finished' = finished + 1
           \/ /\ written' \in SUBSET (1 .. task.count)
              /\ output' = [i \in 1 .. task.count |-> IF i \in written' THEN b[i] ELSE output[i]]
              /\ tpc' = "failed" /\ UNCHANGED finished
  BY <1>1 DEF Blend
<1> DEFINE b == execute_blend(l, r, task.count, task.alpha, to_blend_profile_tag(task.profile))
<1>3. /\ written' \subseteq 1 .. task.count
      /\ tpc' \in {"completed", "failed"} /\ (tpc' = "completed" => written' = 1 .. task.count)
      /\ \A i \in written' : output'[i] = b[i]
  BY <1>2
<1>4. Stages' BY <1>1, <1>3 DEF Stages
<1>5. Views' BY <1>1, <1>3 DEF Fetched, Views
<1>6. Kept'
  <2>1. finished \in Nat /\ Cardinality(pinned) \in Nat /\ IsFiniteSet(pinned)
        /\ 2 * finished + 2 <= Cardinality(pinned)
    BY <1>1, FS_CardinalityType DEF Fetched, Kept, Pins
  <2>2. finished' \in {finished, finished + 1} BY <1>2
  <2>3. Pins' = 0 BY <1>3 DEF Pins
  <2> QED BY <1>1, <2>1, <2>2, <2>3 DEF Kept
<1>7. Written'
  <2> SUFFICES ASSUME NEW i \in written', i <= ViewSize PROVE ElementExact(i)' BY DEF Written
  <2>1. i \in 1 .. task.count /\ output'[i] = b[i] BY <1>3
  <2> QED BY <1>1, <2>1, BlendedExact DEF ElementExact
<1> QED BY <1>4, <1>5, <1>6, <1>7 DEF Fetched

\* Every step of the transform keeps the invariant.
LEMMA BookendStep == Fetched /\ [TnNext]_tvars => Fetched'
<1> SUFFICES ASSUME Fetched, [TnNext]_tvars PROVE Fetched' OBVIOUS
<1>1. CASE UNCHANGED tvars
  BY <1>1 DEF tvars, Fetched, Stages, Views, Written, ElementExact, Kept, Pins
<1> QED BY <1>1, DispatchStep, FetchStep, BlendStep, OtherStep DEF TnNext

(***************************************************************************)
(* dispatch_temporal_bookend: for any number of staging slots, any sizes   *)
(* of the views and of the output, any time steps and any weight TICK may  *)
(* give, every element that a call writes and the views reach is blended   *)
(* from the two steps of that call, although other readers use the slots   *)
(* meanwhile and whatever lies in the memory behind the views; and every   *)
(* call that has returned has left two slots taken, so that no more than   *)
(* half as many calls as there are slots ever return.  Of the elements     *)
(* beyond the views nothing is claimed: they come from that memory.        *)
(***************************************************************************)
THEOREM BookendStaysExact == TnSpec => []BookendExact
<1>1. Fetched => BookendExact
  <2> SUFFICES ASSUME Fetched PROVE BookendExact OBVIOUS
  <2>1. finished \in Nat /\ Cardinality(pinned) \in Nat /\ 2 * finished <= Cardinality(pinned)
    BY FS_CardinalityType DEF Fetched, Kept, Pins
  <2>2. IsFiniteSet(SlotIds) /\ Cardinality(SlotIds) = Slots
    BY FS_Interval, TnAssumption DEF SlotIds
  <2>3. Cardinality(pinned) <= Slots BY <2>2, FS_Subset DEF Fetched, Views
  <2>4. 2 * finished <= Slots BY <2>1, <2>3, TnAssumption
  <2> QED BY <2>1, <2>4 DEF Fetched, Stages, Written, BookendExact
<1> QED BY <1>1, BookendStart, BookendStep, PTL DEF TnSpec

-----------------------------------------------------------------------------
(* TICK's checked arithmetic *)

\* Whole division: the quotient is the number of times the divisor fits.
LEMMA Fits ==
    ASSUME NEW m \in Nat, NEW b \in Nat, b > 0
    PROVE  m \div b \in Nat /\ (m \div b) * b <= m /\ m < (m \div b + 1) * b
OBVIOUS

\* A product is monotonic in a factor that is not negative.
LEMMA Scaled ==
    ASSUME NEW x \in Int, NEW y \in Int, NEW z \in Nat, x <= y
    PROVE  x * z <= y * z
<1>1. (y - x) * z >= 0 BY Products
<1>2. (y - x) * z = y * z - x * z OBVIOUS
<1> QED BY <1>1, <1>2

\* The limit test by division decides whether a product of natural numbers
\* exceeds the limit.
LEMMA LimitTest ==
    ASSUME NEW m \in Nat, NEW a \in Nat, NEW b \in Nat, b > 0
    PROVE  a > m \div b <=> a * b > m
<1>1. PICK q \in Nat : q = m \div b /\ q * b <= m /\ m < (q + 1) * b BY Fits
<1>2. CASE a > q
  <2>1. (q + 1) * b <= a * b BY <1>2, Scaled
  <2>2. (q + 1) * b \in Int /\ a * b \in Int OBVIOUS
  <2> QED BY <1>1, <1>2, <2>1, <2>2
<1>3. CASE a <= q
  <2>1. a * b <= q * b BY <1>3, Scaled
  <2>2. q * b \in Int /\ a * b \in Int OBVIOUS
  <2> QED BY <1>1, <1>3, <2>1, <2>2
<1> QED BY <1>2, <1>3

\* Sums and differences: the limits are compared before the operation.
LEMMA AddAgrees ==
    ASSUME NEW a \in Ints, NEW b \in Ints
    PROVE  checked_add(a, b) = Builtin(a + b) /\ checked_sub(a, b) = Builtin(a - b)
BY ArithAssumption DEF checked_add, checked_sub, Builtin, Ints, MinInt

\* Products: the limits are divided before the operation.
LEMMA MulAgrees ==
    ASSUME NEW a \in Ints, NEW b \in Ints
    PROVE  checked_mul(a, b) = Builtin(a * b)
<1>1. MaxInt \in Nat /\ a \in Int /\ b \in Int BY ArithAssumption DEF Ints, MinInt
<1>2. CASE a = 0 \/ b = 0
  <2>1. a * b = 0 /\ 0 \in Ints BY <1>1, <1>2 DEF Ints, MinInt
  <2> QED BY <1>2, <2>1 DEF checked_mul, Builtin
<1>3. CASE a = -1 /\ b # 0
  <2>1. a * b = -b /\ (b = MinInt <=> -b \notin Ints) BY <1>1, <1>3 DEF Ints, MinInt
  <2> QED BY <1>1, <1>3, <2>1 DEF checked_mul, Builtin
<1>4. CASE b = -1 /\ a \notin {0, -1}
  <2>1. a * b = -a /\ (a = MinInt <=> -a \notin Ints) BY <1>1, <1>4 DEF Ints, MinInt
  <2> QED BY <1>1, <1>4, <2>1 DEF checked_mul, Builtin
<1>5. CASE a \notin {0, -1} /\ b \notin {0, -1}
  <2> DEFINE Bad == \/ a > 0 /\ b > 0 /\ a > Quotient(MaxInt, b)
                    \/ a > 0 /\ b < 0 /\ b < Quotient(MinInt, a)
                    \/ a < 0 /\ b > 0 /\ a < Quotient(MinInt, b)
                    \/ a < 0 /\ b < 0 /\ a < Quotient(MaxInt, b)
  <2>1. checked_mul(a, b) = IF Bad THEN overflow_error ELSE Exact(a * b)
    BY <1>1, <1>5 DEF checked_mul
  <2>2. a * b \in Int BY <1>1
  <2>3. Bad <=> a * b \notin Ints
    <3>1. CASE a > 0 /\ b > 0
      <4>1. Quotient(MaxInt, b) = MaxInt \div b BY <1>1, <3>1 DEF Quotient
      <4>2. a > MaxInt \div b <=> a * b > MaxInt BY <1>1, <3>1, LimitTest
      <4>3. a * b >= 0 BY <1>1, <3>1, Products
      <4>4. a * b \notin Ints <=> a * b > MaxInt BY <1>1, <2>2, <4>3 DEF Ints, MinInt
      <4> QED BY <1>1, <3>1, <4>1, <4>2, <4>4
    <3>2. CASE a > 0 /\ b < 0
      <4>1. Quotient(MinInt, a) = -((MaxInt + 1) \div a) BY <1>1, <3>2 DEF Quotient, MinInt
      <4>2. -b > (MaxInt + 1) \div a <=> (-b) * a > MaxInt + 1 BY <1>1, <3>2, LimitTest
      <4>3. (-b) * a >= 0 BY <1>1, <3>2, Products
      <4>4. (-b) * a = -(a * b) BY <1>1
      <4>5. a * b \notin Ints <=> (-b) * a > MaxInt + 1 BY <1>1, <2>2, <4>3, <4>4 DEF Ints, MinInt
      <4>6. (MaxInt + 1) \div a \in Int BY <1>1, <3>2
      <4> QED BY <1>1, <3>2, <4>1, <4>2, <4>5, <4>6
    <3>3. CASE a < 0 /\ b > 0
      <4>1. Quotient(MinInt, b) = -((MaxInt + 1) \div b) BY <1>1, <3>3 DEF Quotient, MinInt
      <4>2. -a > (MaxInt + 1) \div b <=> (-a) * b > MaxInt + 1 BY <1>1, <3>3, LimitTest
      <4>3. (-a) * b >= 0 BY <1>1, <3>3, Products
      <4>4. (-a) * b = -(a * b) BY <1>1
      <4>5. a * b \notin Ints <=> (-a) * b > MaxInt + 1 BY <1>1, <2>2, <4>3, <4>4 DEF Ints, MinInt
      <4>6. (MaxInt + 1) \div b \in Int BY <1>1, <3>3
      <4> QED BY <1>1, <3>3, <4>1, <4>2, <4>5, <4>6
    <3>4. CASE a < 0 /\ b < 0
      <4>1. Quotient(MaxInt, b) = -(MaxInt \div (-b)) BY <1>1, <3>4 DEF Quotient
      <4>2. -a > MaxInt \div (-b) <=> (-a) * (-b) > MaxInt BY <1>1, <3>4, LimitTest
      <4>3. (-a) * (-b) >= 0 BY <1>1, <3>4, Products
      <4>4. (-a) * (-b) = a * b BY <1>1
      <4>5. a * b \notin Ints <=> (-a) * (-b) > MaxInt BY <1>1, <2>2, <4>3, <4>4 DEF Ints, MinInt
      <4>6. MaxInt \div (-b) \in Int BY <1>1, <3>4
      <4> QED BY <1>1, <3>4, <4>1, <4>2, <4>5, <4>6
    <3> QED BY <1>1, <1>5, <3>1, <3>2, <3>3, <3>4
  <2> QED BY <2>1, <2>3 DEF Builtin
<1> QED BY <1>1, <1>2, <1>3, <1>4, <1>5

(***************************************************************************)
(* TICK's checked arithmetic (tick/detail/overflow.hpp): for integers of   *)
(* any width, the limit tests of the bodies that the compiler evaluates    *)
(* and the overflow builtins of the run-time bodies give the same result   *)
(* on every pair of operands: the exact one, or overflow_error.            *)
(***************************************************************************)
THEOREM ArithmeticStaysExact == ASpec => []ArithmeticExact
<1>1. AInit => ArithmeticExact BY DEF AInit, ArithmeticExact
<1>2. ArithmeticExact /\ [ANext]_avars => ArithmeticExact'
  <2> SUFFICES ASSUME ArithmeticExact, [ANext]_avars PROVE ArithmeticExact' OBVIOUS
  <2>1. ASSUME NEW op \in Ops, NEW a \in Ints, NEW b \in Ints, Compute(op, a, b) PROVE ArithmeticExact'
    <3>1. Unit \in Ints BY ArithAssumption DEF Ints, MinInt
    <3>2. ByCompiler(op, a, b) = AtRunTime(op, a, b)
      BY <3>1, AddAgrees, MulAgrees DEF Ops, ByCompiler, AtRunTime, FromUnits
    <3> QED BY <2>1, <3>2 DEF Compute, ArithmeticExact
  <2>2. CASE UNCHANGED avars BY <2>2 DEF avars, ArithmeticExact
  <2> QED BY <2>1, <2>2 DEF ANext
<1> QED BY <1>1, <1>2, PTL DEF ASpec
=============================================================================
