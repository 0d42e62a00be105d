---------------------------- MODULE HandleTable -----------------------------
(***************************************************************************)
(* amio::detail::HandleTable: generation-stamped slots behind the opaque   *)
(* handles of the C API.  Every call is one critical section of mu_.  A    *)
(* token is <<slot, generation>>; the generation has GenModulus values of  *)
(* which 0 is never issued (2^32 in the code).                             *)
(***************************************************************************)
EXTENDS Naturals, Sequences, FiniteSets

CONSTANTS
    Kinds,        \* HandleKind
    Payloads,     \* the objects handles stand for
    GenModulus,   \* number of values of a generation
    MaxSlots,     \* bound: handles live at once
    MaxReuse      \* bound: how often a slot is issued

ASSUME TableAssumption ==
    /\ GenModulus \in Nat /\ GenModulus > 2
    /\ MaxSlots \in Nat /\ MaxReuse \in Nat

VARIABLES
    slots,      \* slots_: generation, live, kind, payload
    free_list,  \* free_list_, taken from the back
    history     \* per slot, every handle it was issued for: a history variable

htVars == <<slots, free_list, history>>

NoPayload == "nullptr"

HTInit == slots = <<>> /\ free_list = <<>> /\ history = <<>>

\* A null token, as the C boundary passes it, has slot and generation 0.
pack(s, g) == <<s, g>>

\* The slot as insert leaves it, and the handle in its history.
Issued(g, k, p) == [generation |-> g, live |-> TRUE, kind |-> k, payload |-> p]

InsertNew(k, p) ==
    /\ free_list = <<>>
    /\ Len(slots) < MaxSlots
    /\ slots' = Append(slots, Issued(1, k, p))
    /\ history' = Append(history, <<Issued(1, k, p)>>)
    /\ UNCHANGED free_list

\* A released slot is issued again, under the generation release left it with.
InsertRecycled(k, p) ==
    /\ free_list # <<>>
    /\ LET s == free_list[Len(free_list)]
           h == Issued(slots[s].generation, k, p)
       IN  /\ Len(history[s]) < MaxReuse
           /\ slots' = [slots EXCEPT ![s] = h]
           /\ history' = [history EXCEPT ![s] = Append(@, h)]
    /\ free_list' = SubSeq(free_list, 1, Len(free_list) - 1)

\* Mutant of Valid: the generation is not compared.
ValidSlotOnly(tok, k) ==
    /\ tok[1] \in 1 .. Len(slots)
    /\ slots[tok[1]].live
    /\ slots[tok[1]].kind = k

\* lookup returns AMIO_OK: what release asks for too.
Valid(tok, k) ==
    /\ tok[1] \in 1 .. Len(slots)
    /\ slots[tok[1]].live
    /\ slots[tok[1]].generation = tok[2]
    /\ slots[tok[1]].kind = k

NextGeneration(g) == IF (g + 1) % GenModulus = 0 THEN 1 ELSE g + 1

\* The tokens callers may pass: every one they were ever given.
Known == UNION {{pack(s, history[s][i].generation) : i \in 1 .. Len(history[s])} :
                    s \in 1 .. Len(slots)}

\* A token that is not valid is refused and changes nothing.
HTRelease(tok, k) ==
    /\ Valid(tok, k)
    /\ slots' = [slots EXCEPT ![tok[1]].live = FALSE,
                              ![tok[1]].payload = NoPayload,
                              ![tok[1]].generation = NextGeneration(@)]
    /\ free_list' = Append(free_list, tok[1])
    /\ UNCHANGED history

HTNext == \/ \E k \in Kinds, p \in Payloads : InsertNew(k, p) \/ InsertRecycled(k, p)
        \/ \E tok \in Known, k \in Kinds : HTRelease(tok, k)

HTSpec == HTInit /\ [][HTNext]_htVars

-----------------------------------------------------------------------------
HTTypeOK ==
    /\ \A s \in 1 .. Len(slots) :
          /\ slots[s].generation \in 1 .. GenModulus - 1
          /\ slots[s].live \in BOOLEAN
          /\ slots[s].kind \in Kinds
          /\ slots[s].payload \in Payloads \cup {NoPayload}
    /\ free_list \in Seq(1 .. Len(slots))

(***************************************************************************)
(* The token of an earlier handle of a slot is refused: it can be mistaken *)
(* for the slot's present handle only when the slot has since been issued  *)
(* as often as there are generations.  Short of that a valid token yields  *)
(* the payload it was issued for, and only as the kind it was issued for.  *)
(***************************************************************************)
StaleTokensRefused ==
    /\ HTTypeOK
    /\ \A s \in 1 .. Len(slots) : \A i \in 1 .. Len(history[s]) : \A k \in Kinds :
          Valid(pack(s, history[s][i].generation), k) /\ Len(history[s]) - i < GenModulus - 1 =>
              /\ i = Len(history[s]) /\ slots[s].live
              /\ k = history[s][i].kind /\ slots[s].payload = history[s][i].payload
=============================================================================
