--------------------------- MODULE MCSchemaDecoding ---------------------------
(***************************************************************************)
(* What the apply worker makes of persisted state when it starts again:    *)
(* the slot it streams from and the schemas it decodes with.  The two      *)
(* parts share no state; in a behaviour one of them moves.  Tables are     *)
(* symmetric: no definition distinguishes or orders them.                  *)
(***************************************************************************)
EXTENDS SchemaDecoding, TLC

CONSTANTS Tables, Recreate, MaxLsn, MaxFaults

VARIABLES part, slotWal, timeline, slot, slotCheckpoint, row, worker, dest, apply, faults

slotVars == <<slotWal, timeline, slot, slotCheckpoint, row, worker, dest, apply, faults>>

Slot == INSTANCE ApplySlot WITH wal <- slotWal, checkpoint <- slotCheckpoint

MCShapes == {<<"row", "ddl">>, <<"row", "ddl", "row">>, <<"noop", "row">>, <<"ddl", "trunc">>}

MCInit ==
    /\ part \in {"decoding", "slot"}
    /\ Init /\ Slot!Init
    /\ part = "slot" => /\ \A i \in 1..NumTx : wal[i] = <<"noop", "row">>
                        /\ table.lsn = EndLsn(0) /\ checkpoint = 0

MCNext ==
    \/ part = "decoding" /\ Next /\ UNCHANGED <<part, slotVars>>
    \/ part = "slot" /\ Slot!Next /\ UNCHANGED <<part, vars>>

MCSpec == MCInit /\ [][MCNext]_<<part, vars, slotVars>>

-----------------------------------------------------------------------------
(* A table the apply worker owns has every change up to the position the   *)
(* stream has reached, whichever steps of a slot recreation were cut off   *)
(* and whatever table-sync workers stored meanwhile (get_start_lsn,        *)
(* handle_invalidated_slot).                                               *)
NoMissedChanges == Slot!NoMissedChanges

(* A slot is never paired with the checkpoint of an earlier slot           *)
(* (get_start_lsn).                                                        *)
CheckpointOfThisSlot == Slot!CheckpointOfThisSlot

Symmetry == Permutations(Tables)

=============================================================================
