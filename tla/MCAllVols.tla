----------------------------- MODULE MCAllVols -----------------------------
(* Values of the constants of AllVols for TLC: a card in slot 7 and any of    *)
(* five other devices, or nearly all there can be; the file as it is, and     *)
(* copies set to the card.                                                    *)
EXTENDS AllVols, Sequences, FiniteSetsExt

CONSTANTS card, disk

MCDrivers == {card, disk}

\* Slot 7 is the card; the other slots have other controllers.
MCDriver(p) == IF p \in {7, 15} THEN card ELSE disk

MCTable(present) ==
    LET seq == FoldSet(LAMBDA p, s : Append(s, p), <<>>, present)
    IN  [driver |-> [p \in Places |-> IF p \in present THEN MCDriver(p) ELSE NoDevice],
         count  |-> Len(seq) - 1,
         list   |-> [i \in 0..LastEntry |-> IF i < Len(seq) THEN seq[i + 1] ELSE 0]]

MCPresent == {{7} \cup s : s \in SUBSET {1, 6, 9, 11, 15}} \cup {Devices, Devices \ {3, 12}}
MCPresets == {[conf |-> 0, slot |-> 0], [conf |-> 0, slot |-> 7], [conf |-> 3, slot |-> 7]}
MCTables  == {MCTable(present) : present \in MCPresent}
=============================================================================
