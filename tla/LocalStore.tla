---------------------------- MODULE LocalStore ----------------------------
(***************************************************************************)
(* frontend/src/local-store.ts: one key of the browser's storage and the   *)
(* copy the page keeps of it.                                              *)
(*                                                                         *)
(* As long as the page lives its copy counts, so a storage that is full or *)
(* forbidden only costs what a reload would have brought back.             *)
(***************************************************************************)
CONSTANT Absent  \* nothing is kept

\* The storage takes what is written, or it is full or forbidden.
EmptySlots == [memory : {Absent}, disk : {Absent}, works : BOOLEAN]

\* read: the copy, or else the stored value if the owner of the key accepts it.
SlotValue(slot, valid) ==
    IF slot.memory # Absent THEN slot.memory
    ELSE IF slot.disk # Absent /\ valid THEN slot.disk
    ELSE Absent

\* read keeps what it found.
SlotRead(slot, valid) == [slot EXCEPT !.memory = SlotValue(slot, valid)]

\* write: an invalid value is dropped; if setItem fails the copy remains.
SlotWritten(slot, value, valid) ==
    IF ~valid THEN slot
    ELSE [slot EXCEPT !.memory = value,
                      !.disk = IF slot.works THEN value ELSE @]

\* remove.
SlotRemoved(slot) == [slot EXCEPT !.memory = Absent, !.disk = Absent]

\* The page is loaded anew.
SlotReloaded(slot) == [slot EXCEPT !.memory = Absent]
=============================================================================
