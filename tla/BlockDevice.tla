---------------------------- MODULE BlockDevice -----------------------------
(***************************************************************************)
(* What the card promises a program on the Apple that calls the driver.    *)
(* One call at a time; a read fills the caller's buffer with what the      *)
(* drive holds; a write is accepted with "ok" once its data have been      *)
(* handed over, and reaches the drive later, or never (the posted write):  *)
(* no call is served while one is outstanding, so no read overtakes it.    *)
(* A format is refused or never returns.                                   *)
(***************************************************************************)
EXTENDS Naturals

CONSTANTS Drives, Contents, Block, Size

VARIABLES disk,    \* what each drive holds
          posted,  \* the writes accepted and not stored: none or one
          call,    \* the call in progress: a set of at most one
          status,  \* how it was served
          answer,  \* the block a served read returns
          buffer,  \* the caller's buffer
          result   \* what the last call returned

vars == <<disk, posted, call, status, answer, buffer, result>>

ReturnsBlock == {"read", "get", "setget"}
ChangesMedia == {"set", "setget"}
Kinds == {"status", "write", "format"} \cup ReturnsBlock \cup ChangesMedia
Calls == [kind : Kinds, drive : Drives]

Init ==
    /\ disk \in [Drives -> Contents]
    /\ posted = {} /\ call = {}
    /\ status = "none" /\ result = "none"
    /\ answer \in Block /\ buffer \in Block

\* The caller fills its buffer and calls.
Invoke == /\ call = {}
          /\ \E c \in Calls : call' = {c}
          /\ status' = "none" /\ result' = "none"
          /\ buffer' \in Contents /\ answer' \in Block
          /\ UNCHANGED <<disk, posted>>

Refuse == /\ call # {} /\ status = "none" /\ posted = {}
          /\ status' = "error"
          /\ answer' \in Block
          /\ UNCHANGED <<disk, posted, call, buffer, result>>

Read == \E c \in call :
          /\ c.kind = "read" /\ status = "none" /\ posted = {}
          /\ status' = "ok" /\ answer' = disk[c.drive]
          /\ UNCHANGED <<disk, posted, call, buffer, result>>

Write == \E c \in call :
          /\ c.kind = "write" /\ status = "none" /\ posted = {}
          /\ status' = "ok" /\ posted' = {[drive |-> c.drive, data |-> buffer]}
          /\ answer' \in Block
          /\ UNCHANGED <<disk, call, buffer, result>>

\* Every other call; the ones that set the volumes change what the drives hold.
Other == \E c \in call :
          /\ c.kind \notin {"read", "write"} /\ status = "none" /\ posted = {}
          /\ status' = "ok" /\ answer' \in Block
          /\ IF c.kind \in ChangesMedia
               THEN disk' \in [Drives -> Contents]
               ELSE UNCHANGED disk
          /\ UNCHANGED <<posted, call, buffer, result>>

\* The bytes of the answer arrive one after the other.
Fill == \E c \in call, i \in 0..Size - 1 :
          /\ c.kind \in ReturnsBlock /\ status = "ok"
          /\ buffer' = [buffer EXCEPT ![i] = answer[i]]
          /\ UNCHANGED <<disk, posted, call, status, answer, result>>

Return == \E c \in call :
          /\ status # "none" /\ (c.kind = "format" => status = "error")
          /\ result' = status /\ call' = {}
          /\ IF c.kind \in ReturnsBlock /\ status = "ok"
               THEN buffer' = answer
               ELSE UNCHANGED buffer
          /\ UNCHANGED <<disk, posted, status, answer>>

Store == \E w \in posted :
          /\ posted' = {}
          /\ disk' \in {disk, [disk EXCEPT ![w.drive] = w.data]}
          /\ UNCHANGED <<call, status, answer, buffer, result>>

\* RESET loses the call in progress and a write that was accepted.
Reset == /\ posted' = {} /\ call' = {}
         /\ status' = "none" /\ result' = "none"
         /\ answer' \in Block
         /\ UNCHANGED <<disk, buffer>>

Next == \/ Invoke \/ Refuse \/ Read \/ Write \/ Other
        \/ Fill \/ Return \/ Store \/ Reset

Spec == Init /\ [][Next]_vars
=============================================================================
