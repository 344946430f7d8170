---------------------------- MODULE PortChannel -----------------------------
(***************************************************************************)
(* What the data port promises to the two programs that use it: a mailbox  *)
(* of one byte in each direction.  The Apple sees toArd through OBFA and   *)
(* toHost through IBFA; the Arduino sees the same two flags.  The Apple    *)
(* stores a byte in one instruction; the Arduino commits to a byte         *)
(* (ArdOffer) and strobes it in later (ArdPut).                            *)
(***************************************************************************)
EXTENDS Sequences

CONSTANT Data   \* the bytes that can be sent

VARIABLES toArd,   \* <<>> or <<b>>: written by the Apple, not taken by the Arduino
          toHost,  \* <<>> or <<b>>: written by the Arduino, not taken by the Apple
          offer    \* <<>> or <<b>>: the byte the Arduino is about to write

channel == <<toArd, toHost, offer>>

Init == toArd = <<>> /\ toHost = <<>> /\ offer = <<>>

HostPut(b) == toArd = <<>> /\ toArd' = <<b>> /\ UNCHANGED <<toHost, offer>>

ArdTake(b) == toArd = <<b>> /\ toArd' = <<>> /\ UNCHANGED <<toHost, offer>>

ArdOffer(b) == offer = <<>> /\ offer' = <<b>> /\ UNCHANGED <<toArd, toHost>>

ArdPut == /\ offer # <<>> /\ toHost = <<>>
          /\ toHost' = offer /\ offer' = <<>>
          /\ UNCHANGED toArd

HostTake(b) == toHost = <<b>> /\ toHost' = <<>> /\ UNCHANGED <<toArd, offer>>

\* The mode word $FA empties both mailboxes.
Clear == toArd' = <<>> /\ toHost' = <<>> /\ UNCHANGED offer

\* RESET.
Restart == toArd' = <<>> /\ toHost' = <<>> /\ offer' = <<>>

Next == \/ \E b \in Data : HostPut(b) \/ ArdTake(b) \/ ArdOffer(b) \/ HostTake(b)
        \/ ArdPut \/ Clear \/ Restart

Spec == Init /\ [][Next]_channel
=============================================================================
