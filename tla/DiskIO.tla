------------------------------- MODULE DiskIO -------------------------------
(***************************************************************************)
(* What the functions disk_initialize(), disk_read(), disk_write() and     *)
(* disk_ioctl(CTRL_SYNC) promise their callers: one call at a time on one  *)
(* of two sockets.  A read that succeeds returns the sector, a write that  *)
(* succeeds will be stored unless the card is pulled first, a call that    *)
(* fails changes nothing but the sector it was to write, and a socket that *)
(* was not initialised is not ready.                                       *)
(***************************************************************************)
EXTENDS Naturals

CONSTANTS Cards, NoCard, Broken, Sectors, Size, Values

VARIABLES inside,  \* the card in each socket
          mem,     \* what the cards hold
          posted,  \* the write a card has accepted and not stored: none or one
          up,      \* the sockets that are initialised
          call,    \* the call in progress: none or one
          pulled,  \* its card has been pulled since it began
          result, data

vars == <<inside, mem, posted, up, call, pulled, result, data>>

Sockets == {0, 1}
Calls == [op : {"init", "read", "sync", "write"}, d : Sockets, s : Sectors, v : Values]
NoWrite == [c \in Cards |-> {}]

Init ==
    /\ inside \in [Sockets -> Cards \cup {NoCard}]
    /\ mem \in [Cards -> [0..Size - 1 -> Values]]
    /\ posted = NoWrite /\ up = {} /\ call = {} /\ pulled = FALSE
    /\ result = "none" /\ data \in Values

Invoke == \E c \in Calls :
    /\ call = {} /\ call' = {c} /\ pulled' = FALSE /\ result' = "none"
    /\ data' \in Values
    /\ UNCHANGED <<inside, mem, posted, up>>

\* The answer to a socket that is not initialised, without a call to the card.
NotReady == \E c \in Calls :
    /\ call = {} /\ c.op # "init" /\ c.d \notin up
    /\ result' = "notrdy" /\ pulled' = FALSE /\ data' \in Values
    /\ UNCHANGED <<inside, mem, posted, up, call>>

Ends(r) == call' = {} /\ result' = r /\ pulled' = FALSE /\ UNCHANGED <<inside, mem>>

Initialize == \E c \in call, ok \in BOOLEAN :
    /\ c.op = "init"
    /\ ok => inside[c.d] # NoCard \/ pulled
    /\ up' = IF ok THEN up \cup {c.d} ELSE up \ {c.d}
    /\ Ends(IF ok THEN "ok" ELSE "error")
    /\ UNCHANGED <<posted, data>>

\* The checksum of a block is not looked at: a card that is pulled in the middle
\* of a block leaves anything in the rest of the buffer.
Read == \E c \in call :
    /\ c.op = "read"
    /\ \/ pulled \/ inside[c.d] \in Broken
       \/ /\ inside[c.d] # NoCard /\ c.s < Size /\ posted[inside[c.d]] = {}
          /\ data' = mem[inside[c.d]][c.s]
    /\ data' \in Values
    /\ Ends("ok") /\ UNCHANGED <<posted, up>>

Post(c) ==
    /\ c.s < Size
    /\ posted' = [posted EXCEPT ![inside[c.d]] = {[s |-> c.s, v |-> c.v]}]

Write == \E c \in call :
    /\ c.op = "write" /\ inside[c.d] # NoCard
    /\ \/ inside[c.d] \in Broken /\ UNCHANGED posted
       \/ inside[c.d] \notin Broken /\ posted[inside[c.d]] = {} /\ Post(c)
    /\ Ends("ok") /\ UNCHANGED <<up, data>>

Sync == \E c \in call :
    /\ c.op = "sync"
    /\ inside[c.d] # NoCard /\ inside[c.d] \notin Broken => posted[inside[c.d]] = {}
    /\ Ends("ok") /\ UNCHANGED <<posted, up, data>>

\* The answer of the card to a write may be lost.
Fail == \E c \in call :
    /\ c.op # "init"
    /\ \/ UNCHANGED posted
       \/ c.op = "write" /\ inside[c.d] # NoCard /\ posted[inside[c.d]] = {} /\ Post(c)
    /\ Ends("error") /\ UNCHANGED <<up, data>>

Store == \E c \in Cards : \E w \in posted[c] :
    /\ posted' = [posted EXCEPT ![c] = {}]
    /\ mem' = [mem EXCEPT ![c][w.s] = w.v]
    /\ UNCHANGED <<inside, up, call, pulled, result, data>>

Insert == \E d \in Sockets, c \in Cards :
    /\ inside[d] = NoCard /\ \A e \in Sockets : inside[e] # c
    /\ inside' = [inside EXCEPT ![d] = c]
    /\ UNCHANGED <<mem, posted, up, call, pulled, result, data>>

\* The sector a card was storing when it was pulled may hold anything.
Remove == \E d \in Sockets :
    /\ inside[d] # NoCard
    /\ inside' = [inside EXCEPT ![d] = NoCard]
    /\ pulled' = (pulled \/ \E c \in call : c.d = d)
    /\ posted' = [posted EXCEPT ![inside[d]] = {}]
    /\ \/ UNCHANGED mem
       \/ \E w \in posted[inside[d]], v \in Values : mem' = [mem EXCEPT ![inside[d]][w.s] = v]
    /\ UNCHANGED <<up, call, result, data>>

Reset == /\ up' = {} /\ call' = {} /\ pulled' = FALSE /\ result' = "none"
         /\ data' \in Values
         /\ UNCHANGED <<inside, mem, posted>>

Next == \/ Invoke \/ NotReady \/ Initialize \/ Read \/ Write \/ Sync \/ Fail
        \/ Store \/ Insert \/ Remove \/ Reset

Spec == Init /\ [][Next]_vars
=============================================================================
