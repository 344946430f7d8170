------------------------------ MODULE FrameIO -------------------------------
(***************************************************************************)
(* What the Ethernet commands promise the Apple: frames that arrive wait   *)
(* in order, a poll takes the oldest one whole, or drops it when it is     *)
(* longer than the caller can take, or finds none; a frame that is sent    *)
(* goes out whole, once, or is lost.  Initialising forgets what waits.     *)
(***************************************************************************)
EXTENDS Naturals, Sequences

CONSTANTS Requests,   \* [op : {"init", "poll", "send"}, frame, limit]
          Arrivals    \* the frames that can arrive

VARIABLES waiting,    \* frames in the chip, oldest first
          call,       \* the call in progress: none or one
          answer,     \* what it will return, once that is decided
          posted,     \* the frame the chip was told to send: none or one
          wire,       \* the last frame that went out
          received    \* what the last call returned

vars == <<waiting, call, answer, posted, wire, received>>

Init == /\ waiting = <<>> /\ call = {} /\ answer = {} /\ posted = {}
        /\ wire = <<>> /\ received = <<>>

Invoke(c) == /\ call = {} /\ call' = {c} /\ answer' = {} /\ received' = <<>>
             /\ UNCHANGED <<waiting, posted, wire>>

Arrive(f) == waiting' = Append(waiting, f) /\ UNCHANGED <<call, answer, posted, wire, received>>

Open == /\ \E c \in call : c.op = "init"
        /\ answer = {} /\ answer' = {<<>>}
        /\ waiting' = <<>> /\ posted' = {}
        /\ UNCHANGED <<call, wire, received>>

Poll == \E c \in call :
    /\ c.op = "poll" /\ answer = {}
    /\ \/ answer' = {<<>>} /\ UNCHANGED waiting
       \/ /\ waiting # <<>>
          /\ answer' = {IF Len(Head(waiting)) <= c.limit THEN Head(waiting) ELSE <<>>}
          /\ waiting' = Tail(waiting)
    /\ UNCHANGED <<call, posted, wire, received>>

Post == \E c \in call :
    /\ c.op = "send" /\ answer = {} /\ posted = {} /\ posted' = {c.frame}
    /\ UNCHANGED <<waiting, call, answer, wire, received>>

\* The frame goes out or not, and only then is the caller answered; after a
\* reset nobody waits for it.
Transmit == \E f \in posted :
    /\ posted' = {} /\ wire' \in {wire, f}
    /\ answer' = IF \E c \in call : c.op = "send" THEN {<<>>} ELSE answer
    /\ UNCHANGED <<waiting, call, received>>

Return == /\ call # {} /\ answer # {}
          /\ call' = {} /\ answer' = {} /\ received' \in answer
          /\ UNCHANGED <<waiting, posted, wire>>

Reset == /\ call' = {} /\ answer' = {} /\ received' = <<>>
         /\ UNCHANGED <<waiting, posted, wire>>

Next == \/ \E c \in Requests : Invoke(c)
        \/ \E f \in Arrivals : Arrive(f)
        \/ Open \/ Poll \/ Post \/ Transmit \/ Return \/ Reset

Spec == Init /\ [][Next]_vars
=============================================================================
