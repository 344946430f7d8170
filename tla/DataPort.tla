------------------------------ MODULE DataPort ------------------------------
(***************************************************************************)
(* The byte handshake between the Apple and the Arduino through port A of  *)
(* the 82C55 in mode 2, pin by pin: the Apple's loads and stores on one    *)
(* side, write_dataport(), read_dataport() and the block loops of the      *)
(* sketch on the other.  It implements PortChannel.                        *)
(*                                                                         *)
(* Timing.  The Arduino holds /ACK or /STB low for about a microsecond (a  *)
(* timer interrupt in between makes it about seven).  The Apple needs at   *)
(* least eight cycles of one microsecond between the poll that sees a flag *)
(* and the access to port A that follows, so that access finds both        *)
(* strobes high: that is the guard Quiet, the only timing assumption.      *)
(***************************************************************************)
CONSTANTS Data,     \* the bytes that can be sent
          Garbage   \* what floating or contended lines read as

ASSUME GarbageAssumption == Garbage \notin Data

VARIABLES configured, \* the mode word was written since RESET
          outLatch, obf,  \* Apple to Arduino: the output latch, and whether it is full
          inLatch, ibf,   \* Arduino to Apple: the input latch, and whether it is full
          ackLow, stbLow, \* the two strobes of the Arduino
          dir, portd,     \* DDRD ("in" or "out") and PORTD of the Arduino
          byt,            \* the byte the Arduino is sending
          bulk,           \* it is inside a block loop, with DDRD left at "out"
          apc, hpc,       \* where the two programs are
          ardGot          \* the byte the Arduino took last

flags == <<configured, outLatch, obf, inLatch, ibf>>
pins  == <<ackLow, stbLow, dir, portd>>
vars  == <<configured, outLatch, obf, inLatch, ibf, ackLow, stbLow, dir, portd,
           byt, bulk, apc, hpc, ardGot>>

Quiet == ~ackLow /\ ~stbLow

\* The eight data lines: the 82C55 drives them while /ACK is low.
Lines == CASE ackLow /\ dir = "in"   -> outLatch
           [] ~ackLow /\ dir = "out" -> portd
           [] OTHER                  -> Garbage

Init ==
    /\ configured = FALSE
    /\ outLatch \in Data /\ obf = FALSE
    /\ inLatch \in Data /\ ibf = FALSE
    /\ ackLow = FALSE /\ stbLow = FALSE
    /\ dir = "in" /\ portd = Garbage
    /\ byt \in Data /\ bulk = FALSE
    /\ apc = "idle" /\ hpc = "off"
    /\ ardGot = outLatch

\* RESET of the Apple: 6502, 82C55 and Arduino restart together.
Reset ==
    /\ configured' = FALSE /\ obf' = FALSE /\ ibf' = FALSE
    /\ ackLow' = FALSE /\ stbLow' = FALSE
    /\ dir' = "in" /\ portd' = Garbage
    /\ bulk' = FALSE
    /\ apc' = "idle" /\ hpc' = "off"
    /\ UNCHANGED <<outLatch, inLatch, byt, ardGot>>

-----------------------------------------------------------------------------
(* The Apple. *)

\* The mode word $FA clears both flags.
HostMode ==
    /\ hpc \in {"off", "ready"} /\ Quiet
    /\ configured' = TRUE /\ obf' = FALSE /\ ibf' = FALSE
    /\ hpc' = "ready"
    /\ UNCHANGED <<outLatch, inLatch, pins, byt, bulk, apc, ardGot>>

HostSend(b) ==
    /\ hpc = "ready" /\ Quiet
    /\ outLatch' = b /\ obf' = TRUE
    /\ hpc' = "sent"
    /\ UNCHANGED <<configured, inLatch, ibf, pins, byt, bulk, apc, ardGot>>

\* Wait until OBFA is high.
HostSeesTaken ==
    /\ hpc = "sent" /\ ~obf
    /\ hpc' = "ready"
    /\ UNCHANGED <<flags, pins, byt, bulk, apc, ardGot>>

\* Wait until IBFA is high, then read port A.
HostSeesByte ==
    /\ hpc = "ready" /\ ibf
    /\ hpc' = "seen"
    /\ UNCHANGED <<flags, pins, byt, bulk, apc, ardGot>>

HostReceive ==
    /\ hpc = "seen" /\ Quiet
    /\ ibf' = FALSE
    /\ hpc' = "ready"
    /\ UNCHANGED <<configured, outLatch, obf, inLatch, pins, byt, bulk, apc, ardGot>>

-----------------------------------------------------------------------------
(* The Arduino: read_dataport(). *)

ReadWait ==
    /\ apc = "idle" /\ obf
    /\ apc' = "ack"
    /\ UNCHANGED <<flags, pins, byt, bulk, hpc, ardGot>>

AckLow ==
    /\ apc = "ack" /\ apc' = "sample"
    /\ ackLow' = TRUE /\ obf' = FALSE
    /\ UNCHANGED <<configured, outLatch, inLatch, ibf, stbLow, dir, portd, byt, bulk,
                   hpc, ardGot>>

Sample ==
    /\ apc = "sample" /\ apc' = "ackHigh"
    /\ ardGot' = Lines
    /\ UNCHANGED <<flags, pins, byt, bulk, hpc>>

AckHigh ==
    /\ apc = "ackHigh" /\ apc' = "idle"
    /\ ackLow' = FALSE
    /\ UNCHANGED <<flags, stbLow, dir, portd, byt, bulk, hpc, ardGot>>

(* write_dataport(), and the loops that send a block. *)

\* Wrong on purpose: IBFA is not waited for.
WriteWaitBlind(b) ==
    /\ apc = "idle" /\ configured
    /\ byt' = b /\ apc' = "trans"
    /\ UNCHANGED <<flags, pins, bulk, hpc, ardGot>>

WriteWait(b) ==
    /\ apc = "idle" /\ configured /\ ~ibf
    /\ byt' = b /\ apc' = "trans"
    /\ UNCHANGED <<flags, pins, bulk, hpc, ardGot>>

ModeTrans ==
    /\ apc = "trans" /\ apc' = "write"
    /\ dir' = "out"
    /\ UNCHANGED <<flags, ackLow, stbLow, portd, byt, bulk, hpc, ardGot>>

BulkBegin ==
    /\ apc = "idle" /\ apc' = "bulk"
    /\ dir' = "out" /\ bulk' = TRUE
    /\ UNCHANGED <<flags, ackLow, stbLow, portd, byt, hpc, ardGot>>

BulkWait(b) ==
    /\ apc = "bulk" /\ configured /\ ~ibf
    /\ byt' = b /\ apc' = "write"
    /\ UNCHANGED <<flags, pins, bulk, hpc, ardGot>>

WritePort ==
    /\ apc = "write" /\ apc' = "stbLow"
    /\ portd' = byt
    /\ UNCHANGED <<flags, ackLow, stbLow, dir, byt, bulk, hpc, ardGot>>

\* The input latch is transparent, and IBF set, for as long as /STB is low.
StbLow ==
    /\ apc = "stbLow" /\ apc' = "stbHigh"
    /\ stbLow' = TRUE /\ ibf' = TRUE /\ inLatch' = Lines
    /\ UNCHANGED <<configured, outLatch, obf, ackLow, dir, portd, byt, bulk, hpc, ardGot>>

StbHigh ==
    /\ apc = "stbHigh" /\ apc' = IF bulk THEN "bulk" ELSE "receive"
    /\ stbLow' = FALSE /\ ibf' = TRUE /\ inLatch' = Lines
    /\ UNCHANGED <<configured, outLatch, obf, ackLow, dir, portd, byt, bulk, hpc, ardGot>>

\* Wrong on purpose: the block loop ends without DATAPORT_MODE_RECEIVE().
ModeReceiveForgotten ==
    /\ apc \in {"receive", "bulk"} /\ apc' = "idle"
    /\ dir' = IF bulk THEN dir ELSE "in"
    /\ portd' = Garbage /\ bulk' = FALSE
    /\ UNCHANGED <<flags, ackLow, stbLow, byt, hpc, ardGot>>

ModeReceive ==
    /\ apc \in {"receive", "bulk"} /\ apc' = "idle"
    /\ dir' = "in" /\ portd' = Garbage
    /\ bulk' = FALSE
    /\ UNCHANGED <<flags, ackLow, stbLow, byt, hpc, ardGot>>

-----------------------------------------------------------------------------
Next ==
    \/ Reset
    \/ HostMode \/ HostSeesTaken \/ HostSeesByte \/ HostReceive
    \/ \E b \in Data : HostSend(b) \/ WriteWait(b) \/ BulkWait(b)
    \/ ReadWait \/ AckLow \/ Sample \/ AckHigh
    \/ ModeTrans \/ BulkBegin \/ WritePort \/ StbLow \/ StbHigh \/ ModeReceive

Spec == Init /\ [][Next]_vars

-----------------------------------------------------------------------------
\* Every variable has its type, and the direction register is "out" exactly
\* where the program thinks it is.
TypeOK ==
    /\ configured \in BOOLEAN /\ obf \in BOOLEAN /\ ibf \in BOOLEAN
    /\ outLatch \in Data /\ inLatch \in Data
    /\ ackLow \in BOOLEAN /\ stbLow \in BOOLEAN
    /\ dir \in {"in", "out"} /\ portd \in Data \cup {Garbage}
    /\ byt \in Data /\ bulk \in BOOLEAN
    /\ apc \in {"idle", "ack", "sample", "ackHigh", "trans", "bulk", "write",
                "stbLow", "stbHigh", "receive"}
    /\ hpc \in {"off", "ready", "sent", "seen"}
    /\ ardGot \in Data

\* The Arduino and the 82C55 never drive the data lines against each other,
\* whatever the order of single bytes, block loops and resets.
NoContention == ~(ackLow /\ dir = "out")

\* What the Arduino samples is what the Apple stored, even though OBFA already
\* shows the latch empty while the sketch is still reading it.
SampledAsSent == apc = "ackHigh" => ardGot = outLatch

\* The inductive invariant: what each place of the two programs knows about the
\* strobes, the direction register, the flags and the latches.
IInv ==
    /\ TypeOK
    /\ ackLow <=> apc \in {"sample", "ackHigh"}
    /\ stbLow <=> apc = "stbHigh"
    /\ dir = "out" <=> apc \in {"write", "stbLow", "stbHigh", "receive", "bulk"}
    /\ bulk => apc \in {"bulk", "write", "stbLow", "stbHigh"}
    /\ apc \in {"stbLow", "stbHigh"} => portd = byt
    /\ apc = "stbHigh" => ibf /\ inLatch = byt
    /\ apc \in {"trans", "write", "stbLow"} => ~ibf
    /\ apc = "ack" => obf
    /\ obf => hpc = "sent"
    /\ hpc = "seen" => ibf
    /\ apc \in {"sample", "ackHigh"} => ~obf
    /\ SampledAsSent

\* The handshake is a pair of one-byte mailboxes: no byte is lost, repeated or
\* reordered, none is latched while the lines float, in either direction.
Channel == INSTANCE PortChannel
    WITH toArd  <- IF obf \/ apc = "sample" THEN <<outLatch>> ELSE <<>>,
         toHost <- IF ibf THEN <<inLatch>> ELSE <<>>,
         offer  <- IF apc \in {"trans", "write", "stbLow"} THEN <<byt>> ELSE <<>>

ImplementsChannel == Channel!Spec
=============================================================================
