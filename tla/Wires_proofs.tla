------------------------------ MODULE Wires_proofs ------------------------------
(***************************************************************************)
(* Proofs about the two places where several parties share wires.          *)
(* DataPort: for every set of bytes, the lines between the Arduino and the *)
(* 82C55 are never driven by both, and the pin-level handshake implements  *)
(* the one-byte mailboxes of PortChannel.  SpiBus: whatever the two        *)
(* drivers do one after the other, with any number of dummy bytes and a    *)
(* reset at any moment, at most one device drives the answer line, and it  *)
(* is the one the call is for.                                             *)
(***************************************************************************)
EXTENDS DataPort, SpiBus, TLAPS

LEMMA InitIInv == Init => IInv
BY DEF Init, IInv, TypeOK, SampledAsSent

\* The steps of the Apple, and RESET.
LEMMA AppleIInv ==
    ASSUME IInv,
           \/ Reset \/ HostMode \/ HostSeesTaken \/ HostSeesByte \/ HostReceive
           \/ \E b \in Data : HostSend(b)
    PROVE  IInv'
<1> USE DEF IInv, TypeOK, SampledAsSent, flags, pins, Quiet
<1>1. CASE Reset
    BY <1>1 DEF Reset
<1>2. CASE HostMode
    BY <1>2 DEF HostMode
<1>3. CASE HostSeesTaken
    BY <1>3 DEF HostSeesTaken
<1>4. CASE HostSeesByte
    BY <1>4 DEF HostSeesByte
<1>5. CASE HostReceive
    BY <1>5 DEF HostReceive
<1>6. CASE \E b \in Data : HostSend(b)
    BY <1>6 DEF HostSend
<1> QED BY <1>1, <1>2, <1>3, <1>4, <1>5, <1>6

\* The steps of read_dataport().
LEMMA ReadIInv ==
    ASSUME IInv, ReadWait \/ AckLow \/ Sample \/ AckHigh
    PROVE  IInv'
<1> USE DEF IInv, TypeOK, SampledAsSent, flags, pins
<1>1. CASE ReadWait
    BY <1>1 DEF ReadWait
<1>2. CASE AckLow
    BY <1>2 DEF AckLow
<1>3. CASE Sample
    <2>1. Lines = outLatch
        BY <1>3 DEF Sample, Lines
    <2> QED BY <1>3, <2>1 DEF Sample
<1>4. CASE AckHigh
    BY <1>4 DEF AckHigh
<1> QED BY <1>1, <1>2, <1>3, <1>4

\* The steps of write_dataport() and of the block loops.
LEMMA WriteIInv ==
    ASSUME IInv,
           \/ \E b \in Data : WriteWait(b) \/ BulkWait(b)
           \/ ModeTrans \/ BulkBegin \/ WritePort \/ StbLow \/ StbHigh \/ ModeReceive
    PROVE  IInv'
<1> USE DEF IInv, TypeOK, SampledAsSent, flags, pins
<1>1. CASE \E b \in Data : WriteWait(b)
    BY <1>1 DEF WriteWait
<1>2. CASE \E b \in Data : BulkWait(b)
    BY <1>2 DEF BulkWait
<1>3. CASE ModeTrans
    BY <1>3 DEF ModeTrans
<1>4. CASE BulkBegin
    BY <1>4 DEF BulkBegin
<1>5. CASE WritePort
    BY <1>5 DEF WritePort
<1>6. CASE StbLow
    <2>1. Lines = byt
        BY <1>6 DEF StbLow, Lines
    <2> QED BY <1>6, <2>1 DEF StbLow
<1>7. CASE StbHigh
    <2>1. Lines = byt
        BY <1>7 DEF StbHigh, Lines
    <2> QED BY <1>7, <2>1 DEF StbHigh
<1>8. CASE ModeReceive
    BY <1>8 DEF ModeReceive
<1> QED BY <1>1, <1>2, <1>3, <1>4, <1>5, <1>6, <1>7, <1>8

LEMMA NextIInv == IInv /\ [Next]_vars => IInv'
<1> SUFFICES ASSUME IInv, [Next]_vars PROVE IInv'
    OBVIOUS
<1>1. CASE UNCHANGED vars
    BY <1>1 DEF vars, IInv, TypeOK, SampledAsSent
<1>2. CASE Next
    BY <1>2, AppleIInv, ReadIInv, WriteIInv DEF Next
<1> QED BY <1>1, <1>2

LEMMA Inductive == Spec => []IInv
BY InitIInv, NextIInv, PTL DEF Spec

\* Every variable keeps its type: in particular no latch ever takes a byte from
\* floating or contended lines.
THEOREM TypeCorrect == Spec => []TypeOK
<1>1. IInv => TypeOK
    BY DEF IInv
<1> QED BY <1>1, Inductive, PTL

-----------------------------------------------------------------------------
\* The Arduino and the 82C55 never drive the data lines at the same time.
THEOREM LinesNeverContended == Spec => []NoContention
<1>1. IInv => NoContention
    BY DEF IInv, NoContention
<1> QED BY <1>1, Inductive, PTL

\* A sampled byte is the byte the Apple stored.
THEOREM SamplesAreSent == Spec => []SampledAsSent
<1>1. IInv => SampledAsSent
    BY DEF IInv
<1> QED BY <1>1, Inductive, PTL

\* A step of the Apple is a step of the mailboxes, or changes neither.
LEMMA AppleStep ==
    ASSUME IInv,
           \/ Reset \/ HostMode \/ HostSeesTaken \/ HostSeesByte \/ HostReceive
           \/ \E b \in Data : HostSend(b)
    PROVE  [Channel!Next]_(Channel!channel)
<1> USE DEF IInv, TypeOK, flags, pins, Quiet
<1>1. CASE Reset
    <2>1. Channel!Restart
        BY <1>1 DEF Reset, Channel!Restart
    <2> QED BY <2>1 DEF Channel!Next
<1>2. CASE HostMode
    <2>1. Channel!Clear
        BY <1>2 DEF HostMode, Channel!Clear
    <2> QED BY <2>1 DEF Channel!Next
<1>3. CASE HostSeesTaken
    BY <1>3 DEF HostSeesTaken, Channel!channel
<1>4. CASE HostSeesByte
    BY <1>4 DEF HostSeesByte, Channel!channel
<1>5. CASE HostReceive
    <2>1. Channel!HostTake(inLatch)
        BY <1>5 DEF HostReceive, Channel!HostTake
    <2> QED BY <2>1 DEF Channel!Next
<1>6. CASE \E b \in Data : HostSend(b)
    <2> PICK b \in Data : HostSend(b)
        BY <1>6
    <2>1. Channel!HostPut(b)
        BY DEF HostSend, Channel!HostPut
    <2> QED BY <2>1 DEF Channel!Next
<1> QED BY <1>1, <1>2, <1>3, <1>4, <1>5, <1>6

\* So is a step of the Arduino: it takes the byte where it samples the lines,
\* commits to one where it has seen IBFA low, and puts it where /STB falls.
LEMMA ArduinoStep ==
    ASSUME IInv,
           \/ ReadWait \/ AckLow \/ Sample \/ AckHigh
           \/ \E b \in Data : WriteWait(b) \/ BulkWait(b)
           \/ ModeTrans \/ BulkBegin \/ WritePort \/ StbLow \/ StbHigh \/ ModeReceive
    PROVE  [Channel!Next]_(Channel!channel)
<1> USE DEF IInv, TypeOK, flags, pins
<1>1. CASE ReadWait
    BY <1>1 DEF ReadWait, Channel!channel
<1>2. CASE AckLow
    BY <1>2 DEF AckLow, Channel!channel
<1>3. CASE Sample
    <2>1. Channel!ArdTake(outLatch)
        BY <1>3 DEF Sample, Channel!ArdTake
    <2> QED BY <2>1 DEF Channel!Next
<1>4. CASE AckHigh
    BY <1>4 DEF AckHigh, Channel!channel
<1>5. CASE \E b \in Data : WriteWait(b) \/ BulkWait(b)
    <2> PICK b \in Data : WriteWait(b) \/ BulkWait(b)
        BY <1>5
    <2>1. Channel!ArdOffer(b)
        BY DEF WriteWait, BulkWait, Channel!ArdOffer
    <2> QED BY <2>1 DEF Channel!Next
<1>6. CASE ModeTrans
    BY <1>6 DEF ModeTrans, Channel!channel
<1>7. CASE BulkBegin
    BY <1>7 DEF BulkBegin, Channel!channel
<1>8. CASE WritePort
    BY <1>8 DEF WritePort, Channel!channel
<1>9. CASE StbLow
    <2>1. Lines = byt
        BY <1>9 DEF StbLow, Lines
    <2>2. Channel!ArdPut
        BY <1>9, <2>1 DEF StbLow, Channel!ArdPut
    <2> QED BY <2>2 DEF Channel!Next
<1>10. CASE StbHigh
    <2>1. Lines = byt
        BY <1>10 DEF StbHigh, Lines
    <2> QED BY <1>10, <2>1 DEF StbHigh, Channel!channel
<1>11. CASE ModeReceive
    BY <1>11 DEF ModeReceive, Channel!channel
<1> QED BY <1>1, <1>2, <1>3, <1>4, <1>5, <1>6, <1>7, <1>8, <1>9, <1>10, <1>11

\* The pin-level handshake implements a one-byte mailbox in each direction.
THEOREM PortImplementsChannel == Spec => ImplementsChannel
<1>1. Init => Channel!Init
    BY DEF Init, Channel!Init
<1>2. IInv /\ [Next]_vars => [Channel!Next]_(Channel!channel)
    <2> SUFFICES ASSUME IInv, [Next]_vars PROVE [Channel!Next]_(Channel!channel)
        OBVIOUS
    <2>1. CASE UNCHANGED vars
        BY <2>1 DEF vars, Channel!channel
    <2>2. CASE Next
        BY <2>2, AppleStep, ArduinoStep DEF Next
    <2> QED BY <2>1, <2>2
<1> QED BY <1>1, <1>2, Inductive, PTL DEF Spec, ImplementsChannel, Channel!Spec

-----------------------------------------------------------------------------
(* The serial bus. *)

\* The selects are outputs and high, and no card holds on to the line: so each
\* driver finds the bus, and so it leaves it.
Ready   == Selects \subseteq ddrb /\ Selects \subseteq portb
AtRest  == Ready /\ drives = {}

\* Since the last reset nobody has set up the port.
Untouched == ddrb = {} /\ Stat = {} /\ ~eth

\* The device of the call, the only one selected; a card it deselected may hold on.
Talking == /\ Selects \subseteq ddrb /\ portb \cap Selects = Selects \ {dev}
           /\ drives = {dev} \ {Eth}

\* What each step of a call finds.
Place ==
    /\ pc = "idle" => call = "none" /\ dev = None /\ (Untouched \/ AtRest)
    /\ pc = "pin"  => call = "begin" /\ AtRest
    /\ pc = "power" => call \in {"init", "begin"} /\ (AtRest \/ (call = "init" /\ ddrb = {}))
    /\ pc = "out"  => /\ call \in {"init", "begin"} /\ Selects \subseteq portb
                      /\ AtRest \/ (call = "init" /\ ddrb = {})
    /\ pc \in {"spi", "high"} => Ready /\ (call = "init" \/ (call = "begin" /\ drives = {}))
    /\ pc \in {"slow", "wake"} => Ready /\ call = "init" /\ Miso \in portb
    /\ pc = "deselect" => /\ call \in {"init", "transfer"} /\ Selects \subseteq ddrb
                          /\ Selects \ {dev} \subseteq portb
    /\ pc = "select" => call \in {"init", "transfer", "sync"} /\ AtRest
    /\ pc = "busy" => call \in {"init", "transfer", "sync"} /\ Talking
    /\ pc = "packet" => call \in {"init", "transfer"} /\ Talking
    /\ pc = "block" => call = "transfer" /\ Talking
    /\ pc = "done" => call \in {"init", "transfer", "sync"} /\ (Talking \/ AtRest)
    /\ pc = "access" => call \in {"begin", "frame"} /\ AtRest
    /\ pc = "bytes" => call \in {"begin", "frame"} /\ Talking

\* Which device a call is for.
ForDevice == /\ call \in {"init", "transfer", "sync"} => dev = Line(slotno)
             /\ call \in {"begin", "frame"} => dev = Eth

\* At most one card holds on to the line.
OneHolds == \A a, b \in drives : a = b

BusInv == /\ BusTypeOK /\ Place /\ ForDevice /\ OneHolds
        /\ FitToWake /\ OneAnswers

-----------------------------------------------------------------------------
\* At most the device of the call is selected.
LEMMA PlaceSelects == BusInv => OnlyAddressed
<1> SUFFICES ASSUME BusInv PROVE OnlyAddressed
    OBVIOUS
<1>1. CASE ddrb = {} \/ Selects \subseteq portb
    BY <1>1 DEF OnlyAddressed, Low
<1>2. CASE ~(ddrb = {} \/ Selects \subseteq portb)
    BY <1>2 DEF BusInv, BusTypeOK, Place, Ready, AtRest, Untouched, Talking, OnlyAddressed, Low
<1> QED BY <1>1, <1>2

LEMMA InitBusInv == BusInit => BusInv
<1> SUFFICES ASSUME BusInit PROVE BusInv
    OBVIOUS
<1>1. n \in 0..Dummies
    BY DummiesAssumption DEF BusInit
<1>1a. BusTypeOK
    BY <1>1, Zenon DEF BusInit, BusTypeOK, Sockets, Selects, Bits, None
<1>2. Place /\ ForDevice
    BY DEF BusInit, Place, ForDevice, Untouched
<1>3. OneHolds /\ FitToWake /\ OneAnswers
    BY DEF BusInit, OneHolds, FitToWake, OneAnswers
<1> QED BY <1>1a, <1>2, <1>3 DEF BusInv

LEMMA NextBusInv ==
    ASSUME BusInv, [BusNext]_busVars
    PROVE  BusInv'
<1> USE DummiesAssumption DEF BusInv, port, wire, task
<1>1. CASE BusReset
    <2>1. BusTypeOK'
        <3>1. n' \in 0..Dummies
            BY <1>1 DEF BusReset
        <3> QED BY <1>1, <3>1, Zenon DEF BusReset, BusTypeOK, Sockets, Selects, Bits, None
    <2>2. Place' /\ ForDevice'
        BY <1>1 DEF BusReset, Place, ForDevice, Untouched
    <2>3. OneHolds' /\ FitToWake' /\ OneAnswers'
        BY <1>1 DEF BusReset, OneHolds, FitToWake, OneAnswers
    <2> QED BY <2>1, <2>2, <2>3
<1>2. CASE PinMode
    BY <1>2 DEF PinMode, Place, ForDevice, OneHolds, FitToWake, OneAnswers, Ready,
       AtRest, BusTypeOK, Eth, None
<1>3. CASE PowerHigh
    BY <1>3 DEF PowerHigh, Place, ForDevice, OneHolds, FitToWake, OneAnswers, Ready,
       AtRest, BusTypeOK, Selects, Bits
<1>4. CASE PowerOut
    BY <1>4 DEF PowerOut, Place, ForDevice, OneHolds, FitToWake, OneAnswers, Ready,
       AtRest, BusTypeOK
<1>5. CASE PowerSpi
    BY <1>5 DEF PowerSpi, Place, ForDevice, OneHolds, FitToWake, OneAnswers, Ready, BusTypeOK
<1>6. CASE PowerUp
    BY <1>6 DEF PowerUp, Place, ForDevice, OneHolds, FitToWake, OneAnswers, Ready,
       AtRest, BusTypeOK, Selects, Miso, Bits
<1>7. CASE FclkSlow
    BY <1>7 DEF FclkSlow, Place, ForDevice, OneHolds, FitToWake, OneAnswers, Ready, BusTypeOK
<1>8. CASE Wake
    <2>1. Low(portb, ddrb) = {}
        BY <1>8 DEF Wake, Place, Ready, Low
    <2>2. \/ n > 0 /\ n' = n - 1 /\ talk' = drives /\ drives' = {} /\ pc' = "wake"
          \/ pc' = "deselect" /\ UNCHANGED <<n, drives, talk>>
        BY <1>8, <2>1 DEF Wake, Exchange
    <2>3. UNCHANGED <<portb, ddrb, slow, slotno, Stat, eth, call, dev>> /\ pc = "wake"
        BY <1>8 DEF Wake
    <2>4. BusTypeOK'
        <3>1. n' \in 0..Dummies
            BY <2>2 DEF BusTypeOK
        <3>2. drives' \subseteq {1, 2} /\ talk' \subseteq {0, 1, 2}
            BY <2>2 DEF BusTypeOK, Selects
        <3> QED BY <2>2, <2>3, <3>1, <3>2 DEF BusTypeOK, Selects
    <2>5. Place' /\ ForDevice'
        BY <2>2, <2>3 DEF Place, ForDevice, Ready
    <2>6. OneHolds' /\ FitToWake' /\ OneAnswers'
        BY <2>2, <2>3 DEF OneHolds, FitToWake, OneAnswers
    <2> QED BY <2>4, <2>5, <2>6
<1>9. CASE SendCmd
    BY <1>9 DEF SendCmd, Place, ForDevice, OneHolds, FitToWake, OneAnswers, Ready,
       AtRest, BusTypeOK, Low, Exchange, Deselect, Selects
<1>10. CASE Select
    BY <1>10 DEF Select, Place, ForDevice, OneHolds, FitToWake, OneAnswers, Ready,
       AtRest, Talking, BusTypeOK, Low, Exchange, Line, Selects, Miso, Bits
<1>11. CASE WaitReady
    <2>1. call \in {"init", "transfer", "sync"} /\ Talking /\ dev \in {1, 2}
        BY <1>11 DEF WaitReady, Place, ForDevice, Line
    <2>2. Low(portb, ddrb) = {dev} /\ drives = {dev}
        BY <2>1 DEF Talking, Low, Selects, Eth
    <2>3. UNCHANGED <<ddrb, slow, slotno, Stat, eth, call, dev, n>> /\ pc = "busy"
        BY <1>11 DEF WaitReady
    <2>4. ASSUME Exchange(Low(portb, ddrb)), UNCHANGED portb,
                 pc' = IF call = "sync" THEN "done" ELSE "packet"
          PROVE  BusInv'
        <3>1. talk' = {dev} /\ drives' = {dev}
            BY <2>1, <2>2, <2>4 DEF Exchange, Eth
        <3>2. BusTypeOK'
            BY <2>1, <2>3, <2>4, <3>1 DEF BusTypeOK, Selects
        <3>3. Place' /\ ForDevice'
            BY <2>1, <2>3, <2>4, <3>1 DEF Place, ForDevice, Talking, Eth
        <3>4. OneHolds' /\ FitToWake' /\ OneAnswers'
            BY <2>3, <2>4, <3>1 DEF OneHolds, FitToWake, OneAnswers
        <3> QED BY <3>2, <3>3, <3>4
    <2>5. ASSUME NEW next \in {"done"} \cup (IF call = "init" THEN {"deselect"} ELSE {}),
                 Deselect(next)
          PROVE  BusInv'
        <3>1. portb' = portb \cup Selects /\ pc' = next
            BY <2>5 DEF Deselect
        <3>2. Low(portb', ddrb) = {}
            BY <3>1 DEF Low
        <3>3. talk' = {dev} /\ drives' = {}
            BY <2>2, <2>5, <3>2 DEF Deselect, Exchange
        <3>4. BusTypeOK'
            BY <2>1, <2>3, <2>5, <3>1, <3>3 DEF BusTypeOK, Selects, Bits
        <3>5. Place' /\ ForDevice'
            BY <2>1, <2>3, <2>5, <3>1, <3>3 DEF Place, ForDevice, Talking, AtRest, Ready
        <3>6. OneHolds' /\ FitToWake' /\ OneAnswers'
            BY <2>3, <2>5, <3>1, <3>3 DEF OneHolds, FitToWake, OneAnswers
        <3> QED BY <3>4, <3>5, <3>6
    <2> QED BY <1>11, <2>4, <2>5 DEF WaitReady
<1>12. CASE Packet
    <2>1. call \in {"init", "transfer"} /\ Talking /\ dev \in {1, 2}
        BY <1>12 DEF Packet, Place, ForDevice, Line
    <2>2. Low(portb, ddrb) = {dev} /\ drives = {dev}
        BY <2>1 DEF Talking, Low, Selects, Eth
    <2>3. talk' = {dev} /\ drives' = {dev}
        BY <1>12, <2>1, <2>2 DEF Packet, Exchange, Eth
    <2>4. BusTypeOK'
        BY <1>12, <2>1, <2>3 DEF Packet, BusTypeOK, Selects
    <2>5. Place' /\ ForDevice'
        BY <1>12, <2>1, <2>3 DEF Packet, Place, ForDevice, Talking, Eth, Selects
    <2>6. OneHolds' /\ FitToWake' /\ OneAnswers'
        BY <1>12, <2>1, <2>3 DEF Packet, OneHolds, FitToWake, OneAnswers
    <2> QED BY <2>4, <2>5, <2>6
<1>13. CASE Block
    <2>1. call = "transfer" /\ Talking /\ dev \in {1, 2}
        BY <1>13 DEF Block, Place, ForDevice, Line
    <2>2. Low(portb, ddrb) = {dev} /\ drives = {dev}
        BY <2>1 DEF Talking, Low, Selects, Eth
    <2>3. talk' = {dev} /\ drives' = {dev}
        BY <1>13, <2>1, <2>2 DEF Block, Exchange, Eth
    <2>4. BusTypeOK'
        BY <1>13, <2>1, <2>3 DEF Block, BusTypeOK, Selects
    <2>5. Place' /\ ForDevice'
        BY <1>13, <2>1, <2>3 DEF Block, Place, ForDevice, Talking, Eth
    <2>6. OneHolds' /\ FitToWake' /\ OneAnswers'
        BY <1>13, <2>1, <2>3 DEF Block, OneHolds, FitToWake, OneAnswers
    <2> QED BY <2>4, <2>5, <2>6
<1>14. CASE Done
    BY <1>14 DEF Done, Place, ForDevice, OneHolds, FitToWake, OneAnswers, Ready, AtRest,
       Talking, BusTypeOK, Low, Exchange, Deselect, Returns, Selects
<1>15. CASE CsSelect
    BY <1>15 DEF CsSelect, Place, ForDevice, OneHolds, FitToWake, OneAnswers, Ready,
       AtRest, Talking, BusTypeOK
<1>16. CASE Bytes
    BY <1>16 DEF Bytes, Place, ForDevice, OneHolds, FitToWake, OneAnswers, Talking,
       BusTypeOK, Low, Exchange
<1>17. CASE CsDeselect
    BY <1>17 DEF CsDeselect, Place, ForDevice, OneHolds, FitToWake, OneAnswers, Ready,
       AtRest, Talking, BusTypeOK, Eth, None
<1>18. ASSUME NEW d \in Sockets, DiskInitialize(d) PROVE BusInv'
    BY <1>18 DEF DiskInitialize, Serve, Place, ForDevice, OneHolds, FitToWake,
       OneAnswers, Untouched, Ready, AtRest, BusTypeOK, Line, Selects
<1>19. ASSUME NEW d \in Sockets, DiskTransfer(d) PROVE BusInv'
    BY <1>19 DEF DiskTransfer, Serve, Place, ForDevice, OneHolds, FitToWake, OneAnswers,
       Untouched, Ready, AtRest, BusTypeOK, Line, Selects
<1>20. ASSUME NEW d \in Sockets, DiskSync(d) PROVE BusInv'
    BY <1>20 DEF DiskSync, Serve, Place, ForDevice, OneHolds, FitToWake, OneAnswers,
       Untouched, Ready, AtRest, BusTypeOK, Line, Selects
<1>21. ASSUME NEW d \in Sockets, DiskStatus(d) PROVE BusInv'
    BY <1>21 DEF DiskStatus, Place, ForDevice, OneHolds, FitToWake, OneAnswers,
       Untouched, Ready, AtRest, BusTypeOK
<1>22. CASE InitializeEthernet
    BY <1>22 DEF InitializeEthernet, Serve, Place, ForDevice, OneHolds, FitToWake,
       OneAnswers, Untouched, Ready, AtRest, BusTypeOK, Eth, Selects
<1>23. CASE UseEthernet
    BY <1>23 DEF UseEthernet, Serve, Place, ForDevice, OneHolds, FitToWake, OneAnswers,
       Untouched, Ready, AtRest, BusTypeOK, Eth, Selects
<1>24. ASSUME NEW ok \in BOOLEAN, InitDone(ok) PROVE BusInv'
    BY <1>24 DEF InitDone, Returns, Place, ForDevice, OneHolds, FitToWake, OneAnswers,
       Ready, AtRest, Talking, BusTypeOK, Low, Exchange, Returns, Selects, Miso, Bits
<1>25. ASSUME NEW ok \in BOOLEAN, EthernetDone(ok) PROVE BusInv'
    BY <1>25 DEF EthernetDone, Returns, Place, ForDevice, OneHolds, FitToWake,
       OneAnswers, Ready, AtRest, BusTypeOK, Returns
<1>26. CASE UNCHANGED busVars
    BY <1>26 DEF busVars, Place, ForDevice, OneHolds, FitToWake, OneAnswers, Untouched,
       Ready, AtRest, Talking, BusTypeOK
<1> QED BY <1>1, <1>2, <1>3, <1>4, <1>5, <1>6, <1>7, <1>8, <1>9, <1>10, <1>11, <1>12, <1>13, <1>14, <1>15, <1>16, <1>17, <1>18, <1>19, <1>20, <1>21, <1>22, <1>23, <1>24, <1>25, <1>26 DEF BusNext, Calls, Power, Card, Chip

\* Between two calls no device is selected, and during one only the one it is for;
\* a card is woken with the slow clock and with the pull-up of the answer line.
THEOREM BusAlwaysSound == BusSpec => []BusSound
<1>1. BusInv => BusSound
    BY PlaceSelects DEF BusInv, BusSound
<1> QED BY <1>1, InitBusInv, NextBusInv, PTL DEF BusSpec

\* Two devices never drive the answer line in the same exchange, however many
\* bytes a card is woken with, none included.
THEOREM OnlyOneAnswers == BusSpec => []OneAnswers
<1>1. BusInv => OneAnswers
    BY DEF BusInv
<1> QED BY <1>1, InitBusInv, NextBusInv, PTL DEF BusSpec
=============================================================================
