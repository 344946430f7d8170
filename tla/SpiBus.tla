-------------------------------- MODULE SpiBus --------------------------------
(***************************************************************************)
(* One serial bus for three devices: the sockets of the two SD cards and   *)
(* the W5500.  Two drivers that do not know of each other use it, the SD   *)
(* driver and the Ethernet driver; each selects its device by a line of    *)
(* port B, and each sets up the port and the SPI unit for itself.  A card  *)
(* that is deselected goes on driving the answer line until it has seen a  *)
(* clock; a W5500 does not.                                                *)
(*                                                                         *)
(* The bits of PORTB and DDRB are sets of bit numbers.  An exchange is a   *)
(* byte, or as many bytes as the driver exchanges at that place.  A line   *)
(* that is not an output is high.                                          *)
(***************************************************************************)
EXTENDS Naturals

CONSTANT Dummies     \* the bytes a card is woken with: 10

ASSUME DummiesAssumption == Dummies \in Nat

\* The bits of port B: three chip selects, MOSI, MISO and SCK.
Eth     == 0
Selects == {0, 1, 2}
Miso    == 4
Bits    == 0..5
Sockets == {0, 1}
None    == 3

Line(d) == IF d = 1 THEN 1 ELSE 2

VARIABLES portb, ddrb,   \* PORTB (for an input: its pull-up) and DDRB
          slow,          \* SPR0 and SPR1: the clock for initialisation
          slotno,        \* the socket of the SD driver
          Stat,          \* the sockets whose card is initialised
          eth,           \* ethernet_initialized
          drives,        \* cards that drive the answer line
          talk,          \* the devices that drove it during the last exchange
          call, dev,     \* the call being served and the line of its device
          pc, n

port == <<portb, ddrb, slow>>
wire == <<drives, talk>>
task == <<call, dev>>
busVars == <<portb, ddrb, slow, slotno, Stat, eth, drives, talk, call, dev, pc, n>>

\* The devices selected when port B is "p" and its direction "d".
Low(p, d) == (Selects \cap d) \ p

BusInit ==
    /\ portb = {} /\ ddrb = {} /\ slow = FALSE
    /\ slotno = 0 /\ Stat = {} /\ eth = FALSE
    /\ drives = {} /\ talk = {}
    /\ call = "none" /\ dev = None /\ pc = "idle" /\ n = 0

\* RESET: every pin is an input; a selected card has seen no clock.
BusReset ==
    /\ portb' = {} /\ ddrb' = {} /\ slow' = FALSE
    /\ slotno' = 0 /\ Stat' = {} /\ eth' = FALSE
    /\ talk' = {} /\ UNCHANGED drives
    /\ call' = "none" /\ dev' = None /\ pc' = "idle" /\ n' = 0

\* A byte is exchanged while the devices in "low" are selected.
Exchange(low) == talk' = drives \cup low /\ drives' = low \ {Eth}

-----------------------------------------------------------------------------
(* The calls. *)

Serve(kind, line, next) ==
    /\ pc = "idle" /\ pc' = next
    /\ call' = kind /\ dev' = line
    /\ UNCHANGED <<portb, ddrb, slow, drives, talk, n>>

DiskInitialize(d) == /\ Serve("init", Line(d), "power")
                     /\ slotno' = d /\ UNCHANGED <<Stat, eth>>

\* Wrong on purpose: the socket of the call before is used.
DiskTransferStale(d) == /\ d \in Stat /\ Serve("transfer", Line(d), "deselect")
                        /\ UNCHANGED <<slotno, Stat, eth>>

\* A read or a write, of an initialised card.
DiskTransfer(d) == /\ d \in Stat /\ Serve("transfer", Line(d), "deselect")
                   /\ slotno' = d /\ UNCHANGED <<Stat, eth>>

DiskSync(d) == /\ d \in Stat /\ Serve("sync", Line(d), "select")
               /\ slotno' = d /\ UNCHANGED <<Stat, eth>>

\* FatFs and the sketch ask for the state of a socket without using the bus.
DiskStatus(d) == /\ pc = "idle" /\ slotno' = d
                 /\ UNCHANGED <<port, Stat, eth, wire, task, pc, n>>

\* do_initialize_ethernet(), after setup() has initialised a drive.
InitializeEthernet == /\ ddrb # {} /\ Serve("begin", Eth, "pin")
                      /\ UNCHANGED <<slotno, Stat, eth>>

\* do_poll_ethernet() and do_send_ethernet().
UseEthernet == /\ eth /\ Serve("frame", Eth, "access")
               /\ UNCHANGED <<slotno, Stat, eth>>

-----------------------------------------------------------------------------
(* Setting up the port: power_on(), and the same again in begin(). *)

PinMode == /\ pc = "pin" /\ pc' = "power"
           /\ ddrb' = ddrb \cup {Eth} /\ portb' = portb \cup {Eth}
           /\ UNCHANGED <<slow, slotno, Stat, eth, wire, task, n>>

PowerHigh == /\ pc = "power" /\ pc' = "out"
             /\ portb' = Selects
             /\ UNCHANGED <<ddrb, slow, slotno, Stat, eth, wire, task, n>>

PowerOut == /\ pc = "out" /\ pc' = "spi"
            /\ ddrb' = ddrb \cup Selects
            /\ UNCHANGED <<portb, slow, slotno, Stat, eth, wire, task, n>>

PowerSpi == /\ pc = "spi" /\ pc' = "high"
            /\ portb' = Selects /\ slow' = FALSE
            /\ UNCHANGED <<ddrb, slotno, Stat, eth, wire, task, n>>

PowerUp == /\ pc = "high" /\ pc' = IF call = "init" THEN "slow" ELSE "access"
           /\ ddrb' = ddrb \cup {0, 1, 2, 3, 5} /\ portb' = Bits
           /\ UNCHANGED <<slow, slotno, Stat, eth, wire, task, n>>

-----------------------------------------------------------------------------
(* The SD driver. *)

FclkSlow == /\ pc = "slow" /\ pc' = "wake"
            /\ slow' = TRUE /\ n' = Dummies
            /\ UNCHANGED <<portb, ddrb, slotno, Stat, eth, wire, task>>

\* The dummy clocks: nobody is selected.
Wake == /\ pc = "wake"
        /\ IF n > 0 THEN n' = n - 1 /\ Exchange(Low(portb, ddrb)) /\ UNCHANGED pc
                    ELSE pc' = "deselect" /\ UNCHANGED <<n, wire>>
        /\ UNCHANGED <<port, slotno, Stat, eth, task>>

\* Wrong on purpose: without the dummy byte.
DeselectSilent(next) == /\ portb' = portb \cup Selects
                        /\ UNCHANGED wire
                        /\ pc' = next

\* deselect(): CS_HIGH, and a byte for the card to let go of the line.
Deselect(next) == /\ portb' = portb \cup Selects
                  /\ Exchange(Low(portb', ddrb))
                  /\ pc' = next

\* send_cmd() deselects and selects.
SendCmd == /\ pc = "deselect" /\ Deselect("select")
           /\ UNCHANGED <<ddrb, slow, slotno, Stat, eth, task, n>>

\* select(): CS_LOW of the socket, and a byte.
Select == /\ pc = "select" /\ pc' = "busy"
          /\ portb' = portb \ {Line(slotno)}
          /\ Exchange(Low(portb', ddrb))
          /\ UNCHANGED <<ddrb, slow, slotno, Stat, eth, task, n>>

\* wait_ready(), the packet and the answer; the card may be busy for too long.
WaitReady == /\ pc = "busy"
             /\ \/ Exchange(Low(portb, ddrb)) /\ UNCHANGED portb
                   /\ pc' = IF call = "sync" THEN "done" ELSE "packet"
                \/ \E next \in {"done"} \cup (IF call = "init" THEN {"deselect"} ELSE {}) :
                      Deselect(next)
             /\ UNCHANGED <<ddrb, slow, slotno, Stat, eth, task, n>>

\* Packet and answer.  Then initialisation goes on with other commands, and a
\* transfer with its block; both may end.
Packet == /\ pc = "packet" /\ Exchange(Low(portb, ddrb))
          /\ pc' \in {"done"} \cup (IF call = "init" THEN {"deselect", "packet"} ELSE {"block"})
          /\ UNCHANGED <<port, slotno, Stat, eth, task, n>>

\* rcvr_datablock() and xmit_datablock().
Block == /\ pc = "block" /\ pc' = "done"
         /\ Exchange(Low(portb, ddrb))
         /\ UNCHANGED <<port, slotno, Stat, eth, task, n>>

Returns == call' = "none" /\ dev' = None

\* Every call ends with deselect().
Done == /\ pc = "done" /\ call # "init" /\ Deselect("idle") /\ Returns
        /\ UNCHANGED <<ddrb, slow, slotno, Stat, eth, n>>

\* A failed initialisation returns with the slow clock; in both cases the pull-up
\* of the answer line is taken away.
InitDone(ok) == /\ pc = "done" /\ call = "init" /\ Returns /\ pc' = "idle"
                /\ portb' = (portb \cup Selects) \ {Miso}
                /\ Exchange(Low(portb', ddrb))
                /\ Stat' = IF ok THEN Stat \cup {slotno} ELSE Stat \ {slotno}
                /\ slow' = (slow /\ ~ok)
                /\ UNCHANGED <<ddrb, slotno, eth, n>>

-----------------------------------------------------------------------------
(* The Ethernet driver. *)

\* A register or a buffer of the W5500 is read or written: select, three bytes
\* of address, and the data.
CsSelect == /\ pc = "access" /\ pc' = "bytes"
            /\ portb' = portb \ {Eth}
            /\ UNCHANGED <<ddrb, slow, slotno, Stat, eth, wire, task, n>>

Bytes == /\ pc = "bytes"
         /\ Exchange(Low(portb, ddrb))
         /\ UNCHANGED <<port, slotno, Stat, eth, task, pc, n>>

CsDeselect == /\ pc = "bytes" /\ pc' = "access"
              /\ portb' = portb \cup {Eth}
              /\ UNCHANGED <<ddrb, slow, slotno, Stat, eth, wire, task, n>>

\* The handler ends; do_initialize_ethernet() remembers how begin() ended.
EthernetDone(ok) == /\ pc = "access" /\ pc' = "idle" /\ Returns
                    /\ eth' = IF call = "begin" THEN ok ELSE eth
                    /\ UNCHANGED <<port, slotno, Stat, wire, n>>

-----------------------------------------------------------------------------
Calls == \/ \E d \in Sockets : DiskInitialize(d) \/ DiskTransfer(d) \/ DiskSync(d) \/ DiskStatus(d)
         \/ InitializeEthernet \/ UseEthernet

Power == PinMode \/ PowerHigh \/ PowerOut \/ PowerSpi \/ PowerUp

Card == \/ FclkSlow \/ Wake \/ SendCmd \/ Select \/ WaitReady \/ Packet \/ Block \/ Done
        \/ \E ok \in BOOLEAN : InitDone(ok)

Chip == CsSelect \/ Bytes \/ CsDeselect \/ \E ok \in BOOLEAN : EthernetDone(ok)

BusNext == BusReset \/ Calls \/ Power \/ Card \/ Chip

BusSpec == BusInit /\ [][BusNext]_busVars

-----------------------------------------------------------------------------
BusTypeOK ==
    /\ portb \subseteq Bits /\ ddrb \subseteq Bits /\ slow \in BOOLEAN
    /\ slotno \in Sockets /\ Stat \subseteq Sockets /\ eth \in BOOLEAN
    /\ drives \subseteq {1, 2} /\ talk \subseteq Selects
    /\ call \in {"none", "init", "transfer", "sync", "begin", "frame"}
    /\ dev \in Selects \cup {None} /\ n \in 0..Dummies
    /\ pc \in {"idle", "pin", "power", "out", "spi", "high", "slow", "wake", "deselect",
               "select", "busy", "packet", "block", "done", "access", "bytes"}

\* No device is selected but the one that the call is for.
OnlyAddressed == Low(portb, ddrb) \subseteq {dev}

\* Two devices never drive the answer line in the same exchange, although a card
\* keeps it for a byte after it was deselected, and a reset deselects without one.
OneAnswers == \A a, b \in talk : a = b

\* While a card is initialised the clock is slow, whatever the other driver or the
\* other socket left, and the pull-up makes an empty socket answer ones.
FitToWake == call = "init" /\ pc \in {"wake", "deselect", "select", "busy", "packet", "done"}
                => slow /\ Miso \in portb

\* Not even while the port is set up after a reset is a device selected that the call
\* is not for, and none is between two calls: what one driver leaves behind never joins
\* what the other says, nor spoils the clock and the pull-up a card is woken with.
BusSound == BusTypeOK /\ OnlyAddressed /\ FitToWake
=============================================================================
