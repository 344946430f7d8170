------------------------------ MODULE Ethernet ------------------------------
(***************************************************************************)
(* The three Ethernet commands of the sketch and its W5500 driver, between *)
(* a program on the Apple and the chip.  A frame never rests in the        *)
(* Arduino: it goes byte by byte from the chip's ring buffer to the data   *)
(* port, or back.  The repository has no program for the Apple side; the   *)
(* one here makes a call at a time, and polls and sends only after an      *)
(* initialisation has succeeded.                                           *)
(*                                                                         *)
(* A byte has Base values and a length two bytes, so pointers are modulo   *)
(* Base * Base; the ring buffers have Ring bytes, a MAC address MacBytes.  *)
(* The magic byte and the command number are one item here.  The chip is   *)
(* modelled from how the driver uses it; it is not reset with the card.    *)
(***************************************************************************)
EXTENDS Naturals, Sequences

CONSTANTS Base, Ring, MacBytes,
          Arrivals,   \* the frames that can arrive
          Sends,      \* the frames the Apple sends
          Limits,     \* the longest frame the Apple takes
          Chips       \* whether a chip is there

Mod == Base * Base
Bytes == 0..Base - 1
Lo(w) == w % Base
Hi(w) == w \div Base
InitCmd == Base + 16
PollCmd == Base + 17
SendCmd == Base + 18

\* 256, 16384 and 6 in the code.
ASSUME SizesAssumption == /\ Base \in Nat \ {0, 1}
                          /\ Ring \in Nat \ {0} /\ Mod % Ring = 0 /\ Ring < Mod
                          /\ MacBytes \in 1..Mod
\* A frame fits in the buffers: 1514 bytes in 16384.
ASSUME FramesAssumption ==
    /\ Arrivals \cup Sends \subseteq Seq(Bytes)
    /\ \A f \in Arrivals : Len(f) + 2 <= Ring
    /\ \A f \in Sends : Len(f) <= Ring
    /\ Limits \subseteq 0..Mod - 1 /\ Chips \subseteq BOOLEAN

Requests == [op : {"init"}, frame : {<<>>}, limit : {0}]
            \cup [op : {"poll"}, frame : {<<>>}, limit : Limits]
            \cup [op : {"send"}, frame : Sends, limit : {0}]

VARIABLES toArd, toHost, offer,              \* the port
          hpc, req, todo, got, ready,        \* the program on the Apple
          apc, after, out, cmd, eth,         \* the sketch; ethernet_initialized
          len, n, seen, val, dlen,           \* its locals
          chip, cr, sr, ir, sending,         \* the chip: command, status, interrupts
          rxbuf, rxrd, rxat, rxwr,           \* RX_RD, the same at the last RECV, RX_WR
          txbuf, txwr, txrd,
          waiting, held, wire                \* history: frames in the chip, the answer to
                                             \* this call, the last frame on the wire
port  == <<toArd, toHost, offer>>
host  == <<hpc, req, todo, got, ready>>
place == <<apc, after, out, cmd, eth>>
local == <<len, n, seen, val, dlen>>
regs  == <<chip, cr, sr, ir, sending>>
rx    == <<rxbuf, rxrd, rxat, rxwr>>
tx    == <<txbuf, txwr, txrd>>
hist  == <<waiting, held, wire>>
vars  == <<toArd, toHost, offer, hpc, req, todo, got, ready, apc, after, out, cmd, eth,
           len, n, seen, val, dlen, chip, cr, sr, ir, sending, rxbuf, rxrd, rxat, rxwr,
           txbuf, txwr, txrd, waiting, held, wire>>

Port == INSTANCE PortChannel WITH Data <- Bytes \cup {InitCmd, PollCmd, SendCmd}

Blank == [i \in 0..Ring - 1 |-> 0]
Rsr == (rxwr + Mod - rxat) % Mod
Fsr == Ring - ((txwr + Mod - txrd) % Mod)

-----------------------------------------------------------------------------
(* The program on the Apple. *)

Words(w) == <<Lo(w), Hi(w)>>

\* What the program sends.
Asked(c) == CASE c.op = "init" -> <<InitCmd>> \o [i \in 1..MacBytes |-> 1]
              [] c.op = "poll" -> <<PollCmd>> \o Words(c.limit)
              [] c.op = "send" -> <<SendCmd>> \o Words(Len(c.frame)) \o c.frame

Call(c) ==
    /\ hpc = "idle" /\ (c.op # "init" => ready)
    /\ hpc' = "put" /\ req' = c /\ todo' = Asked(c) /\ got' = <<>> /\ held' = {}
    /\ UNCHANGED <<port, ready, place, local, regs, rx, tx, waiting, wire>>

HostPut ==
    /\ hpc = "put" /\ todo # <<>>
    /\ Port!HostPut(Head(todo)) /\ todo' = Tail(todo)
    /\ hpc' = IF todo' = <<>> THEN "take" ELSE "put"
    /\ UNCHANGED <<req, got, ready, place, local, regs, rx, tx, hist>>

\* One status byte, or a length and as many bytes as it says.
Expected(g) == IF req.op # "poll" THEN 1
               ELSE IF Len(g) < 2 THEN 2 ELSE 2 + g[1] + Base * g[2]

HostTake(b) ==
    /\ hpc = "take" /\ Port!HostTake(b)
    /\ got' = Append(got, b)
    /\ hpc' = IF Len(got') = Expected(got') THEN "idle" ELSE "take"
    /\ ready' = IF req.op = "init" THEN b = 0 ELSE ready
    /\ UNCHANGED <<req, todo, place, local, regs, rx, tx, hist>>

-----------------------------------------------------------------------------
(* The chip. *)

\* What lies outside the pointers of a ring buffer is no part of a frame, and
\* reads as 0 here.
Kept(ring, from, to) ==
    [i \in 0..Ring - 1 |-> IF (i + Mod - from) % Ring < (to + Mod - from) % Mod THEN ring[i] ELSE 0]

\* A command is taken and the command register cleared; a socket may fail to open.
\* Without a chip the line of the answers, pulled up, is read as ones: the register
\* is never 0.
ChipRuns ==
    /\ chip /\ cr # "none" /\ cr' = "none"
    /\ sr' \in CASE cr = "OPEN" -> {"macraw", sr} [] cr = "CLOSE" -> {"closed"} [] OTHER -> {sr}
    /\ rxat' = (IF cr = "RECV" THEN rxrd ELSE rxat)
    /\ rxbuf' = Kept(rxbuf, rxat', rxwr)
    /\ sending' = (cr = "SEND" \/ sending)
    /\ UNCHANGED <<port, host, place, local, chip, ir, rxrd, rxwr, tx, hist>>

\* What lies between the pointers, for the caller who posted it.
Posted == [i \in 1..(txwr + Mod - txrd) % Mod |-> txbuf[(txrd + i - 1) % Ring]]

Transmit ==
    /\ sending /\ sending' = FALSE /\ txrd' = txwr /\ txbuf' = Blank
    /\ \/ ir' = ir \cup {"sendok"} /\ wire' = Posted
       \/ ir' = ir \cup {"timeout"} /\ UNCHANGED wire
    /\ held' = (IF hpc # "idle" /\ req.op = "send" THEN {<<>>} ELSE held)
    /\ UNCHANGED <<port, host, place, local, chip, cr, sr, rx, txwr, waiting>>

\* A frame is stored behind a header with its length and the header's own.
Stored(f) == <<Hi(Len(f) + 2), Lo(Len(f) + 2)>> \o f

Arrive(f) ==
    /\ sr = "macraw" /\ Rsr + Len(f) + 2 <= Ring
    /\ rxbuf' = [i \in 0..Ring - 1 |->
                    LET k == (i + Mod - rxwr) % Ring
                    IN  IF k < Len(f) + 2 THEN Stored(f)[k + 1] ELSE rxbuf[i]]
    /\ rxwr' = (rxwr + Len(f) + 2) % Mod
    /\ waiting' = Append(waiting, f)
    /\ UNCHANGED <<port, host, place, local, regs, rxrd, rxat, tx, held, wire>>

-----------------------------------------------------------------------------
(* The sketch: bytes to and from the port, commands to the chip. *)

\* write_dataport(): the bytes of "s", then on to "next".
Reply(s, next) == apc' = "put" /\ out' = s /\ after' = next

Offer == /\ apc = "put" /\ offer = <<>>
         /\ Port!ArdOffer(Head(out)) /\ out' = Tail(out)
         /\ UNCHANGED <<host, apc, after, cmd, eth, local, regs, rx, tx, hist>>

Put == /\ apc = "put" /\ Port!ArdPut
       /\ apc' = (IF out = <<>> THEN after ELSE "put")
       /\ after' = (IF out = <<>> THEN "loop" ELSE after)
       /\ UNCHANGED <<host, out, cmd, eth, local, regs, rx, tx, hist>>

\* setSn_CR(): the command is written and waited for, without a limit.
Command(c, next) == cr' = c /\ apc' = "cr" /\ after' = next /\ UNCHANGED <<chip, sr, ir, sending>>

CommandDone == /\ apc = "cr" /\ cr = "none"
               /\ apc' = after /\ after' = "loop"
               /\ UNCHANGED <<port, host, out, cmd, eth, local, regs, rx, tx, hist>>

Forget == len' = 0 /\ n' = 0 /\ seen' = <<>> /\ val' = 0 /\ dlen' = 0

\* do_poll_ethernet() and do_send_ethernet(): before the chip is initialised the
\* answer is sent and the length is not read.
PollEthernet == IF eth THEN apc' = "lenlo" /\ UNCHANGED <<after, out>>
                       ELSE Reply(<<0, 0>>, "loop")

SendEthernet == IF eth THEN apc' = "lenlo" /\ UNCHANGED <<after, out>>
                       ELSE Reply(<<0>>, "loop")

\* loop() and do_command().
LoopByte(b) ==
    /\ apc = "loop" /\ Port!ArdTake(b)
    /\ cmd' = b
    /\ CASE b = InitCmd -> apc' = "mac" /\ UNCHANGED <<after, out>>
         [] b = PollCmd -> PollEthernet
         [] b = SendCmd -> SendEthernet
         [] OTHER       -> UNCHANGED <<apc, after, out>>
    /\ UNCHANGED <<host, eth, local, regs, rx, tx, hist>>

LenLo(b) == /\ apc = "lenlo" /\ Port!ArdTake(b)
            /\ apc' = "lenhi" /\ len' = b
            /\ UNCHANGED <<host, after, out, cmd, eth, n, seen, val, dlen, regs, rx, tx, hist>>

LenHi(b) == /\ apc = "lenhi" /\ Port!ArdTake(b)
            /\ apc' = "size" /\ len' = len + Base * b
            /\ UNCHANGED <<host, after, out, cmd, eth, n, seen, val, dlen, regs, rx, tx, hist>>

-----------------------------------------------------------------------------
(* Initialising: do_initialize_ethernet(), end() and begin(). *)

MacByte(b) ==
    /\ apc = "mac" /\ Port!ArdTake(b)
    /\ IF n + 1 < MacBytes
         THEN n' = n + 1 /\ UNCHANGED <<apc, after, regs>>
         ELSE /\ n' = 0
              /\ IF eth THEN Command("CLOSE", "end")
                        ELSE apc' = "begin" /\ UNCHANGED <<after, regs>>
    /\ UNCHANGED <<host, out, cmd, eth, len, seen, val, dlen, rx, tx, hist>>

\* end() clears the interrupts and waits for the socket to be closed.
End == /\ apc = "end" /\ sr = "closed"
       /\ apc' = "begin" /\ ir' = {}
       /\ UNCHANGED <<port, host, after, out, cmd, eth, local, chip, cr, sr, sending, rx, tx, hist>>

\* Wrong on purpose: begin() does not reset the chip.
BeginAsItIs ==
    /\ apc = "begin"
    /\ cr' = "OPEN" /\ apc' = "cr" /\ after' = "opened" /\ held' = {<<>>}
    /\ UNCHANGED <<port, host, out, cmd, eth, local, chip, sr, ir, sending, rx, tx, waiting, wire>>

\* wizchip_sw_reset() clears every register of the chip.
SwReset == /\ sr' = "closed" /\ ir' = {} /\ sending' = FALSE
           /\ rxbuf' = Blank /\ rxrd' = 0 /\ rxat' = 0 /\ rxwr' = 0
           /\ txbuf' = Blank /\ txwr' = 0 /\ txrd' = 0

Begin ==
    /\ apc = "begin"
    /\ SwReset
    /\ cr' = "OPEN" /\ apc' = "cr" /\ after' = "opened"
    /\ waiting' = <<>> /\ held' = {<<>>}
    /\ UNCHANGED <<port, host, out, cmd, eth, local, chip, wire>>

\* What begin() returns.
SocketIsOpen == sr = "macraw"

Opened ==
    /\ apc = "opened"
    /\ eth' = SocketIsOpen
    /\ Reply(<<IF eth' THEN 0 ELSE 1>>, "loop")
    /\ UNCHANGED <<port, host, cmd, local, regs, rx, tx, hist>>

-----------------------------------------------------------------------------
(* Polling and sending. *)

\* wizchip_read_word(): the high byte first.
ByteOfWord(k, w) == IF k % 2 = 0 THEN Hi(w) ELSE Lo(w)

\* getSn_RX_RSR() and getSn_TX_FSR(): a word is read as two bytes while the chip
\* goes on, so it is read twice until the two agree.
ReadSize ==
    /\ apc = "size"
    /\ LET size == IF cmd = PollCmd THEN Rsr ELSE Fsr
           s    == Append(seen, ByteOfWord(Len(seen), size))
           val1 == Base * s[1] + s[2]
           v    == IF Len(s) = 4 THEN Base * s[3] + s[4] ELSE val
       IN  IF Len(s) \in {1, 3} \/ (Len(s) = 2 /\ val1 # 0)
             THEN seen' = s /\ UNCHANGED <<apc, val>>
             ELSE seen' = <<>> /\ val' = v /\ apc' = IF v = val1 THEN "sized" ELSE "size"
    /\ UNCHANGED <<port, host, after, out, cmd, eth, len, n, dlen, regs, rx, tx, hist>>

NoFrame ==
    /\ apc = "sized" /\ cmd = PollCmd /\ val = 0
    /\ Reply(<<0, 0>>, "loop") /\ Forget
    /\ held' = {<<>>}
    /\ UNCHANGED <<port, host, cmd, eth, regs, rx, tx, waiting, wire>>

Header == Base * rxbuf[rxrd % Ring] + rxbuf[(rxrd + 1) % Ring]

\* History: the oldest frame is delivered or dropped.
TakeOldest ==
    LET old == IF waiting = <<>> THEN <<>> ELSE Head(waiting)
    IN  /\ held' = {IF Len(old) <= len THEN old ELSE <<>>}
        /\ waiting' = IF waiting = <<>> THEN <<>> ELSE Tail(waiting)

\* The header is taken out of the chip before it is looked at.
ReadHead ==
    /\ apc = "sized" /\ cmd = PollCmd /\ val > 0
    /\ dlen' = (Header + Mod - 2) % Mod /\ rxrd' = (rxrd + 2) % Mod
    /\ Command("RECV", "length")
    /\ TakeOldest
    /\ UNCHANGED <<port, host, out, cmd, eth, len, n, seen, val, rxbuf, rxat, rxwr, tx, wire>>

Drop == /\ apc = "length" /\ dlen > len
        /\ Reply(<<0, 0>>, "ignore")
        /\ UNCHANGED <<port, host, cmd, eth, local, regs, rx, tx, hist>>

Deliver == /\ apc = "length" /\ dlen <= len
           /\ Reply(Words(dlen), "stream")
           /\ UNCHANGED <<port, host, cmd, eth, local, regs, rx, tx, hist>>

\* wizchip_read_buf() without a buffer: each byte goes to the port.
Stream == /\ apc = "stream" /\ n < dlen
          /\ Reply(<<rxbuf[(rxrd + n) % Ring]>>, "stream") /\ n' = n + 1
          /\ UNCHANGED <<port, host, cmd, eth, len, seen, val, dlen, regs, rx, tx, hist>>

\* Wrong on purpose: a frame that is dropped stays in the chip.
ConsumeDelivered ==
    /\ apc = "ignore" \/ (apc = "stream" /\ n = dlen)
    /\ rxrd' = IF apc = "ignore" THEN rxrd ELSE (rxrd + dlen) % Mod
    /\ Command("RECV", "loop") /\ Forget
    /\ UNCHANGED <<port, host, out, cmd, eth, rxbuf, rxat, rxwr, tx, hist>>

\* The frame leaves the chip, delivered or dropped.
Consume ==
    /\ apc = "ignore" \/ (apc = "stream" /\ n = dlen)
    /\ rxrd' = (rxrd + dlen) % Mod
    /\ Command("RECV", "loop") /\ Forget
    /\ UNCHANGED <<port, host, out, cmd, eth, rxbuf, rxat, rxwr, tx, hist>>

\* sendFrame() gives up when the socket is closed, and waits for room otherwise.
TrySend ==
    /\ apc = "sized" /\ cmd = SendCmd
    /\ val' = 0
    /\ IF sr = "closed" THEN Reply(<<0>>, "loop") /\ len' = 0
       ELSE /\ apc' = (IF len <= val THEN "fill" ELSE "size")
            /\ UNCHANGED <<after, out, len>>
    /\ UNCHANGED <<port, host, cmd, eth, n, seen, dlen, regs, rx, tx, hist>>

\* wizchip_write_buf() without a buffer: each byte comes from the port.
Fill(b) == /\ apc = "fill" /\ n < len /\ Port!ArdTake(b)
           /\ txbuf' = [txbuf EXCEPT ![(txwr + n) % Ring] = b] /\ n' = n + 1
           /\ UNCHANGED <<host, place, len, seen, val, dlen, regs, rx, txwr, txrd, hist>>

Filled == /\ apc = "fill" /\ n = len
          /\ txwr' = (txwr + len) % Mod
          /\ Command("SEND", "sent")
          /\ UNCHANGED <<port, host, out, cmd, eth, local, rx, txbuf, txrd, hist>>

\* Wrong on purpose: the interrupt of one frame is left for the next.
SentKept == /\ apc = "sent" /\ ir # {}
            /\ Reply(<<0>>, "loop") /\ Forget
            /\ UNCHANGED <<port, host, cmd, eth, regs, rx, tx, hist>>

\* Sent or timed out, the answer is 0.
Sent == /\ apc = "sent" /\ ir # {}
        /\ ir' = ir \ {IF "sendok" \in ir THEN "sendok" ELSE "timeout"}
        /\ Reply(<<0>>, "loop") /\ Forget
        /\ UNCHANGED <<port, host, cmd, eth, chip, cr, sr, sending, rx, tx, hist>>

-----------------------------------------------------------------------------
Init ==
    /\ Port!Init
    /\ hpc = "idle" /\ todo = <<>> /\ got = <<>> /\ ready = FALSE
    /\ req = [op |-> "init", frame |-> <<>>, limit |-> 0]
    /\ apc = "loop" /\ after = "loop" /\ out = <<>> /\ cmd = 0 /\ eth = FALSE
    /\ len = 0 /\ n = 0 /\ seen = <<>> /\ val = 0 /\ dlen = 0
    /\ chip \in Chips /\ cr = "none" /\ sr = "closed" /\ ir = {} /\ sending = FALSE
    /\ rxbuf = Blank /\ rxrd = 0 /\ rxat = 0 /\ rxwr = 0
    /\ txbuf = Blank /\ txwr = 0 /\ txrd = 0
    /\ waiting = <<>> /\ held = {} /\ wire = <<>>

\* RESET of the Apple and the Arduino in the middle of anything: the chip goes on.
Reset ==
    /\ Port!Restart
    /\ hpc' = "idle" /\ todo' = <<>> /\ got' = <<>> /\ ready' = FALSE
    /\ req' = [op |-> "init", frame |-> <<>>, limit |-> 0]
    /\ apc' = "loop" /\ after' = "loop" /\ out' = <<>> /\ cmd' = 0 /\ eth' = FALSE
    /\ Forget /\ held' = {}
    /\ UNCHANGED <<regs, rx, tx, waiting, wire>>

HostStep == HostPut \/ \E b \in Bytes : toHost = <<b>> /\ HostTake(b)

ChipStep == ChipRuns \/ Transmit

Sketch == \/ Offer \/ Put \/ CommandDone
          \/ \E b \in Bytes \cup {InitCmd, PollCmd, SendCmd} :
                /\ toArd = <<b>>
                /\ LoopByte(b) \/ LenLo(b) \/ LenHi(b) \/ MacByte(b) \/ Fill(b)
          \/ End \/ Begin \/ Opened
          \/ ReadSize \/ NoFrame \/ ReadHead \/ Drop \/ Deliver \/ Stream \/ Consume
          \/ TrySend \/ Filled \/ Sent

Next == \/ \E c \in Requests : Call(c)
        \/ HostStep
        \/ ChipStep
        \/ \E f \in Arrivals : Arrive(f)
        \/ Sketch
        \/ Reset

\* Both programs run on, and the chip executes its commands and sends.
Fairness == WF_vars(HostStep) /\ WF_vars(Sketch) /\ WF_vars(ChipStep)

Spec == Init /\ [][Next]_vars /\ Fairness

-----------------------------------------------------------------------------
\* Every variable has its type.
TypeOK ==
    /\ hpc \in {"idle", "put", "take"} /\ req \in Requests
    /\ apc \in {"loop", "put", "cr", "mac", "end", "begin", "opened", "lenlo", "lenhi", "size",
                "sized", "length", "ignore", "stream", "fill", "sent"}
    /\ got \in Seq(Bytes) /\ todo \in Seq(Bytes \cup {InitCmd, PollCmd, SendCmd})
    /\ {len, n, val, dlen, rxrd, rxat, rxwr, txwr, txrd} \subseteq 0..Mod - 1
    /\ Len(seen) <= 3 /\ Len(out) <= 2
    /\ {eth, ready, chip, sending} \subseteq BOOLEAN
    /\ cr \in {"none", "OPEN", "CLOSE", "SEND", "RECV"} /\ sr \in {"closed", "macraw"}
    /\ ir \subseteq {"sendok", "timeout"}
    /\ rxbuf \in [0..Ring - 1 -> Bytes] /\ txbuf \in [0..Ring - 1 -> Bytes]

\* Bytes are read as what they were sent for: loop() finds nothing but commands,
\* and between two calls nothing is left over in the port.
InStep ==
    /\ apc = "loop" /\ toArd # <<>> => toArd[1] \in {InitCmd, PollCmd, SendCmd}
    /\ hpc = "idle" => toArd = <<>> /\ toHost = <<>> /\ offer = <<>>

\* Outside a poll the read pointer is at the header of the oldest frame, whatever
\* was delivered, dropped, or cut short by a reset before; and a header is never
\* shorter than itself, so data_len does not wrap (readFrame).
Aligned ==
    /\ eth /\ (apc = "loop" \/ (apc = "sized" /\ cmd = PollCmd)) =>
          /\ rxrd = rxat
          /\ (waiting = <<>>) = (rxwr = rxrd)
          /\ waiting # <<>> => Header = Len(Head(waiting)) + 2
    /\ apc = "length" => dlen + 2 <= Ring

\* The socket is open for as long as the sketch believes it: sendFrame() never
\* takes the way out that leaves the frame in the port.  The transmit buffer is
\* never overrun.
SocketOpen ==
    /\ eth /\ apc \notin {"cr", "end", "begin", "opened"} => sr = "macraw"
    /\ (txwr + Mod - txrd) % Mod <= Ring
    /\ apc = "fill" => len <= Fsr

\* The sketch, the chip and the Apple agree on where every byte belongs.
DriverSound == TypeOK /\ InStep /\ Aligned /\ SocketOpen

\* The commands keep the promises of the frame interface.
Promise == INSTANCE FrameIO WITH
    call     <- IF hpc = "idle" THEN {} ELSE {req},
    answer   <- IF hpc = "idle" THEN {} ELSE held,
    posted   <- IF sending \/ cr = "SEND" THEN {Posted} ELSE {},
    received <- IF hpc = "idle" THEN SubSeq(got, 3, Len(got)) ELSE <<>>

ImplementsFrameIO == Promise!Spec

\* With a chip every call returns, also when the socket does not open.  Without one
\* begin() waits for ever for the command register, which reads as ones.
CallsReturn == chip /\ hpc # "idle" ~> hpc = "idle"
=============================================================================
