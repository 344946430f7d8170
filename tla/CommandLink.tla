---------------------------- MODULE CommandLink -----------------------------
(***************************************************************************)
(* A command from the first byte to the last: the driver in the firmware   *)
(* ROM on the Apple (entry "start", and the configuration page, page2) and *)
(* loop() / do_command() on the Arduino, talking through PortChannel.      *)
(*                                                                         *)
(* A page is P bytes instead of 256, so a block is 2*P.  What the media    *)
(* hold and which accesses fail is left open; SlotManager says which       *)
(* drive is what.  The Apple issues the commands its ROM and its disks     *)
(* issue: 0, 1, 2 (ProDOS), 4 (page2), 5, 6, 7 (volume selector), 160      *)
(* (space bar at boot).                                                    *)
(***************************************************************************)
EXTENDS Naturals, Sequences

CONSTANTS P,          \* the size of a page
          Contents,   \* what a block can hold
          bootblocks, \* the program of the volume selector, in flash
          Flash,      \* what the flash holds from that table on
          Volumes,    \* the pairs of file numbers the Apple chooses from
          Requests    \* the calls the Apple makes

Size   == 2 * P
Magic  == 172                            \* $AC
IOErr  == 39                             \* $27
NoDev  == 40                             \* $28
Bytes  == 0..255
Drives == {0, 1}
Block  == [0..Size - 1 -> Bytes]
Zeros  == [i \in 0..Size - 1 |-> 0]

ASSUME PAssumption == P \in Nat \ {0}
ASSUME ContentsAssumption == Contents \subseteq Block /\ Contents # {}

\* The table does not fill a block (446 of 512 bytes): what follows it is sent too.
ASSUME BootAssumption ==
    /\ bootblocks \in Seq(Bytes) /\ Len(bootblocks) < Size
    /\ Flash \in [0..4 * Size - 1 -> Bytes]
    /\ \A i \in 1..Len(bootblocks) : Flash[i - 1] = bootblocks[i]
ASSUME VolumesAssumption == Volumes \subseteq [Drives -> Bytes]

\* The calls the ROM, ProDOS and the volume selector make, and others as long as
\* no byte after an unknown command is the magic byte.  ProDOS does not format
\* (3), the ROM says it cannot; a program may all the same.
ASSUME RequestsAssumption ==
    /\ Requests # {}
    /\ Requests \subseteq [cmd : {0, 1, 2, 3, 4, 5, 6, 7, 9, 160}, unit : {0, 128}, vol : Volumes]
    /\ \A r \in Requests : r.cmd = 9 => \A d \in Drives : r.vol[d] # Magic

VARIABLES toArd, toHost, offer,          \* the port
          hpc, req, k, y, uppage, bufhi, \* the driver and its zero page
          mem, result,                   \* the Apple's memory, what the call returned
          apc, acmd, args, n, after,     \* do_command() and its locals
          abuf, vol, disk,               \* buf[512], the two file numbers, the media
          served                         \* history: how the Arduino served the call

port  == <<toArd, toHost, offer>>
host  == <<hpc, req, k, y, uppage, bufhi, mem, result>>
ard   == <<apc, acmd, args, n, after, abuf, vol, disk>>
vars  == <<toArd, toHost, offer, hpc, req, k, y, uppage, bufhi, mem, result,
           apc, acmd, args, n, after, abuf, vol, disk, served>>

Port == INSTANCE PortChannel WITH Data <- Bytes

\* The caller's buffer is pages 1 and 2 of a memory of four pages.
Buf       == 1
Addresses == 0..4 * P - 1
InBuffer(a) == a \div P \in {Buf, Buf + 1}
BufferOf(m) == [i \in 0..Size - 1 |-> m[Buf * P + i]]
Load(m, b)  == [a \in Addresses |-> IF InBuffer(a) THEN b[a - Buf * P] ELSE m[a]]

DriveOf(unit) == IF unit >= 128 THEN 1 ELSE 0

Init ==
    /\ Port!Init
    /\ hpc = "idle" /\ k = 0 /\ y = 0 /\ uppage = 0 /\ bufhi = Buf
    /\ req = CHOOSE r \in Requests : TRUE
    /\ mem \in {Load([a \in Addresses |-> Magic], b) : b \in Contents}
    /\ result = "none"
    /\ apc = "loop" /\ acmd = 0 /\ args = <<>> /\ n = 0 /\ after = "loop"
    /\ abuf = Zeros /\ vol \in Volumes /\ disk \in [Drives -> Contents]
    /\ served = "none"

\* RESET of the Apple; the media, the memory and the saved numbers remain.
Reset ==
    /\ Port!Restart
    /\ hpc' = "idle" /\ bufhi' = Buf /\ result' = "none"
    /\ k' = 0 /\ y' = 0 /\ uppage' = 0
    /\ apc' = "loop" /\ acmd' = 0 /\ args' = <<>> /\ n' = 0 /\ after' = "loop"
    /\ abuf' = Zeros /\ vol' \in Volumes
    /\ served' = "none"
    /\ UNCHANGED <<req, mem, disk>>

-----------------------------------------------------------------------------
(* The driver. *)

\* The caller has put what it wants to write, or anything else, in its buffer.
\* "start" writes the mode word first; page2 does not.
Start(r, b) ==
    /\ hpc = "idle"
    /\ IF r.cmd = 4 THEN UNCHANGED port ELSE Port!Clear
    /\ hpc' = "comsend" /\ req' = r /\ k' = 0
    /\ mem' = Load(mem, b)
    /\ result' = "none" /\ served' = "none"
    /\ UNCHANGED <<y, uppage, bufhi, ard>>

\* comsend: the magic byte, then the six bytes from $42 on.
Field(i) == <<Magic, req.cmd, req.unit, 0, bufhi, req.vol[0], req.vol[1]>>[i + 1]

ComSend ==
    /\ hpc = "comsend" /\ hpc' = "combyte2"
    /\ Port!HostPut(Field(k))
    /\ UNCHANGED <<req, k, y, uppage, bufhi, mem, result, ard, served>>

ComByte2 ==
    /\ hpc = "combyte2" /\ toArd = <<>>
    /\ k' = k + 1
    /\ hpc' = IF k' = 7 THEN "waitresult" ELSE "comsend"
    /\ UNCHANGED <<port, req, y, uppage, bufhi, mem, result, ard, served>>

\* waitresult and noerror; page2 takes the byte and reboots whatever it is.
WaitResult(b) ==
    /\ hpc = "waitresult" /\ Port!HostTake(b)
    /\ IF req.cmd = 4 \/ b # 0 \/ req.cmd = 0
         THEN /\ hpc' = "idle"
              /\ result' = IF req.cmd # 4 /\ b # 0 THEN "error" ELSE "ok"
              /\ UNCHANGED <<y, uppage>>
         ELSE /\ hpc' = IF req.cmd = 2 THEN "writebytes" ELSE "readbytes"
              /\ y' = 0 /\ uppage' = 0
              /\ UNCHANGED result
    /\ UNCHANGED <<req, k, bufhi, mem, ard, served>>

\* Wrong on purpose: "inc bufhi" is forgotten.
NextByteSamePage(loop) ==
    IF y + 1 < P
      THEN y' = y + 1 /\ hpc' = loop /\ UNCHANGED <<uppage, bufhi, result>>
      ELSE /\ y' = uppage /\ UNCHANGED bufhi
           /\ IF uppage = 0
                THEN hpc' = loop /\ uppage' = 1 /\ UNCHANGED result
                ELSE hpc' = "idle" /\ result' = "ok" /\ UNCHANGED uppage

\* Wrong on purpose: "dec bufhi" is forgotten.
NextByteNoRestore(loop) ==
    IF y + 1 < P
      THEN y' = y + 1 /\ hpc' = loop /\ UNCHANGED <<uppage, bufhi, result>>
      ELSE /\ y' = uppage
           /\ IF uppage = 0
                THEN hpc' = loop /\ uppage' = 1 /\ bufhi' = bufhi + 1 /\ UNCHANGED result
                ELSE hpc' = "idle" /\ result' = "ok" /\ UNCHANGED <<uppage, bufhi>>

\* After a byte of the block: the next one, the upper page, or exit512.
NextByte(loop) ==
    IF y + 1 < P
      THEN y' = y + 1 /\ hpc' = loop /\ UNCHANGED <<uppage, bufhi, result>>
      ELSE /\ y' = uppage
           /\ IF uppage = 0
                THEN hpc' = loop /\ uppage' = 1 /\ bufhi' = bufhi + 1 /\ UNCHANGED result
                ELSE hpc' = "idle" /\ result' = "ok" /\ bufhi' = bufhi - 1 /\ UNCHANGED uppage

Pointer == bufhi * P + y                 \* (buflo),y

WriteBytes ==
    /\ hpc = "writebytes" /\ hpc' = "waitwrite"
    /\ Port!HostPut(mem[Pointer])
    /\ UNCHANGED <<req, k, y, uppage, bufhi, mem, result, ard, served>>

WaitWrite ==
    /\ hpc = "waitwrite" /\ toArd = <<>>
    /\ NextByte("writebytes")
    /\ UNCHANGED <<port, req, k, mem, ard, served>>

ReadBytes(b) ==
    /\ hpc = "readbytes" /\ Port!HostTake(b)
    /\ mem' = [mem EXCEPT ![Pointer] = b]
    /\ NextByte("readbytes")
    /\ UNCHANGED <<req, k, ard, served>>

-----------------------------------------------------------------------------
(* The sketch. *)

\* loop(): anything but the magic byte is dropped.
LoopByte(b) ==
    /\ apc = "loop" /\ Port!ArdTake(b)
    /\ apc' = IF b = Magic THEN "cmd" ELSE "loop"
    /\ UNCHANGED <<host, acmd, args, n, after, abuf, vol, disk, served>>

\* do_command(): the commands that take arguments go to get_unit_buf_blk().
\* The local buf[512] of the handler is filled before it is used.
CmdByte(b) ==
    /\ apc = "cmd" /\ Port!ArdTake(b)
    /\ acmd' = b /\ args' = <<>> /\ abuf' = Zeros
    /\ apc' = IF b \in 0..7 \cup {141, 160} THEN "args" ELSE "default"
    /\ UNCHANGED <<host, n, after, vol, disk, served>>

\* get_unit_buf_blk(): unit, two bytes of buffer address, two of block number.
ArgByte(b) ==
    /\ apc = "args" /\ Port!ArdTake(b)
    /\ args' = Append(args, b)
    /\ apc' = IF Len(args') = 5 THEN "exec" ELSE "args"
    /\ UNCHANGED <<host, acmd, n, after, abuf, vol, disk, served>>

Drive == DriveOf(args[1])

\* Answer with a status byte, then go on with "next".
Reply(status, next) ==
    /\ Port!ArdOffer(status)
    /\ apc' = "put" /\ after' = next /\ n' = 0
    /\ UNCHANGED <<host, acmd, args>>

\* The default case: the arguments are left for loop() to drop.
Unknown ==
    /\ apc = "default"
    /\ Reply(IOErr, "loop")
    /\ served' = "error"
    /\ UNCHANGED <<abuf, vol, disk>>

\* check_unit_nodev() fails: SlotManager says when a drive has no device.
NoDevice ==
    /\ apc = "exec" /\ acmd \in 0..3
    /\ Reply(NoDev, "loop")
    /\ served' = "error"
    /\ UNCHANGED <<abuf, vol, disk>>

DoStatus ==
    /\ apc = "exec" /\ acmd = 0
    /\ Reply(0, "loop")
    /\ served' = "ok"
    /\ UNCHANGED <<abuf, vol, disk>>

\* do_format() formats nothing and sends no block.
DoFormat ==
    /\ apc = "exec" /\ acmd = 3
    /\ Reply(0, "loop")
    /\ served' = "ok"
    /\ UNCHANGED <<abuf, vol, disk>>

\* do_read(): the whole block is fetched before the status is sent.
DoRead ==
    /\ apc = "exec" /\ acmd = 1
    /\ Reply(0, "send")
    /\ abuf' = disk[Drive]
    /\ served' = "ok"
    /\ UNCHANGED <<vol, disk>>

DoReadFails ==
    /\ apc = "exec" /\ acmd = 1
    /\ Reply(IOErr, "loop")
    /\ served' = "error"
    /\ UNCHANGED <<abuf, vol, disk>>

\* do_write(): the status is sent before the data arrive.
DoWrite ==
    /\ apc = "exec" /\ acmd = 2
    /\ Reply(0, "recv")
    /\ UNCHANGED <<abuf, vol, disk, served>>

\* Wrong on purpose: the two halves of the block number are swapped.
DoSetVolumeSwapped ==
    /\ apc = "exec" /\ acmd \in {4, 6, 7}
    /\ vol' = [d \in Drives |-> args[5 - d]]
    /\ disk' \in [Drives -> Contents]
    /\ Reply(0, IF acmd = 4 THEN "loop" ELSE "send")
    /\ abuf' = Zeros
    /\ served' = "ok"

\* Wrong on purpose: command 4 is followed by zeros too.
DoSetVolumeZeros ==
    /\ apc = "exec" /\ acmd \in {4, 6, 7}
    /\ vol' = [d \in Drives |-> args[4 + d]]
    /\ disk' \in [Drives -> Contents]
    /\ Reply(0, "send")
    /\ abuf' = Zeros
    /\ served' = "ok"

\* do_set_volume(): both drives may now hold other media.
DoSetVolume ==
    /\ apc = "exec" /\ acmd \in {4, 6, 7}
    /\ vol' = [d \in Drives |-> args[4 + d]]
    /\ disk' \in [Drives -> Contents]
    /\ Reply(0, IF acmd = 4 THEN "loop" ELSE "send")
    /\ abuf' = Zeros
    /\ served' = "ok"

DoGetVolume ==
    /\ apc = "exec" /\ acmd = 5
    /\ Reply(0, "send")
    /\ abuf' = [i \in 0..Size - 1 |-> IF i \in Drives THEN vol[i] ELSE 0]
    /\ served' = "ok"
    /\ UNCHANGED <<vol, disk>>

NumberBootblocks == Len(bootblocks) \div Size

\* The block to send: with a table shorter than a block NUMBER_BOOTBLOCKS is 0,
\* every number is out of range, and it is always the first.  "blk << 9" wraps
\* at 16 bits, here at the four blocks of Flash.
BootFrom(blk) == IF blk >= NumberBootblocks THEN 0 ELSE blk

DoSendBootblock ==
    /\ apc = "exec" /\ acmd \in {141, 160}
    /\ Reply(0, "send")
    /\ LET from == BootFrom(args[4] + 256 * args[5]) * Size
       IN  abuf' = [i \in 0..Size - 1 |-> Flash[(from + i) % (4 * Size)]]
    /\ served' = "ok"
    /\ UNCHANGED <<vol, disk>>

\* write_dataport(): wait for IBFA, then strobe the byte in.
Put ==
    /\ apc = "put" /\ Port!ArdPut
    /\ apc' = after
    /\ UNCHANGED <<host, acmd, args, n, after, abuf, vol, disk, served>>

\* Wrong on purpose: the loop ends one byte early.
SendByteShort ==
    /\ apc = "send" /\ Port!ArdOffer(abuf[n])
    /\ n' = n + 1
    /\ apc' = "put" /\ after' = IF n' = Size - 1 THEN "loop" ELSE "send"
    /\ UNCHANGED <<host, acmd, args, abuf, vol, disk, served>>

\* The loop that sends a block.
SendByte ==
    /\ apc = "send" /\ Port!ArdOffer(abuf[n])
    /\ n' = n + 1
    /\ apc' = "put" /\ after' = IF n' = Size THEN "loop" ELSE "send"
    /\ UNCHANGED <<host, acmd, args, abuf, vol, disk, served>>

\* The loop that receives a block.
ReceiveByte(b) ==
    /\ apc = "recv" /\ Port!ArdTake(b)
    /\ abuf' = [abuf EXCEPT ![n] = b]
    /\ n' = n + 1
    /\ IF n' = Size THEN apc' = "store" /\ served' = "ok" ELSE UNCHANGED <<apc, served>>
    /\ UNCHANGED <<host, acmd, args, after, vol, disk>>

\* The rest of do_write(): whether the block is stored or not, nobody is told.
Store ==
    /\ apc = "store" /\ apc' = "loop"
    /\ disk' \in {disk, [disk EXCEPT ![Drive] = abuf]}
    /\ UNCHANGED <<port, host, acmd, args, n, after, abuf, vol, served>>

-----------------------------------------------------------------------------
AppleStep == \/ ComSend \/ ComByte2 \/ WriteBytes \/ WaitWrite
             \/ \E b \in Bytes : toHost = <<b>> /\ (WaitResult(b) \/ ReadBytes(b))

ArduinoStep == \/ \E b \in Bytes : /\ toArd = <<b>>
                                   /\ LoopByte(b) \/ CmdByte(b) \/ ArgByte(b) \/ ReceiveByte(b)
               \/ Unknown \/ NoDevice \/ DoStatus \/ DoFormat \/ DoRead \/ DoReadFails \/ DoWrite
               \/ DoSetVolume \/ DoGetVolume \/ DoSendBootblock
               \/ Put \/ SendByte \/ Store

Next == \/ Reset
        \/ \E r \in Requests, b \in Contents : Start(r, b)
        \/ AppleStep
        \/ ArduinoStep

Spec == Init /\ [][Next]_vars

\* Neither program waits for anything but the other one, and the accesses to
\* the cards end: every wait in the SD driver has a timeout.
Fairness == WF_vars(AppleStep) /\ WF_vars(ArduinoStep)

FairSpec == Spec /\ Fairness

-----------------------------------------------------------------------------
\* Every variable has its type.
TypeOK ==
    /\ \A box \in {toArd, toHost, offer} : box = <<>> \/ \E b \in Bytes : box = <<b>>
    /\ hpc \in {"idle", "comsend", "combyte2", "waitresult", "writebytes", "waitwrite",
                "readbytes"}
    /\ req \in Requests /\ k \in 0..7 /\ y \in 0..P /\ uppage \in {0, 1}
    /\ bufhi \in {Buf, Buf + 1}
    /\ mem \in [Addresses -> Bytes] /\ result \in {"none", "ok", "error"}
    /\ apc \in {"loop", "cmd", "default", "args", "exec", "put", "send", "recv", "store"}
    /\ acmd \in Bytes /\ args \in Seq(Bytes) /\ Len(args) <= 5
    /\ n \in 0..Size /\ after \in {"loop", "send", "recv"}
    /\ abuf \in Block /\ vol \in Volumes /\ disk \in [Drives -> Block]
    /\ served \in {"none", "ok", "error"}

\* The two programs never disagree on who sends next.  When a call has returned
\* no byte is left over in the port, the sketch is waiting for the next command
\* or storing the block of the last write, and the caller's buffer pointer is
\* what it was (exit512 undoes "inc bufhi"); the Apple never stores a byte over
\* one that was not taken, and no byte of the sketch lies in the port while the
\* Apple is sending a block or not calling at all.
InSync ==
    /\ TypeOK
    /\ hpc = "idle" => /\ toArd = <<>> /\ toHost = <<>> /\ offer = <<>>
                       /\ apc \in {"loop", "store"}
                       /\ bufhi = Buf
    /\ hpc \in {"comsend", "writebytes"} => toArd = <<>>
    /\ toHost # <<>> => hpc \notin {"idle", "writebytes", "waitwrite"}

\* A read never writes outside the 512 bytes of the caller's buffer.
OnlyBuffer == [][\A a \in Addresses : mem'[a] # mem[a] => InBuffer(a)]_vars

\* The two file numbers cross the link unswapped in both directions: what the
\* Apple set is what the sketch uses, and command 5 shows what it uses.
VolumesCross ==
    /\ req.cmd \in {4, 6, 7} => vol = req.vol
    /\ req.cmd = 5 /\ P > 1 => \A d \in Drives : BufferOf(mem')[d] = vol[d]

\* The volume selector's whole program reaches the Apple whatever block number
\* the caller of command 160 left at $46 (do_send_bootblock).
BootArrives ==
    req.cmd = 160 => \A i \in 1..Len(bootblocks) : BufferOf(mem')[i - 1] = bootblocks[i]

\* A call that succeeds has moved the right bytes: the file numbers and the
\* program of the volume selector, over two loops and a 16-bit argument.
AnswersArrive ==
    [][hpc # "idle" /\ hpc' = "idle" /\ result' = "ok" => VolumesCross /\ BootArrives]_vars

KindOf(cmd) == CASE cmd = 0 -> "status"
                 [] cmd = 1 -> "read"
                 [] cmd = 2 -> "write"
                 [] cmd = 3 -> "format"
                 [] cmd = 4 -> "set"
                 [] cmd \in {6, 7} -> "setget"
                 [] OTHER -> "get"

\* Byte by byte, over two loops, the driver and the sketch implement a block
\* device with posted writes: a read returns what the drive holds, a write
\* hands over exactly the buffer, an error is never reported as success before
\* the data were handed over, no later call overtakes the posted write, and
\* nobody is told that a disk was formatted, because none ever is.
Device == INSTANCE BlockDevice
    WITH posted <- IF apc = "store" THEN {[drive |-> Drive, data |-> abuf]} ELSE {},
         call   <- IF hpc = "idle" THEN {}
                   ELSE {[kind |-> KindOf(req.cmd), drive |-> DriveOf(req.unit)]},
         status <- served,
         answer <- IF served = "ok" THEN abuf ELSE Zeros,
         buffer <- BufferOf(mem)

ImplementsDevice == Device!Spec

\* Every call returns, but for a format of a drive that is there, which waits
\* for a block after do_format()'s status until RESET: no other exchange leaves
\* the two programs waiting for each other.
CallsReturn == hpc # "idle" /\ req.cmd # 3 ~> hpc = "idle"
=============================================================================
