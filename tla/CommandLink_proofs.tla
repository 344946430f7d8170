-------------------------- MODULE CommandLink_proofs --------------------------
(***************************************************************************)
(* Proofs about CommandLink: for every size of a page, every content of    *)
(* the media and all the calls the Apple can make, the driver and the      *)
(* sketch never disagree on who sends next, and together they implement    *)
(* the block device with posted writes.                                    *)
(***************************************************************************)
EXTENDS CommandLink, TLAPS

-----------------------------------------------------------------------------
(* Where the two programs are.  Each phase says which places of the driver *)
(* go with which places of the sketch, and what lies between them.         *)

\* The five bytes after the command byte.
Arguments == <<req.unit, 0, Buf, req.vol[0], req.vol[1]>>

\* How many of the seven bytes of a command the sketch has taken.
Taken == IF hpc = "combyte2" /\ toArd = <<>> THEN k + 1 ELSE k

\* How many bytes of the block the driver is done with.
Done == IF uppage = 0 THEN y ELSE P + y

Quiet == toHost = <<>> /\ offer = <<>>

\* The driver has not got the status byte.
Calling ==
    /\ bufhi = Buf
    /\ \/ hpc = "comsend" /\ k \in 0..6 /\ toArd = <<>>
       \/ hpc = "combyte2" /\ k \in 0..6 /\ toArd \in {<<>>, <<Field(k)>>}
       \/ hpc = "waitresult" /\ k = 7 /\ toArd = <<>>

Idle == hpc = "idle" /\ bufhi = Buf /\ toArd = <<>> /\ Quiet /\ apc \in {"loop", "store"}

\* The sketch still waits for the magic byte, or stores the block of a write; then
\* it waits for the command byte.
Waits == Calling /\ Quiet /\ served = "none" /\ Taken = 0 /\ apc \in {"loop", "store"}
Woken == Calling /\ Quiet /\ served = "none" /\ Taken = 1 /\ apc = "cmd"

\* It collects the arguments, and has them all.
Collected(m) == /\ acmd = req.cmd /\ req.cmd # 9
                /\ Len(args) = m /\ \A i \in 1..m : args[i] = Arguments[i]
Collects == /\ Calling /\ Quiet /\ served = "none" /\ apc = "args"
            /\ Taken \in 2..6 /\ Collected(Taken - 2)
Executes == /\ Calling /\ Quiet /\ served = "none" /\ apc = "exec"
            /\ Taken = 7 /\ Collected(5)

\* The status byte "st" and what goes with it: no block, a block for the Apple, or
\* a block from it.
SendsBlock == {1, 5, 6, 7, 160}
Answer(st) == \/ st \in {IOErr, NoDev} /\ req.cmd \in 0..3 /\ served = "error" /\ after = "loop"
              \/ st = 0 /\ req.cmd \in {0, 3, 4} /\ served = "ok" /\ after = "loop"
              \/ st = 0 /\ req.cmd \in SendsBlock /\ served = "ok" /\ after = "send"
              \/ st = 0 /\ req.cmd = 2 /\ served = "none" /\ after = "recv"

\* The sketch has the status byte in its hands, has written it, and has the first
\* byte of the block in its hands.
Answers  == /\ Calling /\ Taken = 7 /\ Collected(5)
            /\ apc = "put" /\ toHost = <<>> /\ n = 0
            /\ \E st \in {0, IOErr, NoDev} : offer = <<st>> /\ Answer(st)
Answered == /\ Calling /\ Taken = 7 /\ Collected(5)
            /\ offer = <<>> /\ apc = after /\ n = 0
            /\ \E st \in {0, IOErr, NoDev} : toHost = <<st>> /\ Answer(st)
Ahead    == /\ Calling /\ Taken = 7 /\ Collected(5)
            /\ apc = "put" /\ after = "send" /\ n = 1
            /\ req.cmd \in SendsBlock /\ served = "ok"
            /\ toHost = <<0>> /\ offer = <<abuf[0]>>

\* An unknown command: the error is in the port before the arguments are sent, and
\* loop() drops them.
Refuses  == /\ Calling /\ Taken = 2 /\ req.cmd = 9 /\ toHost = <<>>
            /\ \/ apc = "default" /\ served = "none" /\ offer = <<>>
               \/ apc = "put" /\ after = "loop" /\ served = "error" /\ offer = <<IOErr>>
Drops    == /\ Calling /\ Taken \in 2..7 /\ req.cmd = 9 /\ served = "error"
            /\ apc = "loop" /\ toHost = <<IOErr>> /\ offer = <<>>

\* A format of a drive that is there: the driver waits for a block.
Stuck == /\ hpc = "readbytes" /\ req.cmd = 3 /\ served = "ok" /\ toArd = <<>> /\ Quiet
         /\ y = 0 /\ uppage = 0 /\ bufhi = Buf /\ apc = "loop"

\* Where the sketch goes when the byte it has in its hands is in the port.
Then(m) == IF m = Size THEN "loop" ELSE "send"

\* A block on its way to the Apple: at most two of its bytes are neither in the
\* sketch's buffer nor in the caller's.
Reading ==
    /\ hpc = "readbytes" /\ req.cmd \in SendsBlock /\ served = "ok" /\ toArd = <<>>
    /\ y < P /\ bufhi = Buf + uppage
    /\ \A i \in 0..Done - 1 : BufferOf(mem)[i] = abuf[i]
    /\ \/ apc = "send" /\ n = Done /\ Quiet
       \/ /\ apc = "put" /\ n = Done + 1 /\ after = Then(n)
          /\ toHost = <<>> /\ offer = <<abuf[Done]>>
       \/ /\ n = Done + 1 /\ apc = Then(n)
          /\ toHost = <<abuf[Done]>> /\ offer = <<>>
       \/ /\ apc = "put" /\ n = Done + 2 /\ n <= Size /\ after = Then(n)
          /\ toHost = <<abuf[Done]>> /\ offer = <<abuf[Done + 1]>>

\* A block on its way from the Apple, and the sketch done with it before the driver
\* looked at the flag again.
Handed == /\ n <= Size /\ \A i \in 0..n - 1 : abuf[i] = BufferOf(mem)[i]
Writing ==
    /\ req.cmd = 2 /\ served = "none" /\ Quiet /\ Collected(5)
    /\ y < P /\ bufhi = Buf + uppage /\ Handed /\ apc = "recv"
    /\ \/ hpc = "writebytes" /\ n = Done /\ toArd = <<>>
       \/ hpc = "waitwrite" /\ n = Done /\ toArd = <<BufferOf(mem)[Done]>>
       \/ hpc = "waitwrite" /\ n = Done + 1 /\ n < Size /\ toArd = <<>>
Written ==
    /\ req.cmd = 2 /\ served = "ok" /\ Quiet
    /\ y = P - 1 /\ uppage = 1 /\ bufhi = Buf + 1
    /\ hpc = "waitwrite" /\ toArd = <<>> /\ apc \in {"store", "loop"}

Phase == \/ Idle \/ Waits \/ Woken \/ Collects \/ Executes \/ Answers \/ Answered \/ Ahead
         \/ Refuses \/ Drops \/ Stuck \/ Reading \/ Writing \/ Written

\* What the sketch has answered with: the file numbers are the Apple's, and the
\* block it sends is the one the command asks for.
Loaded ==
    served = "ok" =>
        /\ req.cmd \in {4, 6, 7} => vol = req.vol
        /\ req.cmd = 5 => \A d \in Drives : abuf[d] = vol[d]
        /\ req.cmd = 160 => \A i \in 1..Len(bootblocks) : abuf[i - 1] = bootblocks[i]

IInv == TypeOK /\ Phase /\ Loaded

-----------------------------------------------------------------------------
(* The operators. *)

\* What the calls are made of.
LEMMA RequestFacts ==
    ASSUME TypeOK
    PROVE  /\ req.cmd \in {0, 1, 2, 3, 4, 5, 6, 7, 9, 160}
           /\ req.unit \in {0, 128}
           /\ req.vol \in Volumes
           /\ req.vol \in [Drives -> Bytes]
           /\ req.vol[0] \in Bytes /\ req.vol[1] \in Bytes
           /\ req.cmd = 9 => req.vol[0] # Magic /\ req.vol[1] # Magic
<1>1. req \in Requests
    BY DEF TypeOK
<1>2. req \in [cmd : {0, 1, 2, 3, 4, 5, 6, 7, 9, 160}, unit : {0, 128}, vol : Volumes]
    BY <1>1, RequestsAssumption
<1>3. req.vol \in [Drives -> Bytes]
    BY <1>2, VolumesAssumption
<1>4. 0 \in Drives /\ 1 \in Drives
    BY DEF Drives
<1>5. req.cmd = 9 => req.vol[0] # Magic /\ req.vol[1] # Magic
    BY <1>1, <1>4, RequestsAssumption
<1> QED BY <1>2, <1>3, <1>4, <1>5

\* The seven bytes of a command.  None of them is the magic byte after an unknown
\* command byte.
LEMMA FieldFacts ==
    ASSUME TypeOK, bufhi = Buf
    PROVE  /\ Field(0) = Magic /\ Field(1) = req.cmd
           /\ \A i \in 2..6 : Field(i) = Arguments[i - 1]
           /\ \A i \in 1..5 : Arguments[i] \in Bytes
           /\ \A i \in 0..6 : Field(i) \in Bytes
           /\ req.cmd = 9 => \A i \in 2..6 : Field(i) # Magic
<1>1. /\ Field(0) = Magic /\ Field(1) = req.cmd /\ Field(2) = req.unit /\ Field(3) = 0
      /\ Field(4) = Buf /\ Field(5) = req.vol[0] /\ Field(6) = req.vol[1]
    BY DEF Field
<1>2. /\ Arguments[1] = req.unit /\ Arguments[2] = 0 /\ Arguments[3] = Buf
      /\ Arguments[4] = req.vol[0] /\ Arguments[5] = req.vol[1]
    BY DEF Arguments
<1>3. \A i \in 2..6 : i = 2 \/ i = 3 \/ i = 4 \/ i = 5 \/ i = 6
    OBVIOUS
<1>4. \A i \in 2..6 : Field(i) = Arguments[i - 1]
    BY <1>1, <1>2, <1>3
<1>5. \A i \in 1..5 : Arguments[i] \in Bytes
    BY <1>2, RequestFacts DEF Bytes, Buf
<1>6. \A i \in 0..6 : Field(i) \in Bytes
    BY <1>1, RequestFacts DEF Bytes, Buf, Magic
<1>7. req.cmd = 9 => \A i \in 2..6 : Field(i) # Magic
    BY <1>1, <1>3, RequestFacts DEF Magic, Buf
<1> QED BY <1>1, <1>4, <1>5, <1>6, <1>7

\* The caller's buffer is the addresses from P to 3 * P - 1.
LEMMA InBufferIs ==
    ASSUME NEW a \in Addresses
    PROVE  InBuffer(a) <=> a \in P..3 * P - 1
BY PAssumption DEF InBuffer, Addresses, Buf

LEMMA BufferOfType ==
    ASSUME NEW m \in [Addresses -> Bytes]
    PROVE  /\ BufferOf(m) \in Block
           /\ \A i \in 0..Size - 1 : P + i \in Addresses /\ BufferOf(m)[i] = m[P + i]
BY PAssumption DEF BufferOf, Block, Size, Addresses, Buf

\* What the caller puts in its buffer is what is in it.
LEMMA LoadFacts ==
    ASSUME NEW m \in [Addresses -> Bytes], NEW b \in Block
    PROVE  /\ Load(m, b) \in [Addresses -> Bytes]
           /\ BufferOf(Load(m, b)) = b
           /\ \A a \in Addresses : ~InBuffer(a) => Load(m, b)[a] = m[a]
<1>1. ASSUME NEW a \in Addresses, InBuffer(a)
      PROVE  a - Buf * P \in 0..Size - 1
    BY <1>1, InBufferIs, PAssumption DEF Buf, Size, Addresses
<1>2. Load(m, b) \in [Addresses -> Bytes]
    BY <1>1 DEF Load, Block
<1>3. ASSUME NEW i \in 0..Size - 1
      PROVE  BufferOf(Load(m, b))[i] = b[i]
    <2>1. P + i \in Addresses /\ P + i \in P..3 * P - 1
        BY PAssumption DEF Addresses, Size
    <2>2. InBuffer(P + i)
        BY <2>1, InBufferIs
    <2>3. Load(m, b)[P + i] = b[(P + i) - Buf * P]
        BY <2>1, <2>2 DEF Load
    <2>4. (P + i) - Buf * P = i
        BY PAssumption DEF Buf
    <2> QED BY <1>2, <2>3, <2>4, BufferOfType
<1>4. BufferOf(Load(m, b)) \in Block
    BY <1>2, BufferOfType
<1>5. BufferOf(Load(m, b)) = b
    <2> DEFINE c == BufferOf(Load(m, b))
    <2>1. c \in [0..Size - 1 -> Bytes] /\ b \in [0..Size - 1 -> Bytes]
        BY <1>4 DEF Block
    <2>2. \A i \in 0..Size - 1 : c[i] = b[i]
        BY <1>3
    <2> HIDE DEF c
    <2>3. c = [i \in 0..Size - 1 |-> c[i]] /\ b = [i \in 0..Size - 1 |-> b[i]]
        BY <2>1, Zenon
    <2>4. c = b
        BY <2>2, <2>3, Zenon
    <2> QED BY <2>4 DEF c
<1>6. \A a \in Addresses : ~InBuffer(a) => Load(m, b)[a] = m[a]
    BY DEF Load
<1> QED BY <1>2, <1>5, <1>6

\* The byte the pointer of the driver points at is the next one of the buffer.
LEMMA PointerIs ==
    ASSUME TypeOK, y < P, bufhi = Buf + uppage
    PROVE  /\ Done \in 0..Size - 1
           /\ Pointer = P + Done /\ Pointer \in Addresses /\ InBuffer(Pointer)
           /\ mem[Pointer] = BufferOf(mem)[Done] /\ mem[Pointer] \in Bytes
<1>1. CASE uppage = 0
    <2>1. Pointer = P + y /\ Done = y
        BY <1>1, PAssumption DEF Pointer, Done, Buf, TypeOK
    <2>2. Done \in 0..Size - 1 /\ Pointer \in Addresses /\ Pointer \in P..3 * P - 1
        BY <2>1, PAssumption DEF TypeOK, Size, Addresses
    <2> QED BY <2>1, <2>2, InBufferIs, BufferOfType DEF TypeOK
<1>2. CASE uppage = 1
    <2>1. Pointer = 2 * P + y /\ Done = P + y
        BY <1>2, PAssumption DEF Pointer, Done, Buf, TypeOK
    <2>2. Done \in 0..Size - 1 /\ Pointer \in Addresses /\ Pointer \in P..3 * P - 1
        BY <2>1, PAssumption DEF TypeOK, Size, Addresses
    <2>3. Pointer = P + Done
        BY <2>1, PAssumption DEF TypeOK
    <2> QED BY <2>2, <2>3, InBufferIs, BufferOfType DEF TypeOK
<1> QED BY <1>1, <1>2 DEF TypeOK

\* A byte stored there is that byte of the buffer, and no other.
LEMMA StoreByte ==
    ASSUME TypeOK, y < P, bufhi = Buf + uppage, NEW b \in Bytes,
           mem' = [mem EXCEPT ![Pointer] = b]
    PROVE  /\ mem' \in [Addresses -> Bytes]
           /\ BufferOf(mem') = [BufferOf(mem) EXCEPT ![Done] = b]
<1>1. mem' \in [Addresses -> Bytes]
    BY DEF TypeOK
<1>2. BufferOf(mem') \in Block /\ BufferOf(mem) \in Block
    BY <1>1, BufferOfType DEF TypeOK
<1>3. ASSUME NEW i \in 0..Size - 1
      PROVE  BufferOf(mem')[i] = IF i = Done THEN b ELSE BufferOf(mem)[i]
    <2>1. P + i \in Addresses /\ BufferOf(mem')[i] = mem'[P + i]
            /\ BufferOf(mem)[i] = mem[P + i]
        BY <1>1, BufferOfType DEF TypeOK
    <2>2. Pointer = P + Done /\ Done \in 0..Size - 1
        BY PointerIs
    <2>3. P + i = P + Done <=> i = Done
        BY <2>2, PAssumption DEF Size
    <2> QED BY <2>1, <2>2, <2>3 DEF TypeOK
<1> QED BY <1>1, <1>2, <1>3 DEF Block

-----------------------------------------------------------------------------
(* The steps of the driver. *)

\* A step that changes neither what the sketch has nor the request keeps Loaded.
LEMMA LoadedKept ==
    ASSUME Loaded, UNCHANGED <<served, req, vol, abuf>>
    PROVE  Loaded'
BY DEF Loaded

LEMMA StepComSend ==
    ASSUME IInv, ComSend
    PROVE  IInv'
<1> USE DEF IInv
<1>1. /\ hpc = "comsend" /\ hpc' = "combyte2" /\ toArd = <<>> /\ toArd' = <<Field(k)>>
      /\ UNCHANGED <<toHost, offer, req, k, y, uppage, bufhi, mem, result, served>>
      /\ UNCHANGED ard
    BY DEF ComSend, Port!HostPut
<1>2. Waits \/ Woken \/ Collects \/ Refuses \/ Drops
    BY <1>1 DEF Phase, Idle, Executes, Answers, Answered, Ahead, Stuck, Reading, Writing, Written,
       Taken, Calling
<1>3. bufhi = Buf /\ k \in 0..6
    BY <1>1, <1>2 DEF Waits, Woken, Collects, Refuses, Drops, Calling
<1>4. Field(k) \in Bytes
    BY <1>3, FieldFacts
<1>5. Field(k)' = Field(k)
    BY <1>1 DEF Field
<1>6. Taken' = Taken /\ Calling'
    BY <1>1, <1>3, <1>5 DEF Taken, Calling
<1>7. TypeOK'
    BY <1>1, <1>4 DEF TypeOK, ard
<1>8. Phase'
    BY <1>1, <1>2, <1>6 DEF Phase, Waits, Woken, Collects, Refuses, Drops, Quiet, Collected,
       Arguments, ard
<1>9. Loaded'
    BY <1>1, LoadedKept DEF ard
<1> QED BY <1>7, <1>8, <1>9

LEMMA StepComByte2 ==
    ASSUME IInv, ComByte2
    PROVE  IInv'
<1> USE DEF IInv
<1>1. /\ hpc = "combyte2" /\ toArd = <<>> /\ k' = k + 1
      /\ hpc' = IF k' = 7 THEN "waitresult" ELSE "comsend"
      /\ UNCHANGED <<toArd, toHost, offer, req, y, uppage, bufhi, mem, result, served>>
      /\ UNCHANGED ard
    BY DEF ComByte2, port
<1>2. \/ Woken \/ Collects \/ Executes \/ Answers \/ Answered \/ Ahead
      \/ Refuses \/ Drops
    BY <1>1 DEF Phase, Idle, Waits, Stuck, Reading, Writing, Written, Taken, Calling
<1>3. bufhi = Buf /\ k \in 0..6
    BY <1>1, <1>2 DEF Woken, Collects, Executes, Answers, Answered, Ahead, Refuses, Drops, Calling
<1>4. Taken' = Taken /\ Calling'
    BY <1>1, <1>3 DEF Taken, Calling
<1>5. TypeOK'
    BY <1>1, <1>3 DEF TypeOK, ard
<1>6. Phase'
    BY <1>1, <1>2, <1>4 DEF Phase, Woken, Collects, Executes, Answers, Answered, Ahead,
       Refuses, Drops, Quiet, Collected, Arguments, Answer, ard
<1>7. Loaded'
    BY <1>1, LoadedKept DEF ard
<1> QED BY <1>5, <1>6, <1>7

LEMMA StepWaitResult ==
    ASSUME IInv, NEW b \in Bytes, WaitResult(b)
    PROVE  IInv'
<1> USE DEF IInv
<1>1. /\ hpc = "waitresult" /\ toHost = <<b>> /\ toHost' = <<>>
      /\ UNCHANGED <<toArd, offer, req, k, bufhi, mem, served>>
      /\ UNCHANGED ard
    BY DEF WaitResult, Port!HostTake
<1>2. Answered \/ Ahead \/ Drops
    BY <1>1 DEF Phase, Idle, Waits, Woken, Collects, Executes, Answers, Refuses, Quiet,
       Stuck, Reading, Writing, Written, Taken, Calling
<1>3. bufhi = Buf /\ toArd = <<>>
    BY <1>1, <1>2 DEF Answered, Ahead, Drops, Calling
<1>4. TypeOK'
    BY <1>1, PAssumption DEF WaitResult, TypeOK, ard
<1>5. Loaded'
    BY <1>1, LoadedKept DEF ard
<1>6. CASE req.cmd = 4 \/ b # 0 \/ req.cmd = 0
    <2>1. hpc' = "idle"
        BY <1>6 DEF WaitResult
    <2>2. offer = <<>> /\ apc = "loop"
        BY <1>1, <1>2, <1>6 DEF Answered, Ahead, Drops, Answer, SendsBlock
    <2>3. Idle'
        BY <1>1, <1>3, <2>1, <2>2 DEF Idle, Quiet, ard
    <2> QED BY <1>4, <1>5, <2>3 DEF Phase
<1>7. CASE ~(req.cmd = 4 \/ b # 0 \/ req.cmd = 0)
    <2>1. /\ hpc' = IF req.cmd = 2 THEN "writebytes" ELSE "readbytes"
          /\ y' = 0 /\ uppage' = 0 /\ b = 0
        BY <1>7 DEF WaitResult
    <2>2. Done' = 0 /\ bufhi' = Buf + uppage' /\ y' < P
        BY <1>1, <1>3, <2>1, PAssumption DEF Done, Buf
    <2>3. CASE Answered
        <3>1. Collected(5) /\ offer = <<>> /\ apc = after /\ n = 0 /\ Answer(0)
            BY <1>1, <2>1, <2>3 DEF Answered
        <3>2. CASE req.cmd = 2
            <4>1. served = "none" /\ apc = "recv"
                BY <3>1, <3>2 DEF Answer, SendsBlock, IOErr, NoDev
            <4>2. Handed' /\ Collected(5)'
                BY <1>1, <3>1, PAssumption DEF Handed, Size, Collected, Arguments, ard
            <4>3. Writing'
                BY <1>1, <1>3, <2>1, <2>2, <3>1, <3>2, <4>1, <4>2 DEF Writing, Quiet, ard
            <4> QED BY <1>4, <1>5, <4>3 DEF Phase
        <3>3. CASE req.cmd = 3
            <4>1. served = "ok" /\ apc = "loop"
                BY <3>1, <3>3 DEF Answer, SendsBlock, IOErr, NoDev
            <4>2. Stuck'
                BY <1>1, <1>3, <2>1, <3>1, <3>3, <4>1 DEF Stuck, Quiet, ard
            <4> QED BY <1>4, <1>5, <4>2 DEF Phase
        <3>4. CASE req.cmd \notin {2, 3}
            <4>1. served = "ok" /\ apc = "send" /\ req.cmd \in SendsBlock
                BY <1>7, <3>1, <3>4 DEF Answer, IOErr, NoDev
            <4>2. Reading'
                BY <1>1, <1>3, <2>1, <2>2, <3>1, <3>4, <4>1 DEF Reading, Quiet, ard
            <4> QED BY <1>4, <1>5, <4>2 DEF Phase
        <3> QED BY <3>2, <3>3, <3>4
    <2>4. CASE Ahead
        <3>1. Then(n) = "send"
            BY <2>4, PAssumption DEF Ahead, Then, Size
        <3>2. /\ n = 1 /\ apc = "put" /\ after = "send" /\ req.cmd \in SendsBlock
              /\ served = "ok" /\ offer = <<abuf[0]>> /\ hpc' = "readbytes"
            BY <2>1, <2>4 DEF Ahead, SendsBlock
        <3>3. Then(n)' = Then(n) /\ UNCHANGED <<n, apc, after, abuf>>
            BY <1>1 DEF Then, ard
        <3>4. Reading'
            BY <1>1, <1>3, <2>2, <3>1, <3>2, <3>3 DEF Reading
        <3> QED BY <1>4, <1>5, <3>4 DEF Phase
    <2>5. ~Drops
        BY <1>1, <2>1 DEF Drops, IOErr
    <2> QED BY <1>2, <2>3, <2>4, <2>5
<1> QED BY <1>6, <1>7

LEMMA StepWriteBytes ==
    ASSUME IInv, WriteBytes
    PROVE  IInv'
<1> USE DEF IInv
<1>1. /\ hpc = "writebytes" /\ hpc' = "waitwrite" /\ toArd' = <<mem[Pointer]>>
      /\ UNCHANGED <<toHost, offer, req, k, y, uppage, bufhi, mem, result, served>>
      /\ UNCHANGED ard
    BY DEF WriteBytes, Port!HostPut
<1>2. Writing
    BY <1>1 DEF Phase, Idle, Waits, Woken, Collects, Executes, Answers, Answered, Ahead,
       Refuses, Drops, Stuck, Reading, Written, Calling
<1>3. mem[Pointer] = BufferOf(mem)[Done] /\ mem[Pointer] \in Bytes
    BY <1>2, PointerIs DEF Writing
<1>4. TypeOK'
    BY <1>1, <1>3 DEF TypeOK, ard
<1>5. Done' = Done /\ BufferOf(mem)' = BufferOf(mem) /\ Collected(5)' = Collected(5)
    BY <1>1 DEF Done, BufferOf, Collected, Arguments, ard
<1>6. Writing'
    BY <1>1, <1>2, <1>3, <1>5 DEF Writing, Quiet, Handed, ard
<1>7. Loaded'
    BY <1>1, LoadedKept DEF ard
<1> QED BY <1>4, <1>6, <1>7 DEF Phase

\* After a byte of the block: on to the next one, or, after the last of the second
\* page, exit512 with the pointer as it was.
LEMMA NextByteFacts ==
    ASSUME TypeOK, y < P, bufhi = Buf + uppage, NEW loop, NextByte(loop)
    PROVE  \/ /\ Done + 1 < Size /\ Done' = Done + 1
              /\ hpc' = loop /\ y' \in Nat /\ y' < P /\ uppage' \in {0, 1}
              /\ bufhi' = Buf + uppage' /\ result' = result
           \/ /\ Done + 1 = Size
              /\ hpc' = "idle" /\ y' = 1 /\ uppage' = 1 /\ bufhi' = Buf /\ result' = "ok"
<1>1. y \in Nat /\ uppage \in {0, 1}
    BY DEF TypeOK
<1>2. CASE y + 1 < P
    <2>1. y' = y + 1 /\ hpc' = loop /\ UNCHANGED <<uppage, bufhi, result>>
        BY <1>2 DEF NextByte
    <2> QED BY <1>1, <1>2, <2>1, PAssumption DEF Done, Size
<1>3. CASE ~(y + 1 < P) /\ uppage = 0
    <2>1. /\ y' = 0 /\ hpc' = loop /\ uppage' = 1 /\ bufhi' = bufhi + 1 /\ result' = result
          /\ y + 1 = P
        BY <1>1, <1>3, PAssumption DEF NextByte
    <2> QED BY <1>1, <1>3, <2>1, PAssumption DEF Done, Size, Buf
<1>4. CASE ~(y + 1 < P) /\ uppage = 1
    <2>1. /\ y' = 1 /\ hpc' = "idle" /\ result' = "ok" /\ bufhi' = bufhi - 1 /\ uppage' = 1
          /\ y + 1 = P
        BY <1>1, <1>4, PAssumption DEF NextByte
    <2> QED BY <1>1, <1>4, <2>1, PAssumption DEF Done, Size, Buf
<1> QED BY <1>1, <1>2, <1>3, <1>4

LEMMA StepWaitWrite ==
    ASSUME IInv, WaitWrite
    PROVE  IInv'
<1> USE DEF IInv
<1>1. /\ hpc = "waitwrite" /\ toArd = <<>> /\ NextByte("writebytes")
      /\ UNCHANGED <<toArd, toHost, offer, req, k, mem, served>>
      /\ UNCHANGED ard
    BY DEF WaitWrite, port
<1>2. Writing \/ Written
    BY <1>1 DEF Phase, Idle, Waits, Woken, Collects, Executes, Answers, Answered, Ahead,
       Refuses, Drops, Stuck, Reading, Calling
<1>3. y < P /\ bufhi = Buf + uppage
    BY <1>2, PAssumption DEF Writing, Written
<1>4. \/ /\ Done + 1 < Size /\ Done' = Done + 1
         /\ hpc' = "writebytes" /\ y' \in Nat /\ y' < P /\ uppage' \in {0, 1}
         /\ bufhi' = Buf + uppage' /\ result' = result
      \/ /\ Done + 1 = Size
         /\ hpc' = "idle" /\ y' = 1 /\ uppage' = 1 /\ bufhi' = Buf /\ result' = "ok"
    BY <1>1, <1>3, NextByteFacts
<1>5. TypeOK'
    BY <1>1, <1>4, PAssumption DEF TypeOK, ard, Buf
<1>6. Loaded'
    BY <1>1, LoadedKept DEF ard
<1>7. CASE Writing
    <2>1. n = Done + 1 /\ n < Size
        BY <1>1, <1>7 DEF Writing
    <2>2. BufferOf(mem)' = BufferOf(mem) /\ Collected(5)' = Collected(5)
        BY <1>1 DEF BufferOf, Collected, Arguments, ard
    <2>3. Writing'
        BY <1>1, <1>4, <1>7, <2>1, <2>2 DEF Writing, Quiet, Handed, ard
    <2> QED BY <1>5, <1>6, <2>3 DEF Phase
<1>8. CASE Written
    <2>1. Done + 1 = Size
        BY <1>8, PAssumption DEF Written, Done, Size
    <2>2. hpc' = "idle" /\ bufhi' = Buf
        BY <1>4, <2>1, PAssumption DEF Size
    <2>3. Idle'
        BY <1>1, <1>8, <2>2 DEF Written, Idle, Quiet, ard
    <2> QED BY <1>5, <1>6, <2>3 DEF Phase
<1> QED BY <1>2, <1>7, <1>8

\* What the driver takes while a block arrives is the next byte of it.
LEMMA ReadBytesFacts ==
    ASSUME IInv, NEW b \in Bytes, ReadBytes(b)
    PROVE  /\ Reading /\ y < P /\ bufhi = Buf + uppage
           /\ Done \in 0..Size - 1 /\ b = abuf[Done]
           /\ \/ n = Done + 1 /\ apc = Then(n) /\ offer = <<>>
              \/ /\ n = Done + 2 /\ n <= Size /\ apc = "put" /\ after = Then(n)
                 /\ offer = <<abuf[Done + 1]>>
<1>1. hpc = "readbytes" /\ toHost = <<b>>
    BY DEF ReadBytes, Port!HostTake
<1>2. Reading
    BY <1>1 DEF IInv, Phase, Idle, Waits, Woken, Collects, Executes, Answers, Answered, Ahead,
       Refuses, Drops, Stuck, Quiet, Writing, Written, Calling
<1>3. Done \in 0..Size - 1
    BY <1>2, PointerIs DEF Reading, IInv
<1>4. toHost # <<>> /\ toHost = <<b>>
    BY <1>1
<1> QED BY <1>2, <1>3, <1>4 DEF Reading, Quiet

LEMMA StepReadBytes ==
    ASSUME IInv, NEW b \in Bytes, ReadBytes(b)
    PROVE  IInv'
<1> USE DEF IInv
<1>1. /\ hpc = "readbytes" /\ toHost' = <<>> /\ NextByte("readbytes")
      /\ mem' = [mem EXCEPT ![Pointer] = b]
      /\ UNCHANGED <<toArd, offer, req, k, served>>
      /\ UNCHANGED ard
    BY DEF ReadBytes, Port!HostTake
<1>2. /\ Reading /\ y < P /\ bufhi = Buf + uppage
      /\ Done \in 0..Size - 1 /\ b = abuf[Done]
      /\ \/ n = Done + 1 /\ apc = Then(n) /\ offer = <<>>
         \/ /\ n = Done + 2 /\ n <= Size /\ apc = "put" /\ after = Then(n)
            /\ offer = <<abuf[Done + 1]>>
    BY ReadBytesFacts
<1>3. mem' \in [Addresses -> Bytes] /\ BufferOf(mem') = [BufferOf(mem) EXCEPT ![Done] = b]
    BY <1>1, <1>2, StoreByte
<1>4. \/ /\ Done + 1 < Size /\ Done' = Done + 1
         /\ hpc' = "readbytes" /\ y' \in Nat /\ y' < P /\ uppage' \in {0, 1}
         /\ bufhi' = Buf + uppage' /\ result' = result
      \/ /\ Done + 1 = Size
         /\ hpc' = "idle" /\ y' = 1 /\ uppage' = 1 /\ bufhi' = Buf /\ result' = "ok"
    BY <1>1, <1>2, NextByteFacts
<1>5. TypeOK'
    BY <1>1, <1>3, <1>4, PAssumption DEF TypeOK, ard, Buf
<1>6. Loaded'
    BY <1>1, LoadedKept DEF ard
<1>7. CASE Done + 1 < Size
    <2>1. /\ Done' = Done + 1 /\ hpc' = "readbytes" /\ y' < P /\ bufhi' = Buf + uppage'
        BY <1>4, <1>7, PAssumption DEF Size
    <2>2. BufferOf(mem) \in [0..Size - 1 -> Bytes]
        BY BufferOfType DEF TypeOK, Block
    <2>3. \A i \in 0..Done' - 1 : BufferOf(mem')[i] = abuf[i]
        BY <1>2, <1>3, <1>7, <2>1, <2>2 DEF Reading
    <2>4. (\A i \in 0..Done - 1 : BufferOf(mem)[i] = abuf[i])'
        BY <1>1, <2>3 DEF ard
    <2>5. \/ apc = "send" /\ n = Done' /\ offer = <<>>
          \/ /\ apc = "put" /\ n = Done' + 1 /\ after = Then(n) /\ offer = <<abuf[Done']>>
        BY <1>2, <1>7, <2>1 DEF Then
    <2>6. Then(n)' = Then(n) /\ UNCHANGED <<n, apc, after, abuf>>
        BY <1>1 DEF Then, ard
    <2>7. Reading'
        BY <1>1, <1>2, <2>1, <2>4, <2>5, <2>6 DEF Reading, Quiet
    <2> QED BY <1>5, <1>6, <2>7 DEF Phase
<1>8. CASE Done + 1 = Size
    <2>1. hpc' = "idle" /\ bufhi' = Buf
        BY <1>4, <1>8, PAssumption DEF Size
    <2>2. apc = "loop" /\ offer = <<>> /\ toArd = <<>>
        BY <1>2, <1>8 DEF Then, Reading
    <2>3. Idle'
        BY <1>1, <2>1, <2>2 DEF Idle, Quiet, ard
    <2> QED BY <1>5, <1>6, <2>3 DEF Phase
<1> QED BY <1>4, <1>7, <1>8

LEMMA InitIInv == Init => IInv
<1> SUFFICES ASSUME Init PROVE IInv
    OBVIOUS
<1>1. /\ toArd = <<>> /\ toHost = <<>> /\ offer = <<>>
      /\ hpc = "idle" /\ k = 0 /\ y = 0 /\ uppage = 0 /\ bufhi = Buf /\ result = "none"
      /\ apc = "loop" /\ acmd = 0 /\ args = <<>> /\ n = 0 /\ after = "loop"
      /\ abuf = Zeros /\ vol \in Volumes /\ served = "none"
    BY DEF Init, Port!Init
<1>2. req \in Requests
    BY RequestsAssumption DEF Init
<1>3. mem \in [Addresses -> Bytes]
    <2>1. PICK b \in Contents : mem = Load([a \in Addresses |-> Magic], b)
        BY DEF Init
    <2>2. [a \in Addresses |-> Magic] \in [Addresses -> Bytes]
        BY DEF Magic, Bytes
    <2> QED BY <2>1, <2>2, LoadFacts, ContentsAssumption
<1>4. Zeros \in Block
    BY DEF Zeros, Block, Bytes
<1>5. disk \in [Drives -> Block]
    BY ContentsAssumption DEF Init
<1>6. TypeOK
    BY <1>1, <1>2, <1>3, <1>4, <1>5, PAssumption DEF TypeOK, Bytes, Size
<1>7. Idle
    BY <1>1 DEF Idle, Quiet
<1>8. Loaded
    BY <1>1 DEF Loaded
<1> QED BY <1>6, <1>7, <1>8 DEF IInv, Phase

\* RESET gives the two programs up wherever they are.
LEMMA StepReset ==
    ASSUME IInv, Reset
    PROVE  IInv'
<1> USE DEF IInv
<1>1. /\ toArd' = <<>> /\ toHost' = <<>> /\ offer' = <<>>
      /\ hpc' = "idle" /\ k' = 0 /\ y' = 0 /\ uppage' = 0 /\ bufhi' = Buf
      /\ result' = "none"
      /\ apc' = "loop" /\ acmd' = 0 /\ args' = <<>> /\ n' = 0 /\ after' = "loop"
      /\ abuf' = Zeros /\ vol' \in Volumes /\ served' = "none"
      /\ UNCHANGED <<req, mem, disk>>
    BY DEF Reset, Port!Restart
<1>2. Zeros \in Block
    BY DEF Zeros, Block, Bytes
<1>3. TypeOK'
    BY <1>1, <1>2, PAssumption DEF TypeOK, Bytes, Size
<1>4. Idle'
    BY <1>1 DEF Idle, Quiet
<1>5. Loaded'
    BY <1>1 DEF Loaded
<1> QED BY <1>3, <1>4, <1>5 DEF Phase

LEMMA StepStart ==
    ASSUME IInv, NEW r \in Requests, NEW b \in Contents, Start(r, b)
    PROVE  IInv'
<1> USE DEF IInv
<1>1. Idle
    BY DEF Start, Phase, Waits, Woken, Collects, Executes, Answers, Answered, Ahead,
       Refuses, Drops, Stuck, Reading, Writing, Written, Calling
<1>2. /\ hpc' = "comsend" /\ req' = r /\ k' = 0 /\ mem' = Load(mem, b)
      /\ result' = "none" /\ served' = "none"
      /\ toArd' = <<>> /\ toHost' = <<>> /\ offer' = <<>>
      /\ UNCHANGED <<y, uppage, bufhi>> /\ UNCHANGED ard
    BY <1>1 DEF Start, Idle, Quiet, Port!Clear, port
<1>3. mem' \in [Addresses -> Bytes]
    BY <1>2, LoadFacts, ContentsAssumption DEF TypeOK
<1>4. TypeOK'
    BY <1>2, <1>3 DEF TypeOK, ard
<1>5. Calling' /\ Quiet'
    BY <1>1, <1>2 DEF Calling, Idle, Quiet
<1>6. Waits'
    BY <1>1, <1>2, <1>5 DEF Waits, Idle, Taken, ard
<1>7. Loaded'
    BY <1>2 DEF Loaded
<1> QED BY <1>4, <1>6, <1>7 DEF Phase

-----------------------------------------------------------------------------
(* The steps of the sketch. *)

\* A byte of the command that the sketch finds in the port is the next one.
LEMMA TakeFacts ==
    ASSUME TypeOK, Calling, NEW b \in Bytes, toArd = <<b>>, toArd' = <<>>,
           UNCHANGED <<toHost, offer, host>>
    PROVE  /\ Taken = k /\ k \in 0..6 /\ b = Field(k) /\ bufhi = Buf
           /\ Calling' /\ Taken' = k + 1
<1>1. toArd # <<>>
    OBVIOUS
<1>2. hpc = "combyte2" /\ k \in 0..6 /\ b = Field(k) /\ bufhi = Buf
    BY <1>1 DEF Calling
<1> QED BY <1>1, <1>2 DEF Calling, Taken, host

LEMMA StepLoopByte ==
    ASSUME IInv, NEW b \in Bytes, LoopByte(b)
    PROVE  IInv'
<1> USE DEF IInv
<1>1. /\ apc = "loop" /\ toArd = <<b>> /\ toArd' = <<>>
      /\ apc' = IF b = Magic THEN "cmd" ELSE "loop"
      /\ UNCHANGED <<toHost, offer, host, acmd, args, n, after, abuf, vol, disk, served>>
    BY DEF LoopByte, Port!ArdTake
<1>2. toArd # <<>>
    BY <1>1
<1>3. Waits \/ Drops
    BY <1>1, <1>2 DEF Phase, Idle, Woken, Collects, Executes, Answers, Answered, Ahead,
       Refuses, Stuck, Reading, Writing, Written, Taken, Calling
<1>4. Calling
    BY <1>3 DEF Waits, Drops
<1>5. Taken = k /\ k \in 0..6 /\ b = Field(k) /\ bufhi = Buf /\ Calling' /\ Taken' = k + 1
    BY <1>1, <1>4, TakeFacts
<1>6. TypeOK'
    BY <1>1 DEF TypeOK, host
<1>7. Loaded'
    BY <1>1 DEF Loaded, host
<1>8. CASE Waits
    <2>1. b = Magic
        BY <1>5, <1>8, FieldFacts DEF Waits
    <2>2. Woken'
        BY <1>1, <1>5, <1>8, <2>1 DEF Waits, Woken, Quiet
    <2> QED BY <1>6, <1>7, <2>2 DEF Phase
<1>9. CASE Drops
    <2>1. b # Magic
        BY <1>5, <1>9, FieldFacts DEF Drops
    <2>2. Drops'
        BY <1>1, <1>5, <1>9, <2>1 DEF Drops, host
    <2> QED BY <1>6, <1>7, <2>2 DEF Phase
<1> QED BY <1>3, <1>8, <1>9

LEMMA StepCmdByte ==
    ASSUME IInv, NEW b \in Bytes, CmdByte(b)
    PROVE  IInv'
<1> USE DEF IInv
<1>1. /\ apc = "cmd" /\ toArd = <<b>> /\ toArd' = <<>>
      /\ acmd' = b /\ args' = <<>> /\ abuf' = Zeros
      /\ apc' = IF b \in 0..7 \cup {141, 160} THEN "args" ELSE "default"
      /\ UNCHANGED <<toHost, offer, host, n, after, vol, disk, served>>
    BY DEF CmdByte, Port!ArdTake
<1>2. Woken
    BY <1>1 DEF Phase, Idle, Waits, Collects, Executes, Answers, Answered, Ahead,
       Refuses, Drops, Stuck, Reading, Then, Writing, Written, Answer
<1>3. Taken = k /\ b = Field(k) /\ bufhi = Buf /\ Calling' /\ Taken' = k + 1 /\ k = 1
    BY <1>1, <1>2, TakeFacts DEF Woken
<1>4. b = req.cmd
    BY <1>3, FieldFacts
<1>5. Zeros \in Block
    BY DEF Zeros, Block, Bytes
<1>6. TypeOK'
    BY <1>1, <1>5 DEF TypeOK, host
<1>7. served' = "none" /\ Quiet' /\ Taken' = 2
    BY <1>1, <1>2, <1>3 DEF Woken, Quiet
<1>8. Loaded'
    BY <1>7 DEF Loaded
<1>9. CASE req.cmd = 9
    <2>1. apc' = "default"
        BY <1>1, <1>4, <1>9
    <2>2. Refuses'
        BY <1>1, <1>3, <1>7, <1>9, <2>1 DEF Refuses, Quiet, host
    <2> QED BY <1>6, <1>8, <2>2 DEF Phase
<1>10. CASE req.cmd # 9
    <2>1. apc' = "args"
        BY <1>1, <1>4, <1>10, RequestFacts
    <2>2. Collected(0)' /\ Taken' - 2 = 0
        BY <1>1, <1>4, <1>7, <1>10 DEF Collected, host
    <2>3. Collects'
        BY <1>3, <1>7, <2>1, <2>2 DEF Collects
    <2> QED BY <1>6, <1>8, <2>3 DEF Phase
<1> QED BY <1>9, <1>10

LEMMA StepArgByte ==
    ASSUME IInv, NEW b \in Bytes, ArgByte(b)
    PROVE  IInv'
<1> USE DEF IInv
<1>1. /\ apc = "args" /\ toArd = <<b>> /\ toArd' = <<>>
      /\ args' = Append(args, b) /\ apc' = IF Len(args') = 5 THEN "exec" ELSE "args"
      /\ UNCHANGED <<toHost, offer, host, acmd, n, after, abuf, vol, disk, served>>
    BY DEF ArgByte, Port!ArdTake
<1>2. Collects
    BY <1>1 DEF Phase, Idle, Waits, Woken, Executes, Answers, Answered, Ahead,
       Refuses, Drops, Stuck, Reading, Then, Writing, Written, Answer
<1>3. /\ Taken = k /\ b = Field(k) /\ bufhi = Buf /\ Calling' /\ Taken' = k + 1
      /\ k \in 2..6
    BY <1>1, <1>2, TakeFacts DEF Collects
<1>4. b = Arguments[k - 1]
    BY <1>3, FieldFacts
<1>5. Len(args) = k - 2 /\ args \in Seq(Bytes)
    BY <1>2, <1>3 DEF Collects, Collected, TypeOK
<1>6. args' \in Seq(Bytes) /\ Len(args') = k - 1
    BY <1>1, <1>3, <1>5
<1>7. \A i \in 1..k - 1 : args'[i] = IF i = k - 1 THEN b ELSE args[i]
    BY <1>1, <1>3, <1>5
<1>8. Collected(k - 1)'
    <2>1. Arguments' = Arguments
        BY <1>1 DEF Arguments, host
    <2>2. \A i \in 1..k - 2 : args[i] = Arguments[i]
        BY <1>2, <1>3 DEF Collects, Collected
    <2>3. \A i \in 1..k - 1 : args'[i] = Arguments[i]
        BY <1>3, <1>4, <1>7, <2>2
    <2>4. k' = k
        BY <1>1 DEF host
    <2> QED BY <1>1, <1>2, <1>6, <2>1, <2>3, <2>4 DEF Collects, Collected, host
<1>9. TypeOK'
    BY <1>1, <1>3, <1>6 DEF TypeOK, host
<1>10. Loaded'
    BY <1>1 DEF Loaded, host
<1>11. CASE k = 6
    <2>1. apc' = "exec" /\ Taken' = 7 /\ Collected(5)'
        BY <1>1, <1>3, <1>6, <1>8, <1>11 DEF host
    <2>2. Executes'
        BY <1>1, <1>2, <1>3, <2>1 DEF Collects, Executes, Quiet
    <2> QED BY <1>9, <1>10, <2>2 DEF Phase
<1>12. CASE k # 6
    <2>1. apc' = "args" /\ Taken' \in 2..6
        BY <1>1, <1>3, <1>6, <1>12
    <2>2. Collected(Taken - 2)'
        BY <1>1, <1>3, <1>8 DEF host
    <2>3. Collects'
        BY <1>1, <1>2, <1>3, <2>1, <2>2 DEF Collects, Quiet
    <2> QED BY <1>9, <1>10, <2>3 DEF Phase
<1> QED BY <1>11, <1>12

\* do_command() answers: the handler of the command the Apple sent, with the
\* arguments it sent, has the status byte in its hands.
LEMMA ExecuteFacts ==
    ASSUME IInv, apc = "exec"
    PROVE  /\ Executes /\ acmd = req.cmd /\ req.cmd # 9 /\ served = "none"
           /\ args[1] = req.unit /\ args[4] = req.vol[0] /\ args[5] = req.vol[1]
<1>1. Executes
    BY DEF IInv, Phase, Idle, Waits, Woken, Collects, Answers, Answered, Ahead,
       Refuses, Drops, Stuck, Reading, Then, Writing, Written, Answer
<1>2. /\ Arguments[1] = req.unit /\ Arguments[4] = req.vol[0] /\ Arguments[5] = req.vol[1]
    BY DEF Arguments
<1> QED BY <1>1, <1>2 DEF Executes, Collected

LEMMA ReplyFacts ==
    ASSUME IInv, apc = "exec", NEW st \in {0, IOErr, NoDev}, NEW next, Reply(st, next),
           abuf' \in Block, vol' \in Volumes, disk' \in [Drives -> Block],
           served' \in {"ok", "error", "none"},
           \/ st # 0 /\ req.cmd \in 0..3 /\ served' = "error" /\ next = "loop"
           \/ st = 0 /\ req.cmd \in {0, 3, 4} /\ served' = "ok" /\ next = "loop"
           \/ st = 0 /\ req.cmd \in SendsBlock /\ served' = "ok" /\ next = "send"
           \/ st = 0 /\ req.cmd = 2 /\ served' = "none" /\ next = "recv",
           Loaded'
    PROVE  IInv'
<1> USE DEF IInv
<1>1. Executes
    BY ExecuteFacts
<1>2. /\ apc' = "put" /\ after' = next /\ n' = 0
      /\ offer' = <<st>> /\ UNCHANGED <<toArd, toHost, host, acmd, args>>
    BY DEF Reply, Port!ArdOffer
<1>3. TypeOK'
    <2>1. st \in Bytes /\ next \in {"loop", "send", "recv"} /\ n' \in 0..Size
        BY <1>2, PAssumption DEF Bytes, IOErr, NoDev, Size
    <2>2. \A box \in {toArd', toHost', offer'} : box = <<>> \/ \E b \in Bytes : box = <<b>>
        BY <1>2, <2>1 DEF TypeOK
    <2> QED BY <1>2, <2>1, <2>2 DEF TypeOK, host
<1>4. Calling' /\ Taken' = Taken /\ Collected(5)' = Collected(5)
    BY <1>1, <1>2 DEF Executes, Calling, Taken, Collected, Arguments, Field, host
<1>5. Answer(st)'
    BY <1>2 DEF Answer, SendsBlock, host
<1>6. Answers'
    BY <1>1, <1>2, <1>4, <1>5 DEF Executes, Quiet, Answers
<1> QED BY <1>3, <1>6 DEF Phase

LEMMA StepUnknown ==
    ASSUME IInv, Unknown
    PROVE  IInv'
<1> USE DEF IInv
<1>1. /\ apc = "default" /\ apc' = "put" /\ after' = "loop" /\ n' = 0
      /\ offer' = <<IOErr>> /\ served' = "error"
      /\ UNCHANGED <<toArd, toHost, host, acmd, args, abuf, vol, disk>>
    BY DEF Unknown, Reply, Port!ArdOffer
<1>2. Refuses
    BY <1>1 DEF Phase, Idle, Waits, Woken, Collects, Executes, Answers, Answered, Ahead,
       Drops, Stuck, Reading, Then, Writing, Written, Answer
<1>3. TypeOK'
    BY <1>1, PAssumption DEF TypeOK, host, Bytes, IOErr, Size
<1>4. Calling' /\ Taken' = Taken
    BY <1>1, <1>2 DEF Refuses, Calling, Taken, Field, host
<1>5. Refuses'
    BY <1>1, <1>2, <1>4 DEF Refuses, host
<1>6. Loaded'
    BY <1>1 DEF Loaded
<1> QED BY <1>3, <1>5, <1>6 DEF Phase

LEMMA StepNoBlock ==
    ASSUME IInv, NoDevice \/ DoStatus \/ DoFormat \/ DoReadFails \/ DoWrite
    PROVE  IInv'
<1>1. apc = "exec" /\ UNCHANGED <<abuf, vol, disk>>
    BY DEF NoDevice, DoStatus, DoFormat, DoReadFails, DoWrite
<1>2. abuf' \in Block /\ vol' \in Volumes /\ disk' \in [Drives -> Block]
    BY <1>1 DEF IInv, TypeOK
<1>3. acmd = req.cmd /\ served = "none" /\ UNCHANGED req
    BY <1>1, ExecuteFacts DEF NoDevice, DoStatus, DoFormat, DoReadFails, DoWrite, Reply, host
<1>4. CASE NoDevice
    <2>1. Loaded'
        BY <1>4 DEF NoDevice, Loaded
    <2> QED BY <1>1, <1>2, <1>3, <1>4, <2>1, ReplyFacts DEF NoDevice, NoDev
<1>5. CASE DoStatus
    <2>1. Loaded'
        BY <1>3, <1>5 DEF DoStatus, Loaded
    <2> QED BY <1>1, <1>2, <1>3, <1>5, <2>1, ReplyFacts DEF DoStatus
<1>6. CASE DoFormat
    <2>1. Loaded'
        BY <1>3, <1>6 DEF DoFormat, Loaded
    <2> QED BY <1>1, <1>2, <1>3, <1>6, <2>1, ReplyFacts DEF DoFormat
<1>7. CASE DoReadFails
    <2>1. Loaded'
        BY <1>7 DEF DoReadFails, Loaded
    <2> QED BY <1>1, <1>2, <1>3, <1>7, <2>1, ReplyFacts DEF DoReadFails, IOErr
<1>8. CASE DoWrite
    <2>1. served' = "none"
        BY <1>3, <1>8 DEF DoWrite
    <2>2. Loaded'
        BY <2>1 DEF Loaded
    <2> QED BY <1>1, <1>2, <1>3, <1>8, <2>1, <2>2, ReplyFacts DEF DoWrite
<1> QED BY <1>4, <1>5, <1>6, <1>7, <1>8

LEMMA StepDoRead ==
    ASSUME IInv, DoRead
    PROVE  IInv'
<1>1. apc = "exec" /\ acmd = 1 /\ Reply(0, "send") /\ served' = "ok"
    BY DEF DoRead
<1>2. req.cmd = 1 /\ UNCHANGED req
    BY <1>1, ExecuteFacts DEF Reply, host
<1>3. Drive \in Drives
    BY DEF Drive, DriveOf, Drives
<1>4. abuf' \in Block /\ vol' \in Volumes /\ disk' \in [Drives -> Block]
    BY <1>3 DEF DoRead, IInv, TypeOK
<1>5. Loaded'
    BY <1>2 DEF Loaded
<1> QED BY <1>1, <1>2, <1>4, <1>5, ReplyFacts DEF SendsBlock

\* What the file numbers of a request become (do_set_volume).
LEMMA StepDoSetVolume ==
    ASSUME IInv, DoSetVolume
    PROVE  IInv' /\ vol' = req.vol
<1>1. apc = "exec" /\ acmd \in {4, 6, 7} /\ Reply(0, IF acmd = 4 THEN "loop" ELSE "send")
        /\ served' = "ok"
    BY DEF DoSetVolume
<1>2. acmd = req.cmd /\ UNCHANGED req
    BY <1>1, ExecuteFacts DEF Reply, host
<1>3. vol' = req.vol
    <2>1. req.vol \in [Drives -> Bytes]
        BY RequestFacts DEF IInv
    <2>2. req.vol = [d \in Drives |-> req.vol[d]]
        BY <2>1
    <2>3. \A d \in Drives : args[4 + d] = req.vol[d]
        BY <1>1, ExecuteFacts DEF Drives
    <2> QED BY <2>2, <2>3 DEF DoSetVolume
<1>4. vol' \in Volumes
    BY <1>3, RequestFacts DEF IInv
<1>5. abuf' \in Block
    BY DEF DoSetVolume, Zeros, Block, Bytes
<1>6. disk' \in [Drives -> Block]
    BY ContentsAssumption DEF DoSetVolume
<1>7. Loaded'
    BY <1>1, <1>2, <1>3 DEF Loaded
<1>8. IInv'
    <2>1. CASE acmd = 4
        BY <1>1, <1>2, <1>4, <1>5, <1>6, <1>7, <2>1, ReplyFacts
    <2>2. CASE acmd # 4
        BY <1>1, <1>2, <1>4, <1>5, <1>6, <1>7, <2>2, ReplyFacts DEF SendsBlock
    <2> QED BY <2>1, <2>2
<1> QED BY <1>3, <1>8

LEMMA StepDoGetVolume ==
    ASSUME IInv, DoGetVolume
    PROVE  IInv'
<1>1. /\ apc = "exec" /\ acmd = 5 /\ Reply(0, "send") /\ served' = "ok"
      /\ abuf' = [i \in 0..Size - 1 |-> IF i \in Drives THEN vol[i] ELSE 0]
      /\ UNCHANGED <<vol, disk>>
    BY DEF DoGetVolume
<1>2. req.cmd = 5 /\ UNCHANGED req
    BY <1>1, ExecuteFacts DEF Reply, host
<1>3. vol \in [Drives -> Bytes]
    BY VolumesAssumption DEF IInv, TypeOK
<1>4. abuf' \in Block /\ vol' \in Volumes /\ disk' \in [Drives -> Block]
    BY <1>1, <1>3 DEF Block, Bytes, IInv, TypeOK
<1>5. \A d \in Drives : d \in 0..Size - 1 /\ abuf'[d] = vol'[d]
    BY <1>1, PAssumption DEF Drives, Size
<1>6. Loaded'
    BY <1>2, <1>5 DEF Loaded
<1> QED BY <1>1, <1>2, <1>4, <1>6, ReplyFacts DEF SendsBlock

\* Whatever block is asked for, the first of the table is sent: the table is shorter
\* than a block (do_send_bootblock).
LEMMA StepDoSendBootblock ==
    ASSUME IInv, DoSendBootblock
    PROVE  IInv'
<1> DEFINE from == BootFrom(args[4] + 256 * args[5]) * Size
<1>1. /\ apc = "exec" /\ acmd \in {141, 160} /\ Reply(0, "send") /\ served' = "ok"
      /\ abuf' = [i \in 0..Size - 1 |-> Flash[(from + i) % (4 * Size)]]
      /\ UNCHANGED <<vol, disk>>
    BY DEF DoSendBootblock
<1>2. req.cmd = 160 /\ UNCHANGED req
    BY <1>1, ExecuteFacts, RequestFacts DEF Reply, host, IInv
<1>3. args[4] \in Nat /\ args[5] \in Nat
    <2>1. args[4] = req.vol[0] /\ args[5] = req.vol[1]
        BY <1>1, ExecuteFacts
    <2>2. req.vol[0] \in Bytes /\ req.vol[1] \in Bytes
        BY RequestFacts DEF IInv
    <2> QED BY <2>1, <2>2 DEF Bytes
<1>4. Len(bootblocks) \in 0..Size - 1 /\ Size \in Nat
    BY BootAssumption, PAssumption DEF Size
<1>5. NumberBootblocks = 0
    BY <1>4 DEF NumberBootblocks
<1>6. from = 0
    BY <1>3, <1>4, <1>5 DEF BootFrom
<1> HIDE DEF from
<1>7. \A i \in 0..Size - 1 : (from + i) % (4 * Size) = i /\ i \in 0..4 * Size - 1
    BY <1>4, <1>6
<1>8. abuf' \in Block
    BY <1>1, <1>7, BootAssumption DEF Block
<1>9. \A i \in 1..Len(bootblocks) : abuf'[i - 1] = bootblocks[i]
    BY <1>1, <1>4, <1>7, BootAssumption
<1>10. Loaded'
    BY <1>2, <1>9 DEF Loaded
<1>11. vol' \in Volumes /\ disk' \in [Drives -> Block]
    BY <1>1 DEF IInv, TypeOK
<1> QED BY <1>1, <1>2, <1>8, <1>10, <1>11, ReplyFacts DEF SendsBlock

\* write_dataport(): the byte in the sketch's hands goes into the port.
LEMMA StepPut ==
    ASSUME IInv, Put
    PROVE  IInv'
<1> USE DEF IInv
<1>1. /\ apc = "put" /\ apc' = after /\ toHost = <<>> /\ toHost' = offer
      /\ offer # <<>> /\ offer' = <<>>
      /\ UNCHANGED <<toArd, host, acmd, args, n, after, abuf, vol, disk, served>>
    BY DEF Put, Port!ArdPut
<1>2. Answers \/ Refuses \/ Reading
    BY <1>1 DEF Phase, Idle, Waits, Woken, Collects, Executes, Answered, Ahead,
       Drops, Stuck, Writing, Written, Answer
<1>3. TypeOK'
    BY <1>1 DEF TypeOK, host
<1>4. Loaded'
    BY <1>1, LoadedKept DEF host
<1>5. /\ Calling' = Calling /\ Taken' = Taken /\ Collected(5)' = Collected(5)
      /\ Done' = Done /\ BufferOf(mem)' = BufferOf(mem)
    BY <1>1 DEF Calling, Taken, Collected, Arguments, Field, Done, BufferOf, host
<1>6. CASE Answers
    <2>1. PICK st \in {0, IOErr, NoDev} : offer = <<st>> /\ Answer(st)
        BY <1>6 DEF Answers
    <2>2. Answer(st)' = Answer(st)
        BY <1>1 DEF Answer, host
    <2>3. Answered'
        BY <1>1, <1>5, <1>6, <2>1, <2>2 DEF Answers, Answered
    <2> QED BY <1>3, <1>4, <2>3 DEF Phase
<1>7. CASE Refuses
    <2>1. Drops'
        BY <1>1, <1>5, <1>7 DEF Refuses, Drops, host
    <2> QED BY <1>3, <1>4, <2>1 DEF Phase
<1>8. CASE Reading
    <2>1. n = Done + 1 /\ after = Then(n) /\ offer = <<abuf[Done]>>
        BY <1>1, <1>8 DEF Reading, Quiet, Then
    <2>2. Then(n)' = Then(n)
        BY <1>1 DEF Then
    <2>3. (\A i \in 0..Done - 1 : BufferOf(mem)[i] = abuf[i])'
        BY <1>1, <1>5, <1>8 DEF Reading
    <2>4. Reading'
        BY <1>1, <1>5, <1>8, <2>1, <2>2, <2>3 DEF Reading, host
    <2> QED BY <1>3, <1>4, <2>4 DEF Phase
<1> QED BY <1>2, <1>6, <1>7, <1>8

\* The loop that sends a block is at most two bytes ahead of the driver.
LEMMA StepSendByte ==
    ASSUME IInv, SendByte
    PROVE  IInv'
<1> USE DEF IInv
<1>1. /\ apc = "send" /\ apc' = "put" /\ offer = <<>> /\ offer' = <<abuf[n]>>
      /\ n' = n + 1 /\ after' = Then(n')
      /\ UNCHANGED <<toArd, toHost, host, acmd, args, abuf, vol, disk, served>>
    BY DEF SendByte, Port!ArdOffer, Then
<1>2. Answered \/ Reading
    BY <1>1 DEF Phase, Idle, Waits, Woken, Collects, Executes, Answers, Ahead,
       Refuses, Drops, Stuck, Writing, Written
<1>3. /\ Calling' = Calling /\ Taken' = Taken /\ Collected(5)' = Collected(5)
      /\ Done' = Done /\ BufferOf(mem)' = BufferOf(mem)
    BY <1>1 DEF Calling, Taken, Collected, Arguments, Field, Done, BufferOf, host
<1>4. Loaded'
    BY <1>1, LoadedKept DEF host
<1>5. ASSUME n \in 0..Size - 1 PROVE TypeOK'
    <2>1. abuf[n] \in Bytes /\ n' \in 0..Size /\ after' \in {"loop", "send", "recv"}
        BY <1>1, <1>5, PAssumption DEF TypeOK, Block, Then, Size
    <2>2. \A box \in {toArd', toHost', offer'} : box = <<>> \/ \E b \in Bytes : box = <<b>>
        BY <1>1, <2>1 DEF TypeOK
    <2> QED BY <1>1, <2>1, <2>2 DEF TypeOK, host
<1>6. CASE Answered
    <2>1. n = 0 /\ Then(1) = "send" /\ n \in 0..Size - 1
        BY <1>6, PAssumption DEF Answered, Then, Size
    <2>2. toHost = <<0>> /\ served = "ok" /\ req.cmd \in SendsBlock
        BY <1>1, <1>6 DEF Answered, Answer
    <2>3. Ahead'
        BY <1>1, <1>3, <1>6, <2>1, <2>2 DEF Answered, Ahead, host
    <2> QED BY <1>4, <1>5, <2>1, <2>3 DEF Phase
<1>7. CASE Reading
    <2>1. Done \in 0..Size - 1 /\ Size \in Nat
        BY <1>7, PointerIs, PAssumption DEF Reading, Size
    <2>2. \/ n = Done /\ toHost = <<>>
          \/ n = Done + 1 /\ n # Size /\ toHost = <<abuf[Done]>>
        BY <1>1, <1>7 DEF Reading, Quiet, Then
    <2>3. n \in 0..Size - 1
        BY <2>1, <2>2
    <2>4. (\A i \in 0..Done - 1 : BufferOf(mem)[i] = abuf[i])'
        BY <1>1, <1>3, <1>7 DEF Reading
    <2>5. after' = Then(n)'
        BY <1>1 DEF Then
    <2>6. \/ n' = Done + 1 /\ toHost' = <<>> /\ offer' = <<abuf[Done]>>
          \/ /\ n' = Done + 2 /\ n' <= Size
             /\ toHost' = <<abuf[Done]>> /\ offer' = <<abuf[Done + 1]>>
        BY <1>1, <2>1, <2>2
    <2>7. Reading'
        BY <1>1, <1>3, <1>7, <2>4, <2>5, <2>6 DEF Reading, host
    <2> QED BY <1>4, <1>5, <2>3, <2>7 DEF Phase
<1> QED BY <1>2, <1>6, <1>7

\* The byte the sketch takes while a block arrives is the next one of the buffer.
LEMMA ReceiveFacts ==
    ASSUME IInv, NEW b \in Bytes, ReceiveByte(b)
    PROVE  /\ Writing /\ hpc = "waitwrite" /\ n = Done /\ n \in 0..Size - 1
           /\ b = BufferOf(mem)[n]
           /\ Handed'
<1>1. /\ apc = "recv" /\ toArd = <<b>> /\ toArd # <<>>
      /\ abuf' = [abuf EXCEPT ![n] = b] /\ n' = n + 1 /\ UNCHANGED host
    BY DEF ReceiveByte, Port!ArdTake
<1>2. Writing
    BY <1>1 DEF IInv, Phase, Idle, Waits, Woken, Collects, Executes, Answers, Answered, Ahead,
       Refuses, Drops, Stuck, Reading, Then, Written, Answer, Taken, Calling
<1>3. hpc = "waitwrite" /\ n = Done /\ b = BufferOf(mem)[n]
    BY <1>1, <1>2 DEF Writing
<1>4. n \in 0..Size - 1 /\ Size \in Nat
    BY <1>2, <1>3, PointerIs, PAssumption DEF Writing, IInv, Size
<1>5. abuf \in [0..Size - 1 -> Bytes]
    BY DEF IInv, TypeOK, Block
<1>6. \A i \in 0..n' - 1 : abuf'[i] = BufferOf(mem)[i]
    BY <1>1, <1>2, <1>3, <1>4, <1>5 DEF Writing, Handed
<1>7. BufferOf(mem)' = BufferOf(mem)
    BY <1>1 DEF BufferOf, host
<1> QED BY <1>1, <1>2, <1>3, <1>4, <1>6, <1>7 DEF Handed

LEMMA StepReceiveByte ==
    ASSUME IInv, NEW b \in Bytes, ReceiveByte(b)
    PROVE  IInv'
<1> USE DEF IInv
<1>1. /\ apc = "recv" /\ toArd' = <<>>
      /\ abuf' = [abuf EXCEPT ![n] = b] /\ n' = n + 1
      /\ IF n' = Size THEN apc' = "store" /\ served' = "ok" ELSE UNCHANGED <<apc, served>>
      /\ UNCHANGED <<toHost, offer, host, acmd, args, after, vol, disk>>
    BY DEF ReceiveByte, Port!ArdTake
<1>2. /\ Writing /\ hpc = "waitwrite" /\ n = Done /\ n \in 0..Size - 1
      /\ Handed'
    BY ReceiveFacts
<1>3. abuf' \in Block
    BY <1>1 DEF TypeOK, Block
<1>4. TypeOK'
    BY <1>1, <1>2, <1>3, PAssumption DEF TypeOK, host, Size
<1>5. Loaded'
    BY <1>1, <1>2 DEF Loaded, Writing, host
<1>6. Done' = Done /\ Collected(5)' = Collected(5) /\ BufferOf(mem)' = BufferOf(mem)
    BY <1>1 DEF Done, Collected, Arguments, BufferOf, host
<1>7. CASE n' = Size
    <2>1. y = P - 1 /\ uppage = 1
        BY <1>1, <1>2, <1>7, PAssumption DEF Done, Writing, Size, TypeOK
    <2>2. Written'
        BY <1>1, <1>2, <1>7, <2>1 DEF Writing, Written, Quiet, host, Buf
    <2> QED BY <1>4, <1>5, <2>2 DEF Phase
<1>8. CASE n' # Size
    <2>1. n' = Done' + 1 /\ n' < Size
        BY <1>1, <1>2, <1>6, <1>8, PAssumption DEF Size
    <2>2. Writing'
        BY <1>1, <1>2, <1>6, <1>8, <2>1 DEF Writing, Quiet, host
    <2> QED BY <1>4, <1>5, <2>2 DEF Phase
<1> QED BY <1>7, <1>8

LEMMA StepStore ==
    ASSUME IInv, Store
    PROVE  IInv'
<1> USE DEF IInv
<1>1. /\ apc = "store" /\ apc' = "loop" /\ disk' \in {disk, [disk EXCEPT ![Drive] = abuf]}
      /\ UNCHANGED <<toArd, toHost, offer, host, acmd, args, n, after, abuf, vol, served>>
    BY DEF Store, port
<1>2. Idle \/ Waits \/ Written
    BY <1>1 DEF Phase, Woken, Collects, Executes, Answers, Answered, Ahead,
       Refuses, Drops, Stuck, Reading, Then, Writing, Answer
<1>3. disk' \in [Drives -> Block]
    BY <1>1 DEF TypeOK
<1>4. TypeOK'
    BY <1>1, <1>3 DEF TypeOK, host
<1>5. Loaded'
    BY <1>1, LoadedKept DEF host
<1>6. Calling' = Calling /\ Taken' = Taken
    BY <1>1 DEF Calling, Taken, Field, host
<1>7. Idle' \/ Waits' \/ Written'
    BY <1>1, <1>2, <1>6 DEF Idle, Waits, Written, Quiet, host
<1> QED BY <1>4, <1>5, <1>7 DEF Phase

-----------------------------------------------------------------------------
(* The invariant, and what follows from it. *)

LEMMA NextIInv ==
    ASSUME IInv, [Next]_vars
    PROVE  IInv'
<1>1. ASSUME NEW b \in Bytes, WaitResult(b) \/ ReadBytes(b) PROVE IInv'
    BY <1>1, StepWaitResult, StepReadBytes
<1>2. ASSUME NEW b \in Bytes, LoopByte(b) \/ CmdByte(b) \/ ArgByte(b) \/ ReceiveByte(b)
      PROVE  IInv'
    BY <1>2, StepLoopByte, StepCmdByte, StepArgByte, StepReceiveByte
<1>3. CASE AppleStep
    BY <1>1, <1>3, StepComSend, StepComByte2, StepWriteBytes, StepWaitWrite DEF AppleStep
<1>4. CASE ArduinoStep
    BY <1>2, <1>4, StepUnknown, StepNoBlock, StepDoRead, StepDoSetVolume, StepDoGetVolume,
       StepDoSendBootblock, StepPut, StepSendByte, StepStore DEF ArduinoStep
<1>5. CASE UNCHANGED vars
    <2>1. TypeOK' /\ Loaded'
        BY <1>5 DEF vars, IInv, TypeOK, Loaded
    <2>2. /\ Calling' = Calling /\ Taken' = Taken /\ Done' = Done /\ Quiet' = Quiet
          /\ BufferOf(mem)' = BufferOf(mem) /\ Collected(5)' = Collected(5)
        BY <1>5 DEF vars, Calling, Taken, Done, Quiet, BufferOf, Collected, Arguments, Field
    <2>3. /\ Idle' = Idle /\ Waits' = Waits /\ Woken' = Woken /\ Refuses' = Refuses
          /\ Drops' = Drops /\ Stuck' = Stuck /\ Written' = Written /\ Executes' = Executes
          /\ Ahead' = Ahead
        BY <1>5, <2>2 DEF vars, Idle, Waits, Woken, Refuses, Drops, Stuck, Written, Executes, Ahead
    <2>4. Collects => Collects'
        BY <1>5, <2>2 DEF vars, Collects, Collected, Arguments
    <2>5. (Answers => Answers') /\ (Answered => Answered')
        BY <1>5, <2>2 DEF vars, Answers, Answered, Answer
    <2>6. (Reading => Reading') /\ (Writing => Writing')
        BY <1>5, <2>2 DEF vars, Reading, Then, Writing, Handed
    <2>7. Phase'
        BY <2>3, <2>4, <2>5, <2>6 DEF IInv, Phase
    <2> QED BY <2>1, <2>7 DEF IInv
<1> QED BY <1>3, <1>4, <1>5, StepReset, StepStart DEF Next

LEMMA Inductive == Spec => []IInv
BY InitIInv, NextIInv, PTL DEF Spec

LEMMA PhaseInSync == IInv => InSync
<1> SUFFICES ASSUME IInv PROVE InSync
    OBVIOUS
<1>1. hpc = "idle" => Idle
    BY DEF IInv, Phase, Waits, Woken, Collects, Executes, Answers, Answered, Ahead,
       Refuses, Drops, Stuck, Reading, Writing, Written, Calling
<1>2. hpc \in {"comsend", "writebytes"} => toArd = <<>>
    BY DEF IInv, Phase, Idle, Waits, Woken, Collects, Executes, Answers, Answered, Ahead,
       Refuses, Drops, Stuck, Reading, Writing, Written, Calling
<1>3. hpc \in {"idle", "writebytes", "waitwrite"} => toHost = <<>>
    BY DEF IInv, Phase, Idle, Waits, Woken, Collects, Executes, Answers, Answered, Ahead,
       Refuses, Drops, Stuck, Reading, Writing, Written, Calling, Quiet
<1> QED BY <1>1, <1>2, <1>3 DEF InSync, IInv, Idle, Quiet

\* The driver and the sketch never disagree on who sends next, whatever is called, with
\* pages of any size and a RESET at any moment: no byte is left over after a call, none
\* is stored over another, and the caller's buffer pointer is what it was.
THEOREM AlwaysInSync == Spec => []InSync
BY PhaseInSync, Inductive, PTL

\* Only a call and a byte taken while a block arrives write the Apple's memory.
LEMMA MemoryChanges ==
    ASSUME IInv, [Next]_vars, mem' # mem
    PROVE  \/ \E r \in Requests, b \in Contents : Start(r, b)
           \/ \E b \in Bytes : ReadBytes(b)
<1>1. ASSUME ArduinoStep PROVE mem' = mem
    BY <1>1 DEF ArduinoStep, LoopByte, CmdByte, ArgByte, ReceiveByte, Unknown, NoDevice, DoStatus,
       DoFormat, DoRead, DoReadFails, DoWrite, DoSetVolume, DoGetVolume, DoSendBootblock, Put,
       SendByte, Store, Reply, host
<1>2. ASSUME AppleStep, ~\E b \in Bytes : ReadBytes(b) PROVE mem' = mem
    BY <1>2 DEF AppleStep, ComSend, ComByte2, WriteBytes, WaitWrite, WaitResult
<1>3. ASSUME Reset \/ UNCHANGED vars PROVE mem' = mem
    BY <1>3 DEF Reset, vars
<1> QED BY <1>1, <1>2, <1>3 DEF Next

LEMMA StepOnlyBuffer ==
    ASSUME IInv, [Next]_vars, NEW a \in Addresses, mem'[a] # mem[a]
    PROVE  InBuffer(a)
<1>1. mem \in [Addresses -> Bytes] /\ mem' # mem
    BY DEF IInv, TypeOK
<1>2. ASSUME NEW r \in Requests, NEW b \in Contents, Start(r, b) PROVE InBuffer(a)
    <2>1. mem' = Load(mem, b)
        BY <1>2 DEF Start
    <2> QED BY <1>1, <2>1, LoadFacts, ContentsAssumption
<1>3. ASSUME NEW b \in Bytes, ReadBytes(b) PROVE InBuffer(a)
    <2>1. mem' = [mem EXCEPT ![Pointer] = b]
        BY <1>3 DEF ReadBytes
    <2>2. a = Pointer
        BY <1>1, <2>1
    <2> QED BY <1>3, <2>2, ReadBytesFacts, PointerIs DEF IInv
<1> QED BY <1>1, <1>2, <1>3, MemoryChanges

\* No call writes outside the 512 bytes of the caller's buffer: for a page of any size,
\* "inc bufhi" and the two loops of readbytes keep the pointer in it.
THEOREM OnlyBufferWritten == Spec => OnlyBuffer
<1>1. IInv /\ [Next]_vars => [\A a \in Addresses : mem'[a] # mem[a] => InBuffer(a)]_vars
    BY StepOnlyBuffer
<1> QED BY <1>1, Inductive, PTL DEF Spec, OnlyBuffer

-----------------------------------------------------------------------------
(* A call returns. *)

\* The status byte ends a call that moves no block: what it says is how the sketch
\* served the call.
LEMMA StatusReturns ==
    ASSUME IInv, NEW b \in Bytes, WaitResult(b), hpc' = "idle"
    PROVE  /\ served \in {"ok", "error"} /\ result' = served
           /\ served = "ok" => req.cmd \notin {1, 3, 5, 6, 7, 9, 160}
           /\ hpc = "waitresult" /\ UNCHANGED <<toArd, offer, req, mem, served, ard>>
<1>1. /\ hpc = "waitresult" /\ toHost = <<b>>
      /\ UNCHANGED <<toArd, offer, req, mem, served, ard>>
    BY DEF WaitResult, Port!HostTake
<1>2. Answered \/ Ahead \/ Drops
    BY <1>1 DEF IInv, Phase, Idle, Waits, Woken, Collects, Executes, Answers, Refuses, Quiet,
       Stuck, Reading, Writing, Written, Taken, Calling
<1>3. req.cmd = 4 \/ b # 0 \/ req.cmd = 0
    BY DEF WaitResult
<1>4. result' = IF req.cmd # 4 /\ b # 0 THEN "error" ELSE "ok"
    BY <1>3 DEF WaitResult
<1>5. CASE Answered
    <2>1. Answer(b)
        BY <1>1, <1>5 DEF Answered
    <2> QED BY <1>1, <1>3, <1>4, <2>1 DEF Answer, IOErr, NoDev, SendsBlock
<1>6. CASE Drops
    <2>1. b = IOErr /\ served = "error" /\ req.cmd = 9
        BY <1>1, <1>6 DEF Drops
    <2> QED BY <1>1, <1>4, <2>1 DEF IOErr
<1>7. CASE Ahead
    BY <1>1, <1>3, <1>7 DEF Ahead, SendsBlock
<1> QED BY <1>2, <1>5, <1>6, <1>7

\* The last byte of a block ends a call that reads one: the buffer is the block.
LEMMA BlockReturns ==
    ASSUME IInv, NEW b \in Bytes, ReadBytes(b), hpc' = "idle"
    PROVE  /\ served = "ok" /\ result' = "ok" /\ req.cmd \in SendsBlock
           /\ BufferOf(mem') = abuf
<1>1. NextByte("readbytes") /\ mem' = [mem EXCEPT ![Pointer] = b]
    BY DEF ReadBytes
<1>2. Reading /\ y < P /\ bufhi = Buf + uppage /\ Done \in 0..Size - 1 /\ b = abuf[Done]
    BY ReadBytesFacts
<1>3. Done + 1 = Size /\ result' = "ok"
    BY <1>1, <1>2, NextByteFacts DEF IInv
<1>4. BufferOf(mem') = [BufferOf(mem) EXCEPT ![Done] = b]
    BY <1>1, <1>2, StoreByte DEF IInv
<1>5. BufferOf(mem) \in [0..Size - 1 -> Bytes] /\ abuf \in [0..Size - 1 -> Bytes]
    BY BufferOfType DEF IInv, TypeOK, Block
<1>6. \A i \in 0..Size - 1 : BufferOf(mem')[i] = abuf[i]
    BY <1>2, <1>3, <1>4, <1>5 DEF Reading
<1>7. BufferOf(mem') = abuf
    <2> DEFINE c == BufferOf(mem')
    <2>1. c \in [0..Size - 1 -> Bytes]
        BY <1>4, <1>5
    <2>2. \A i \in 0..Size - 1 : c[i] = abuf[i]
        BY <1>6
    <2> HIDE DEF c
    <2>3. c = [i \in 0..Size - 1 |-> c[i]] /\ abuf = [i \in 0..Size - 1 |-> abuf[i]]
        BY <1>5, <2>1, Zenon
    <2>4. c = abuf
        BY <2>2, <2>3, Zenon
    <2> QED BY <2>4 DEF c
<1> QED BY <1>2, <1>3, <1>7 DEF Reading

\* A write ends when the sketch has the whole block.
LEMMA WriteReturns ==
    ASSUME IInv, WaitWrite, hpc' = "idle"
    PROVE  Written /\ result' = "ok" /\ UNCHANGED <<toArd, offer, req, mem, served, ard>>
<1>1. /\ hpc = "waitwrite" /\ toArd = <<>> /\ NextByte("writebytes")
      /\ UNCHANGED <<toArd, offer, req, mem, served, ard>>
    BY DEF WaitWrite, port
<1>2. Writing \/ Written
    BY <1>1 DEF IInv, Phase, Idle, Waits, Woken, Collects, Executes, Answers, Answered, Ahead,
       Refuses, Drops, Stuck, Reading, Calling
<1>3. y < P /\ bufhi = Buf + uppage
    BY <1>2, PAssumption DEF Writing, Written
<1>4. Done + 1 = Size /\ result' = "ok"
    BY <1>1, <1>3, NextByteFacts DEF IInv
<1>5. ~Writing
    BY <1>1, <1>4, PAssumption DEF Writing, Size
<1> QED BY <1>1, <1>2, <1>4, <1>5

\* The only steps that end a call.
LEMMA Returns ==
    ASSUME [Next]_vars, hpc # "idle", hpc' = "idle"
    PROVE  \/ Reset
           \/ \E b \in Bytes : WaitResult(b) \/ ReadBytes(b)
           \/ WaitWrite
<1>1. ASSUME ArduinoStep PROVE hpc' = hpc
    BY <1>1 DEF ArduinoStep, LoopByte, CmdByte, ArgByte, ReceiveByte, Unknown, NoDevice, DoStatus,
       DoFormat, DoRead, DoReadFails, DoWrite, DoSetVolume, DoGetVolume, DoSendBootblock, Put,
       SendByte, Store, Reply, host
<1>2. ASSUME AppleStep PROVE \/ \E b \in Bytes : WaitResult(b) \/ ReadBytes(b)
                            \/ WaitWrite
    BY <1>2 DEF AppleStep, ComSend, ComByte2, WriteBytes
<1>3. ASSUME NEW r \in Requests, NEW b \in Contents, Start(r, b) PROVE hpc = "idle"
    BY <1>3 DEF Start
<1> QED BY <1>1, <1>2, <1>3 DEF Next, vars

LEMMA StepAnswersArrive ==
    ASSUME IInv, [Next]_vars, hpc # "idle", hpc' = "idle", result' = "ok"
    PROVE  VolumesCross /\ BootArrives
<1>1. CASE Reset
    BY <1>1 DEF Reset
<1>2. ASSUME NEW b \in Bytes, WaitResult(b) PROVE VolumesCross /\ BootArrives
    <2>1. served = "ok" /\ req.cmd \notin {5, 160}
        BY <1>2, StatusReturns
    <2> QED BY <2>1 DEF VolumesCross, BootArrives, IInv, Loaded
<1>3. ASSUME NEW b \in Bytes, ReadBytes(b) PROVE VolumesCross /\ BootArrives
    <2>1. served = "ok" /\ BufferOf(mem') = abuf
        BY <1>3, BlockReturns
    <2> QED BY <2>1 DEF VolumesCross, BootArrives, IInv, Loaded
<1>4. CASE WaitWrite
    <2>1. req.cmd = 2
        BY <1>4, WriteReturns DEF Written
    <2> QED BY <2>1 DEF VolumesCross, BootArrives
<1> QED BY <1>1, <1>2, <1>3, <1>4, Returns

\* A call that succeeds has moved the right bytes: the file numbers unswapped in both
\* directions, and the whole of the volume selector's program whatever block is asked for.
THEOREM AnswersAlwaysArrive == Spec => AnswersArrive
<1>1. IInv /\ [Next]_vars =>
        [hpc # "idle" /\ hpc' = "idle" /\ result' = "ok" => VolumesCross /\ BootArrives]_vars
    BY StepAnswersArrive
<1> QED BY <1>1, Inductive, PTL DEF Spec, AnswersArrive

-----------------------------------------------------------------------------
(* The refinement.  Every step is a step of the device with posted writes, or *)
(* one that the caller and the media do not see.                              *)

\* What the driver shows of a call.
LEMMA KindFacts ==
    ASSUME NEW r \in Requests
    PROVE  /\ [kind |-> KindOf(r.cmd), drive |-> DriveOf(r.unit)] \in Device!Calls
           /\ r.cmd # 9 => (r.cmd \in SendsBlock <=> KindOf(r.cmd) \in Device!ReturnsBlock)
           /\ r.cmd \in {4, 6, 7} <=> KindOf(r.cmd) \in Device!ChangesMedia
           /\ r.cmd = 1 <=> KindOf(r.cmd) = "read"
           /\ r.cmd = 2 <=> KindOf(r.cmd) = "write"
           /\ r.cmd = 3 <=> KindOf(r.cmd) = "format"
<1>1. DriveOf(r.unit) \in Drives
    BY DEF DriveOf, Drives
<1>2. r.cmd \in {0, 1, 2, 3, 4, 5, 6, 7, 9, 160}
    BY RequestsAssumption
<1> QED BY <1>1, <1>2 DEF KindOf, SendsBlock, Device!Calls, Device!Kinds, Device!ReturnsBlock,
        Device!ChangesMedia

LEMMA ZerosBlock == Zeros \in Block
BY DEF Zeros, Block, Bytes

LEMMA DeviceInit == Init => Device!Init
<1> SUFFICES ASSUME Init PROVE Device!Init
    OBVIOUS
<1>1. IInv
    BY InitIInv
<1>2. hpc = "idle" /\ apc = "loop" /\ served = "none" /\ result = "none"
        /\ disk \in [Drives -> Contents]
    BY DEF Init
<1>3. BufferOf(mem) \in Block
    BY <1>1, BufferOfType DEF IInv, TypeOK
<1> QED BY <1>2, <1>3, ZerosBlock DEF Device!Init

LEMMA StartInvokes ==
    ASSUME IInv, NEW r \in Requests, NEW b \in Contents, Start(r, b)
    PROVE  Device!Invoke
<1>1. /\ hpc = "idle" /\ hpc' = "comsend" /\ req' = r /\ mem' = Load(mem, b)
      /\ result' = "none" /\ served' = "none" /\ UNCHANGED <<apc, args, abuf, disk>>
    BY DEF Start, ard
<1>2. [kind |-> KindOf(req'.cmd), drive |-> DriveOf(req'.unit)] \in Device!Calls
    BY <1>1, KindFacts
<1>3. BufferOf(mem)' \in Contents
    <2>1. BufferOf(Load(mem, b)) = b
        BY LoadFacts, ContentsAssumption DEF IInv, TypeOK
    <2> QED BY <1>1, <2>1
<1>4. Drive' = Drive
    BY <1>1 DEF Drive
<1> QED BY <1>1, <1>2, <1>3, <1>4, ZerosBlock DEF Device!Invoke

LEMMA ResetResets ==
    ASSUME IInv, Reset
    PROVE  Device!Reset
<1>1. /\ hpc' = "idle" /\ apc' = "loop" /\ served' = "none" /\ result' = "none"
      /\ UNCHANGED <<mem, disk>>
    BY DEF Reset
<1>2. BufferOf(mem)' = BufferOf(mem)
    BY <1>1 DEF BufferOf
<1> QED BY <1>1, <1>2, ZerosBlock DEF Device!Reset

\* The sketch answers: every answer is one of the device's.
LEMMA AnswersServe ==
    ASSUME IInv,
           \/ Unknown \/ NoDevice \/ DoStatus \/ DoFormat \/ DoRead \/ DoReadFails
           \/ DoSetVolume \/ DoGetVolume \/ DoSendBootblock
    PROVE  Device!Refuse \/ Device!Read \/ Device!Other
<1> DEFINE c == [kind |-> KindOf(req.cmd), drive |-> DriveOf(req.unit)]
<1>1. /\ apc \in {"exec", "default"} /\ apc' = "put" /\ UNCHANGED <<hpc, req, mem, result>>
    BY DEF Unknown, NoDevice, DoStatus, DoFormat, DoRead, DoReadFails, DoSetVolume, DoGetVolume,
       DoSendBootblock, Reply, host
<1>2. req \in Requests
    BY DEF IInv, TypeOK
<1>3. hpc # "idle" /\ served = "none" /\ abuf' \in Block
    <2>1. CASE apc = "exec"
        <3>1. Executes
            BY <2>1, ExecuteFacts
        <3>2. IInv'
            BY <1>1, <2>1, StepNoBlock, StepDoRead, StepDoSetVolume, StepDoGetVolume,
               StepDoSendBootblock DEF Unknown
        <3> QED BY <3>1, <3>2 DEF Executes, Calling, IInv, TypeOK
    <2>2. CASE apc = "default"
        <3>1. Refuses
            BY <2>2 DEF IInv, Phase, Idle, Waits, Woken, Collects, Executes, Answers, Answered, Ahead,
               Drops, Stuck, Reading, Then, Writing, Written, Answer
        <3>2. abuf' = abuf
            BY <2>2 DEF Unknown, NoDevice, DoStatus, DoFormat, DoRead, DoReadFails, DoSetVolume,
               DoGetVolume, DoSendBootblock
        <3> QED BY <2>2, <3>1, <3>2 DEF Refuses, Calling, IInv, TypeOK
    <2> QED BY <1>1, <2>1, <2>2
<1>4. BufferOf(mem)' = BufferOf(mem)
    BY <1>1 DEF BufferOf
<1>10. /\ req.cmd \in {4, 6, 7} <=> c.kind \in Device!ChangesMedia
       /\ req.cmd = 1 <=> c.kind = "read"
       /\ req.cmd = 2 <=> c.kind = "write"
    <2>1. c.kind = KindOf(req.cmd)
        OBVIOUS
    <2> HIDE DEF c
    <2> QED BY <1>2, <2>1, KindFacts
<1>5. CASE Unknown \/ NoDevice \/ DoReadFails
    <2>1. served' = "error" /\ disk' = disk
        BY <1>5 DEF Unknown, NoDevice, DoReadFails
    <2> QED BY <1>1, <1>3, <1>4, <2>1, ZerosBlock DEF Device!Refuse
<1>6. CASE DoRead
    <2>1. /\ served' = "ok" /\ disk' = disk /\ abuf' = disk[Drive] /\ apc = "exec" /\ acmd = 1
        BY <1>6 DEF DoRead
    <2>2. req.cmd = 1 /\ Drive = DriveOf(req.unit)
        BY <2>1, ExecuteFacts DEF Drive
    <2>3. c.kind = "read" /\ abuf' = disk[c.drive]
        BY <1>2, <2>1, <2>2, KindFacts
    <2> QED BY <1>1, <1>3, <1>4, <2>1, <2>3 DEF Device!Read
<1>7. CASE DoStatus \/ DoFormat \/ DoGetVolume \/ DoSendBootblock
    <2>1. /\ served' = "ok" /\ disk' = disk /\ apc = "exec" /\ acmd \in {0, 3, 5, 141, 160}
        BY <1>7 DEF DoStatus, DoFormat, DoGetVolume, DoSendBootblock
    <2>2. req.cmd \in {0, 3, 5, 160}
        BY <2>1, ExecuteFacts, RequestFacts DEF IInv
    <2>3. c.kind \notin {"read", "write"} /\ c.kind \notin Device!ChangesMedia
        BY <2>2, <1>10
    <2> QED BY <1>1, <1>3, <1>4, <2>1, <2>3 DEF Device!Other
<1>8. CASE DoSetVolume
    <2>1. /\ served' = "ok" /\ disk' \in [Drives -> Contents] /\ apc = "exec"
          /\ acmd \in {4, 6, 7}
        BY <1>8 DEF DoSetVolume
    <2>2. req.cmd \in {4, 6, 7}
        BY <2>1, ExecuteFacts
    <2>3. c.kind \notin {"read", "write"} /\ c.kind \in Device!ChangesMedia
        BY <2>2, <1>10
    <2> QED BY <1>1, <1>3, <1>4, <2>1, <2>3 DEF Device!Other
<1> QED BY <1>5, <1>6, <1>7, <1>8

\* Receiving the last byte of a block is the moment a write is accepted: what is posted
\* is the caller's buffer.
LEMMA ReceiveWrites ==
    ASSUME IInv, NEW b \in Bytes, ReceiveByte(b)
    PROVE  Device!Write \/ UNCHANGED Device!vars
<1>1. /\ apc = "recv" /\ n' = n + 1 /\ abuf' = [abuf EXCEPT ![n] = b]
      /\ IF n' = Size THEN apc' = "store" /\ served' = "ok" ELSE UNCHANGED <<apc, served>>
      /\ UNCHANGED <<hpc, req, mem, result, args, disk>>
    BY DEF ReceiveByte, host
<1>2. Writing /\ n \in 0..Size - 1 /\ Handed' /\ hpc # "idle" /\ served = "none"
    BY ReceiveFacts DEF Writing
<1>3. BufferOf(mem)' = BufferOf(mem)
    BY <1>1 DEF BufferOf
<1>4. CASE n' # Size
    BY <1>1, <1>2, <1>3, <1>4 DEF Device!vars
<1>5. CASE n' = Size
    <2>1. abuf' \in Block /\ BufferOf(mem) \in Block
        BY StepReceiveByte, BufferOfType DEF IInv, TypeOK
    <2>2. \A i \in 0..Size - 1 : abuf'[i] = BufferOf(mem)[i]
        BY <1>2, <1>3, <1>5 DEF Handed
    <2>3. abuf' = BufferOf(mem)
        <3> DEFINE f == BufferOf(mem)
        <3>1. abuf' = [i \in 0..Size - 1 |-> abuf'[i]] /\ f = [i \in 0..Size - 1 |-> f[i]]
            BY <2>1, Zenon DEF Block
        <3>2. \A i \in 0..Size - 1 : abuf'[i] = f[i]
            BY <2>2
        <3> HIDE DEF f
        <3>3. abuf' = f
            BY <3>1, <3>2, Zenon
        <3> QED BY <3>3 DEF f
    <2>4. req.cmd = 2 /\ args[1] = req.unit
        BY <1>2 DEF Writing, Collected, Arguments
    <2>5. Drive' = DriveOf(req.unit)
        BY <1>1, <2>4 DEF Drive
    <2>6. KindOf(req.cmd) = "write"
        BY <2>4 DEF KindOf
    <2> QED BY <1>1, <1>2, <1>3, <1>5, <2>1, <2>3, <2>5, <2>6 DEF Device!Write
<1> QED BY <1>4, <1>5

\* What the rest of do_write() stores is the block that was posted.
LEMMA StoreStores ==
    ASSUME IInv, Store
    PROVE  Device!Store
<1>1. /\ apc = "store" /\ apc' = "loop" /\ disk' \in {disk, [disk EXCEPT ![Drive] = abuf]}
      /\ UNCHANGED <<hpc, req, mem, result, abuf, served>>
    BY DEF Store, host
<1>2. BufferOf(mem)' = BufferOf(mem)
    BY <1>1 DEF BufferOf
<1> DEFINE w == [drive |-> Drive, data |-> abuf]
<1>3. w.drive = Drive /\ w.data = abuf
    OBVIOUS
<1> QED BY <1>1, <1>2, <1>3 DEF Device!Store

\* A byte of the answer reaches the caller's buffer, and the last one ends the call.
LEMMA ReadFills ==
    ASSUME IInv, NEW b \in Bytes, ReadBytes(b)
    PROVE  Device!Fill \/ Device!Return
<1> DEFINE c == [kind |-> KindOf(req.cmd), drive |-> DriveOf(req.unit)]
<1>1. /\ hpc = "readbytes" /\ mem' = [mem EXCEPT ![Pointer] = b] /\ NextByte("readbytes")
      /\ UNCHANGED <<req, apc, args, abuf, disk, served>>
    BY DEF ReadBytes, ard
<1>2. Reading /\ y < P /\ bufhi = Buf + uppage /\ Done \in 0..Size - 1 /\ b = abuf[Done]
    BY ReadBytesFacts
<1>3. served = "ok" /\ req.cmd \in SendsBlock /\ req.cmd # 9
    BY <1>2 DEF Reading, SendsBlock
<1>4. BufferOf(mem') = [BufferOf(mem) EXCEPT ![Done] = abuf[Done]]
    BY <1>1, <1>2, StoreByte DEF IInv
<1>5. c.kind \in Device!ReturnsBlock /\ c.kind # "format"
    <2>1. c.kind = KindOf(req.cmd) /\ req \in Requests /\ req.cmd # 3
        BY <1>3 DEF IInv, TypeOK, SendsBlock
    <2> HIDE DEF c
    <2> QED BY <1>3, <2>1, KindFacts
<1>6. Drive' = Drive /\ BufferOf(mem)' = BufferOf(mem')
    BY <1>1 DEF Drive, BufferOf
<1>7. CASE hpc' = "readbytes"
    <2>1. result' = result
        BY <1>1, <1>7 DEF NextByte
    <2> QED BY <1>1, <1>2, <1>3, <1>4, <1>5, <1>6, <1>7, <2>1 DEF Device!Fill
<1>8. CASE hpc' = "idle"
    <2>1. result' = "ok" /\ BufferOf(mem') = abuf
        BY <1>8, BlockReturns
    <2> QED BY <1>1, <1>3, <1>5, <1>6, <1>8, <2>1 DEF Device!Return
<1> QED BY <1>1, <1>7, <1>8 DEF NextByte

\* A call that reads no block ends with the status byte, or with the last byte of the
\* block it writes.
LEMMA OthersReturn ==
    ASSUME IInv, hpc' = "idle",
           (\E b \in Bytes : WaitResult(b)) \/ WaitWrite
    PROVE  Device!Return
<1> DEFINE c == [kind |-> KindOf(req.cmd), drive |-> DriveOf(req.unit)]
<1>1. /\ hpc # "idle" /\ served \in {"ok", "error"} /\ result' = served
      /\ served = "ok" => req.cmd \notin {1, 3, 5, 6, 7, 9, 160}
      /\ UNCHANGED <<req, mem, served, apc, args, abuf, disk>>
    <2>1. ASSUME NEW b \in Bytes, WaitResult(b)
          PROVE  <1>1!:
        BY <2>1, StatusReturns DEF ard
    <2>2. ASSUME WaitWrite
          PROVE  <1>1!:
        BY <2>2, WriteReturns DEF Written, ard
    <2> QED BY <2>1, <2>2
<1>2. served = "ok" => c.kind \notin Device!ReturnsBlock /\ c.kind # "format"
    <2>1. c.kind = KindOf(req.cmd) /\ req \in Requests
        BY DEF IInv, TypeOK
    <2> HIDE DEF c
    <2>2. /\ req.cmd # 9 => (req.cmd \in SendsBlock <=> KindOf(req.cmd) \in Device!ReturnsBlock)
          /\ req.cmd = 3 <=> KindOf(req.cmd) = "format"
        BY <2>1, KindFacts, Zenon
    <2>3. KindOf(req.cmd) \in Device!ReturnsBlock => req.cmd = 9 \/ req.cmd \in SendsBlock
        BY <2>2
    <2> QED BY <1>1, <2>1, <2>2, <2>3 DEF SendsBlock
<1>3. Drive' = Drive /\ BufferOf(mem)' = BufferOf(mem)
    BY <1>1 DEF Drive, BufferOf
<1> QED BY <1>1, <1>2, <1>3 DEF Device!Return

\* A byte in the port, a flag looked at, an argument collected: nothing the caller or
\* the media see.
LEMMA Unseen ==
    ASSUME IInv,
           \/ ComSend \/ ComByte2 \/ WriteBytes
           \/ WaitWrite /\ hpc' # "idle"
           \/ \E b \in Bytes : WaitResult(b) /\ hpc' # "idle"
           \/ \E b \in Bytes : LoopByte(b) \/ CmdByte(b) \/ ArgByte(b)
           \/ DoWrite \/ Put \/ SendByte \/ UNCHANGED vars
    PROVE  UNCHANGED Device!vars
<1>1. /\ hpc = "idle" <=> hpc' = "idle"
      /\ UNCHANGED <<req, mem, result, disk, served>>
    BY DEF ComSend, ComByte2, WriteBytes, WaitWrite, NextByte, WaitResult, LoopByte, CmdByte, ArgByte,
       DoWrite, Reply, Put, SendByte, host, ard, vars
<1>2. /\ apc = "store" <=> apc' = "store"
      /\ apc = "store" => UNCHANGED <<args, abuf>>
    BY DEF ComSend, ComByte2, WriteBytes, WaitWrite, NextByte, WaitResult, LoopByte, CmdByte, ArgByte,
       DoWrite, Reply, Put, SendByte, host, ard, vars, IInv, TypeOK
<1>3. abuf' = abuf \/ served = "none"
    <2>1. CASE apc = "cmd"
        BY <2>1 DEF IInv, Phase, Idle, Waits, Woken, Collects, Executes, Answers, Answered, Ahead,
           Refuses, Drops, Stuck, Reading, Then, Writing, Written, Answer
    <2>2. CASE apc # "cmd"
        BY <2>2 DEF ComSend, ComByte2, WriteBytes, WaitWrite, NextByte, WaitResult, LoopByte, CmdByte,
           ArgByte, DoWrite, Reply, Put, SendByte, host, ard, vars
    <2> QED BY <2>1, <2>2
<1>4. BufferOf(mem)' = BufferOf(mem) /\ (apc = "store" => Drive' = Drive)
    BY <1>1, <1>2 DEF BufferOf, Drive
<1> QED BY <1>1, <1>2, <1>3, <1>4 DEF Device!vars

LEMMA StepDevice ==
    ASSUME IInv, [Next]_vars
    PROVE  [Device!Next]_(Device!vars)
<1> USE DEF Device!Next
<1>1. CASE Reset
    BY <1>1, ResetResets
<1>2. ASSUME NEW r \in Requests, NEW b \in Contents, Start(r, b)
      PROVE  Device!Next
    BY <1>2, StartInvokes
<1>3. CASE AppleStep
    <2>1. ASSUME NEW b \in Bytes, ReadBytes(b)
          PROVE  Device!Next
        BY <2>1, ReadFills
    <2>2. CASE ComSend \/ ComByte2 \/ WriteBytes
        BY <2>2, Unseen
    <2>3. CASE WaitWrite \/ \E b \in Bytes : WaitResult(b)
        BY <2>3, OthersReturn, Unseen
    <2> QED BY <1>3, <2>1, <2>2, <2>3 DEF AppleStep
<1>4. CASE ArduinoStep
    <2>1. ASSUME NEW b \in Bytes, LoopByte(b) \/ CmdByte(b) \/ ArgByte(b) \/ ReceiveByte(b)
          PROVE  [Device!Next]_(Device!vars)
        BY <2>1, Unseen, ReceiveWrites
    <2>2. CASE \/ Unknown \/ NoDevice \/ DoStatus \/ DoFormat \/ DoRead \/ DoReadFails
               \/ DoSetVolume \/ DoGetVolume \/ DoSendBootblock
        BY <2>2, AnswersServe
    <2>3. CASE DoWrite \/ Put \/ SendByte
        BY <2>3, Unseen
    <2>4. CASE Store
        BY <2>4, StoreStores
    <2> QED BY <1>4, <2>1, <2>2, <2>3, <2>4 DEF ArduinoStep
<1>5. CASE UNCHANGED vars
    BY <1>5, Unseen
<1> QED BY <1>1, <1>2, <1>3, <1>4, <1>5 DEF Next

\* Byte by byte, over two loops that wait for each other at every byte, the driver and
\* the sketch implement a block device with posted writes, for every size of a page,
\* every content of the media and every call the Apple makes.
THEOREM ImplementsBlockDevice == Spec => ImplementsDevice
<1>1. Init => Device!Init
    BY DeviceInit
<1>2. IInv /\ [Next]_vars => [Device!Next]_(Device!vars)
    BY StepDevice
<1> QED BY <1>1, <1>2, Inductive, PTL DEF Spec, ImplementsDevice, Device!Spec
===============================================================================
