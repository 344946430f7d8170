------------------------------- MODULE SdCard -------------------------------
(***************************************************************************)
(* The SD card driver: the calls of FatFs and of the sketch are turned     *)
(* into commands on a serial bus that two sockets share.  The driver       *)
(* selects a socket, waits until its card is not busy, sends a command,    *)
(* and waits for the answer and for data; every wait is bounded by a clock *)
(* of 16 bits.  The cards are the environment: they differ in kind, answer *)
(* wrongly, late or not at all, store data after they have accepted them,  *)
(* and are pulled and inserted at any moment.                              *)
(*                                                                         *)
(* Time is counted in ticks of 500 ms and passes only in the loops that    *)
(* look at the clock; everything else takes less than a millisecond.  An   *)
(* empty socket reads as ones.  The callers ask for one sector at a time:  *)
(* the multiple-block commands are never used.                             *)
(***************************************************************************)
EXTENDS Integers

CONSTANTS Cards, NoCard,  \* the cards that exist, an empty socket
          Given,          \* the cards that are ever put in each socket
          Kind,           \* the kind of each card
          Sectors,        \* the sectors a caller asks for
          Size,           \* the cards have sectors 0..Size - 1
          Values,         \* what a sector can hold
          Contents,       \* what a card comes with
          SectorBytes, AddressMod,  \* 512, and 2^32
          ClockMod,       \* the 16-bit clock, in ticks
          Idles           \* how often CMD0 is sent: 5

ASSUME CardsAssumption == NoCard \notin Cards /\ Given \in [{0, 1} -> SUBSET Cards]
ASSUME KindAssumption ==
    Kind \in [Cards -> {"mmc", "sd1", "sd2", "sdhc", "broken"}]
\* The largest sector number in use is 2^20 - 1 (BlockMap), and 2^23 would wrap.
ASSUME SectorsAssumption ==
    /\ SectorBytes \in Nat \ {0} /\ Size \in Nat \ {0}
    /\ Sectors # {} /\ Sectors \subseteq {s \in Nat : s * SectorBytes < AddressMod}
    /\ AddressMod \in Nat
ASSUME ContentsAssumption == Contents \subseteq [0..Size - 1 -> Values]

WaitBusy  == 1    \* wait_ready(500)
WaitToken == 1    \* 200 ms in rcvr_datablock(), a tick that may be a short one
WaitInit  == 2    \* 1000 ms in mmc_disk_initialize()

\* The longest initialisation: its second, with what two commands may wait.
InitLimit == (WaitInit - 1) + 2 * WaitBusy

\* 16 bits of milliseconds are 131 ticks.
ASSUME ClockAssumption ==
    ClockMod \in Nat /\ InitLimit < ClockMod \div 2 /\ Idles \in Nat \ {0}

VARIABLES sock,    \* the card in each socket, its state, the write it is storing
          mem,     \* what the cards hold
          stat,    \* Stat[d]: TRUE once initialised
          type,    \* CardType[d]
          slotno,  \* the socket the driver addresses
          cs,      \* the sockets whose chip select is low
          pc, at,  \* where send_cmd() is, and where it was called
          cmd, app,   \* the command, and the one CMD55 introduces
          res,     \* the R1 response
          n, ty,   \* locals of mmc_disk_initialize()
          t, t0,   \* ticks since a wait, and since the initialisation loop, began
          call, pulled, result, data

card  == <<sock, mem>>
drv   == <<stat, type, slotno>>
bus   == <<cs, pc, at, cmd, app, res>>
local == <<n, ty, t, t0>>
io    == <<call, pulled, result, data>>
vars  == <<sock, mem, stat, type, slotno, cs, pc, at, cmd, app, res,
           n, ty, t, t0, call, pulled, result, data>>

Sockets == {0, 1}
Empty   == [id |-> NoCard, st |-> "power", prog |-> {}]
Here    == sock[slotno]
Any(S)  == CHOOSE x \in S : TRUE        \* an argument the call does not have
Calls   == [op : {"write"}, d : Sockets, s : Sectors, v : Values]
           \cup [op : {"read"}, d : Sockets, s : Sectors, v : {Any(Values)}]
           \cup [op : {"init", "sync"}, d : Sockets, s : {Any(Sectors)}, v : {Any(Values)}]
Call    == CHOOSE c \in call : TRUE
IsBroken(c) == c \in Cards /\ Kind[c] = "broken"

-----------------------------------------------------------------------------
(* The cards, from what the driver expects of them. *)

R1(k) == IF k.st = "idle" THEN "idle" ELSE "ok"
Stays(k, r) == [res |-> r, to |-> k]
ReadyOrNot(k) == {Stays(k, "idle"), [res |-> "ok", to |-> [k EXCEPT !.st = "ready"]]}

\* The sector a card takes an address for.
SectorAt(c, a) == IF Kind[c] = "sdhc" THEN a ELSE a \div SectorBytes

\* A card in order; ACMD41 tells a high capacity card whether it may start (hcs).
Good(k, c, a, hcs) ==
    CASE c = "CMD0" -> {Stays(k, "ok"), [res |-> "idle", to |-> [k EXCEPT !.st = "idle"]]}
      [] c = "CMD8" -> {Stays(k, IF Kind[k.id] \in {"sd2", "sdhc"} THEN R1(k) ELSE "err")}
      [] c = "CMD55" -> {Stays(k, IF Kind[k.id] = "mmc" THEN "err" ELSE R1(k))}
      [] c = "ACMD41" /\ Kind[k.id] = "mmc" -> {Stays(k, "err")}
      [] c \in {"ACMD41", "CMD1"} ->
            IF Kind[k.id] = "sdhc" /\ ~(c = "ACMD41" /\ hcs)
              THEN {Stays(k, R1(k))} ELSE ReadyOrNot(k)
      [] c \in {"CMD17", "CMD24"} ->
            {Stays(k, IF SectorAt(k.id, a) < Size THEN R1(k) ELSE "err")}
      [] OTHER -> {Stays(k, R1(k))}

\* A card that is not in SPI mode hears only CMD0; any card may miss a command or
\* refuse it, and a broken one answers anything.
Answers(k, c, a, hcs) ==
    IF IsBroken(k.id) THEN {Stays(k, r) : r \in {"ok", "idle", "err", "none"}}
    ELSE IF k.id = NoCard \/ (k.st = "power" /\ c # "CMD0") THEN {Stays(k, "none")}
    ELSE Good(k, c, a, hcs) \cup {Stays(k, "err"), Stays(k, "none")}

Busy(k)  == k.prog # {} \/ IsBroken(k.id)
Quiet(k) == k.prog = {}
Talks(k) == k.st # "power" \/ IsBroken(k.id)

Store(d) ==
    /\ sock[d].prog # {}
    /\ sock' = [sock EXCEPT ![d].prog = {}]
    /\ \E w \in sock[d].prog : mem' = [mem EXCEPT ![sock[d].id][w.s] = w.v]
    /\ UNCHANGED <<drv, bus, local, io>>

InsertCard(d, c) ==
    /\ c \in Given[d]
    /\ sock[d] = Empty /\ \A e \in Sockets : sock[e].id # c
    /\ sock' = [sock EXCEPT ![d].id = c]
    /\ UNCHANGED <<mem, drv, bus, local, io>>

RemoveCard(d) ==
    /\ sock[d].id # NoCard
    /\ sock' = [sock EXCEPT ![d] = Empty]
    /\ pulled' = (pulled \/ (call # {} /\ d = slotno))
    /\ \/ UNCHANGED mem
       \/ \E w \in sock[d].prog, v \in Values : mem' = [mem EXCEPT ![sock[d].id][w.s] = v]
    /\ UNCHANGED <<drv, bus, local, call, result, data>>

-----------------------------------------------------------------------------
(* The clocks: differences of a 16-bit clock, taken as signed or unsigned. *)

Signed(e) == IF e % ClockMod < ClockMod \div 2 THEN e % ClockMod ELSE (e % ClockMod) - ClockMod
InTime(e, limit) == Signed(e) < limit

Waiting == \/ pc \in {"busy", "xbusy"} /\ t % ClockMod < WaitBusy
           \/ pc = "token" /\ InTime(t, WaitToken)
           \/ pc = "loop" /\ InTime(t0, WaitInit)

Tick == /\ Waiting
        /\ t' = (IF pc = "loop" THEN t ELSE t + 1)
        /\ t0' = IF at \in {"cmd0", "read", "write", "sync"} THEN t0 ELSE t0 + 1
        /\ UNCHANGED <<card, drv, bus, n, ty, io>>

-----------------------------------------------------------------------------
(* send_cmd(), select() and deselect(). *)

Begins(c, a) == /\ pc' = "select" /\ cmd' = c /\ app' = a /\ res' = "none"
                /\ UNCHANGED cs

SendCmd(c, label)  == Begins(c, "none") /\ at' = label
SendAcmd(c, label) == Begins("CMD55", c) /\ at' = label

Select ==
    /\ pc = "select" /\ pc' = "busy"
    /\ cs' = {slotno}
    /\ t' = 0
    /\ UNCHANGED <<card, drv, at, cmd, app, res, n, ty, t0, io>>

\* wait_ready() before a command, and before a block of data.
CardReady ==
    /\ pc \in {"busy", "xbusy"} /\ Quiet(Here)
    /\ pc' = (IF pc = "busy" THEN "command" ELSE "xdata") /\ t' = 0
    /\ UNCHANGED <<card, drv, cs, at, cmd, app, res, n, ty, t0, io>>

\* The busy card outlasts the wait: send_cmd() gives up.
SelectTimeout ==
    /\ pc = "busy" /\ ~Waiting /\ Busy(Here)
    /\ pc' = "answered" /\ res' = "none" /\ cs' = {} /\ t' = 0
    /\ UNCHANGED <<card, drv, at, cmd, app, n, ty, t0, io>>

Address(s) == IF type[slotno] = "SDHC" THEN s ELSE (s * SectorBytes) % AddressMod

\* The command packet and its response.
Command ==
    /\ pc = "command" /\ cmd # "SYNC" /\ pc' = "answered"
    /\ \E r \in Answers(Here, cmd, Address(Call.s), at = "hcs") :
          res' = r.res /\ sock' = [sock EXCEPT ![slotno] = r.to]
    /\ UNCHANGED <<mem, drv, cs, at, cmd, app, local, io>>

\* CMD55 was accepted: its command follows.
Accepted == cmd = "CMD55" /\ app # "none" /\ res \in {"ok", "idle"}

AppCommand ==
    /\ pc = "answered" /\ Accepted
    /\ SendCmd(app, at)
    /\ UNCHANGED <<card, drv, local, io>>

\* send_cmd() returns "res" to the place it was called from.
Returned(label) == pc = "answered" /\ at = label /\ ~Accepted

-----------------------------------------------------------------------------
(* A call ends: deselect(), and nothing of its locals is left. *)

Rests == /\ pc' = "idle" /\ at' = "none" /\ cmd' = "none" /\ app' = "none" /\ res' = "none"
         /\ n' = 0 /\ ty' = "none" /\ t' = 0 /\ t0' = 0
         /\ call' = {} /\ pulled' = FALSE

Ends(r) == Rests /\ result' = r /\ cs' = {}

\* slotno is set by the functions of diskio_sdc.c, before anything else.
Accept(c) == /\ pc = "idle" /\ call' = {c} /\ slotno' = c.d
             /\ pulled' = FALSE /\ result' = "none" /\ data' = Any(Values)

\* A socket that is not initialised is refused without a call to its card.
Refuse(c) == /\ pc = "idle" /\ c.op # "init" /\ ~stat[c.d]
             /\ slotno' = c.d /\ pulled' = FALSE /\ result' = "notrdy"
             /\ data' = Any(Values)
             /\ UNCHANGED <<card, stat, type, bus, local, call>>

-----------------------------------------------------------------------------
(* mmc_disk_initialize(). *)

Initialize(c) ==
    /\ c.op = "init" /\ Accept(c)
    /\ SendCmd("CMD0", "cmd0")
    /\ n' = Idles
    /\ UNCHANGED <<card, stat, type, ty, t, t0>>

\* Wrong on purpose: a card that failed keeps the state it had.
InitEndsKept(k) ==
    /\ type' = [type EXCEPT ![slotno] = k]
    /\ stat' = [stat EXCEPT ![slotno] = k # "none" \/ @]
    /\ Ends(IF k = "none" THEN "error" ELSE "ok")
    /\ UNCHANGED <<card, slotno, data>>

InitEnds(k) ==
    /\ type' = [type EXCEPT ![slotno] = k]
    /\ stat' = [stat EXCEPT ![slotno] = k # "none"]
    /\ Ends(IF k = "none" THEN "error" ELSE "ok")
    /\ UNCHANGED <<card, slotno, data>>

\* Wrong on purpose: the tries are not counted.
IdleAgainForever == /\ Returned("cmd0") /\ res = "ok" /\ n > 1
                    /\ SendCmd("CMD0", "cmd0")
                    /\ UNCHANGED <<card, drv, local, io>>

\* CMD0 until the card says idle: at most five times while it says it is not.
IdleAgain == /\ Returned("cmd0") /\ res = "ok" /\ n > 1
             /\ n' = n - 1
             /\ SendCmd("CMD0", "cmd0")
             /\ UNCHANGED <<card, drv, ty, t, t0, io>>

IdleFails == Returned("cmd0") /\ (res = "ok" => n = 1) /\ res # "idle" /\ InitEnds("none")

IsIdle == /\ Returned("cmd0") /\ res = "idle"
          /\ SendCmd("CMD8", "cmd8") /\ t0' = 0 /\ n' = 0
          /\ UNCHANGED <<card, drv, ty, t, io>>

Loops(label) == /\ pc' = "loop" /\ at' = label
                /\ cmd' = "none" /\ app' = "none" /\ res' = "none"
                /\ UNCHANGED cs

\* The voltage range is echoed by a card of version 2.
Version2 == /\ Returned("cmd8") /\ res = "idle"
            /\ \/ /\ Talks(Here)
                  /\ Loops("hcs")
                  /\ UNCHANGED <<card, drv, local, io>>
               \/ ~(Talks(Here) /\ ~IsBroken(Here.id)) /\ InitEnds("none")

Version1 == /\ Returned("cmd8") /\ res # "idle"
            /\ SendAcmd("ACMD41", "probe")
            /\ UNCHANGED <<card, drv, local, io>>

SdOrMmc == /\ Returned("probe")
           /\ Loops("leave")
           /\ ty' = IF res \in {"ok", "idle"} THEN "SDC1" ELSE "MMC3"
           /\ UNCHANGED <<card, drv, n, t, t0, io>>

\* The loops wait for the card to leave the idle state.
Again == /\ pc = "loop" /\ InTime(t0, WaitInit)
         /\ IF at = "leave" /\ ty = "MMC3" THEN SendCmd("CMD1", at) ELSE SendAcmd("ACMD41", at)
         /\ UNCHANGED <<card, drv, local, io>>

LoopTimeout == pc = "loop" /\ ~InTime(t0, WaitInit) /\ InitEnds("none")

StillIdle == /\ (Returned("hcs") \/ Returned("leave")) /\ res # "ok"
             /\ Loops(at)
             /\ UNCHANGED <<card, drv, local, io>>

\* The card has left the idle state, in time or too late.
LeftIdle == /\ (Returned("hcs") \/ Returned("leave")) /\ res = "ok"
            /\ IF InTime(t0, WaitInit)
                 THEN /\ SendCmd(IF at = "hcs" THEN "CMD58" ELSE "CMD16",
                                 IF at = "hcs" THEN "ocr" ELSE "length")
                      /\ UNCHANGED <<card, drv, local, io>>
                 ELSE InitEnds("none")

\* CCS, in the operating conditions: the card takes sector addresses.
Ocr == /\ Returned("ocr")
       /\ \E high \in BOOLEAN :
             /\ ~Talks(Here) => high
             /\ Talks(Here) /\ ~IsBroken(Here.id) => high = (Kind[Here.id] = "sdhc")
             /\ InitEnds(IF res # "ok" THEN "none" ELSE IF high THEN "SDHC" ELSE "SDC2")

Length == Returned("length") /\ InitEnds(IF res = "ok" THEN ty ELSE "none")

-----------------------------------------------------------------------------
(* mmc_disk_read(), mmc_disk_write() and CTRL_SYNC. *)

Read(c) == /\ c.op = "read" /\ stat[c.d] /\ Accept(c)
           /\ SendCmd("CMD17", "read")
           /\ UNCHANGED <<card, stat, type, local>>

Write(c) == /\ c.op = "write" /\ stat[c.d] /\ Accept(c)
            /\ SendCmd("CMD24", "write")
            /\ UNCHANGED <<card, stat, type, local>>

Sync(c) == /\ c.op = "sync" /\ stat[c.d] /\ Accept(c)
           /\ SendCmd("SYNC", "sync")
           /\ UNCHANGED <<card, stat, type, local>>

Synced == /\ pc = "command" /\ cmd = "SYNC" /\ Ends("ok")
          /\ UNCHANGED <<card, drv, data>>

\* Any answer but 0: the call fails.
Refused == /\ \E label \in {"read", "write", "sync"} : Returned(label)
           /\ res # "ok" /\ Ends("error")
           /\ UNCHANGED <<card, drv, data>>

\* rcvr_datablock(): the wait for the token of a block.
WaitForToken == /\ Returned("read") /\ res = "ok"
                /\ pc' = "token" /\ t' = 0
                /\ UNCHANGED <<card, drv, cs, at, cmd, app, res, n, ty, t0, io>>

Token == /\ pc = "token" /\ (Here.st = "ready" \/ IsBroken(Here.id))
         /\ pc' = "data"
         /\ UNCHANGED <<card, drv, cs, at, cmd, app, res, local, io>>

NoToken == /\ pc = "token"
           /\ ~Waiting \/ Here.id # NoCard
           /\ Ends("error") /\ UNCHANGED <<card, drv, data>>

\* The block, and a checksum nobody looks at: ones when the card is gone.
ReceiveBlock ==
    /\ pc = "data" /\ Ends("ok")
    /\ \/ Here.st # "ready" \/ IsBroken(Here.id)
       \/ Here.st = "ready" /\ data' = mem[Here.id][SectorAt(Here.id, Address(Call.s))]
    /\ data' \in Values
    /\ UNCHANGED <<card, drv>>

\* xmit_datablock(): the card must be ready for the block too.
WaitToSend == /\ Returned("write") /\ res = "ok"
              /\ pc' = "xbusy" /\ t' = 0
              /\ UNCHANGED <<card, drv, cs, at, cmd, app, res, n, ty, t0, io>>

SendTimeout == /\ pc = "xbusy" /\ ~Waiting /\ Busy(Here)
               /\ Ends("error") /\ UNCHANGED <<card, drv, data>>

\* The card takes the block and starts to store it.
Takes == sock' = [sock EXCEPT ![slotno].prog =
                     {[s |-> SectorAt(Here.id, Address(Call.s)), v |-> Call.v]}]

\* Wrong on purpose: the response to the block is not looked at.
SendBlockUnchecked ==
    /\ pc = "xdata" /\ Ends("ok")
    /\ \/ Here.st = "ready" /\ ~IsBroken(Here.id) /\ Takes
       \/ UNCHANGED sock
    /\ UNCHANGED <<mem, drv, data>>

\* "Data was accepted or not": the answer to an accepted block may be lost.
SendBlock ==
    /\ pc = "xdata"
    /\ \/ Here.st = "ready" /\ ~IsBroken(Here.id) /\ Takes /\ Ends("ok")
       \/ Here.st = "ready" /\ ~IsBroken(Here.id) /\ Takes /\ Ends("error")
       \/ IsBroken(Here.id) /\ UNCHANGED sock /\ Ends("ok")
       \/ UNCHANGED sock /\ Ends("error")
    /\ UNCHANGED <<mem, drv, data>>

-----------------------------------------------------------------------------
Init ==
    /\ sock \in [Sockets -> {Empty} \cup [id : Cards, st : {"power"}, prog : {{}}]]
    /\ \A d \in Sockets : sock[d].id \in Given[d] \cup {NoCard}
    /\ sock[0].id = sock[1].id => sock[0] = Empty
    /\ mem \in [Cards -> Contents]
    /\ stat = [d \in Sockets |-> FALSE] /\ type = [d \in Sockets |-> "none"]
    /\ slotno = 0 /\ cs = {} /\ pc = "idle" /\ at = "none"
    /\ cmd = "none" /\ app = "none" /\ res = "none"
    /\ n = 0 /\ ty = "none" /\ t = 0 /\ t0 = 0
    /\ call = {} /\ pulled = FALSE /\ result = "none" /\ data \in Values

\* RESET in the middle of anything; the cards are not told.
Reset ==
    /\ Rests /\ cs' = {} /\ slotno' = 0
    /\ stat' = [d \in Sockets |-> FALSE] /\ type' = [d \in Sockets |-> "none"]
    /\ result' = "none" /\ data' = Any(Values)
    /\ UNCHANGED card

Driver ==
    \/ Select \/ CardReady \/ SelectTimeout \/ Command \/ AppCommand
    \/ IdleAgain \/ IdleFails \/ IsIdle \/ Version2 \/ Version1 \/ SdOrMmc
    \/ Again \/ LoopTimeout \/ StillIdle \/ LeftIdle \/ Ocr \/ Length
    \/ Synced \/ Refused \/ WaitForToken \/ Token \/ NoToken \/ ReceiveBlock
    \/ WaitToSend \/ SendTimeout \/ SendBlock

Next ==
    \/ \E c \in Calls : \/ Refuse(c) \/ Initialize(c) \/ Read(c) \/ Write(c) \/ Sync(c)
    \/ Driver
    \/ Tick
    \/ \E d \in Sockets : Store(d) \/ RemoveCard(d)
    \/ \E d \in Sockets, c \in Cards : InsertCard(d, c)
    \/ Reset

\* The driver runs on, and its clock with it: a loop that comes round again and
\* again finds that time has passed.
Fairness == WF_vars(Driver) /\ SF_vars(Tick)

Spec == Init /\ [][Next]_vars /\ Fairness

-----------------------------------------------------------------------------
\* Every variable has its type.
TypeOK ==
    /\ sock \in [Sockets -> [id : Cards \cup {NoCard}, st : {"power", "idle", "ready"},
                             prog : SUBSET [s : 0..Size - 1, v : Values]]]
    /\ mem \in [Cards -> [0..Size - 1 -> Values]]
    /\ stat \in [Sockets -> BOOLEAN]
    /\ type \in [Sockets -> {"none", "MMC3", "SDC1", "SDC2", "SDHC"}]
    /\ slotno \in Sockets /\ cs \subseteq Sockets
    /\ pc \in {"idle", "select", "busy", "command", "answered", "loop", "token", "data",
               "xbusy", "xdata"}
    /\ res \in {"none", "ok", "idle", "err"}
    /\ n \in 0..Idles /\ ty \in {"none", "MMC3", "SDC1"}
    /\ t \in 0..WaitBusy /\ t0 \in Nat
    /\ call \subseteq Calls /\ (call = {}) = (pc = "idle")
    /\ pulled \in BOOLEAN /\ data \in Values
    /\ result \in {"none", "ok", "error", "notrdy"}

\* The two cards never talk at the same time: only the socket a call is for is
\* ever selected, and none between two calls, whichever way the last one ended
\* (select, deselect; the bus also serves the Ethernet chip).
OneSelected == cs \subseteq {slotno} /\ (pc = "idle" => cs = {})

\* A card that answers is addressed the way it understands, sectors or bytes:
\* whatever was lost while it was initialised, and whichever card was in the
\* socket when CardType was last set (mmc_disk_initialize).
AddressingFits ==
    \A d \in Sockets :
        /\ stat[d] /\ sock[d].st = "ready"
        /\ \A c \in call : c.op = "init" => c.d # d
        => (type[d] = "SDHC") = (Kind[sock[d].id] = "sdhc")

\* The loops that wait for a card to leave the idle state are left in time: they
\* take a second, and no more than the waits of the two commands that may have
\* begun just before it was over.  By ClockAssumption every difference then stays in
\* the positive half of 16 bits, where the signed comparisons mean what they say.
WaitsAreShort == t0 <= InitLimit /\ t <= WaitBusy

\* Whatever the cards do, the driver talks to one of them at a time, in the way
\* that one understands, and waits for it no longer than its clocks can tell.
DriverSound == TypeOK /\ OneSelected /\ AddressingFits /\ WaitsAreShort

\* Every call returns, with a card, without one, or with one that misbehaves.
CallEnds == pc # "idle" ~> pc = "idle"

\* The driver keeps the promises of its interface: a read that succeeds returns
\* the sector asked for as it was last stored, a write reaches that sector only.
Promise == INSTANCE DiskIO WITH
    Broken <- {c \in Cards : Kind[c] = "broken"},
    inside <- [d \in Sockets |-> sock[d].id],
    posted <- [c \in Cards |-> UNION {sock[d].prog : d \in {e \in Sockets : sock[e].id = c}}],
    up     <- {d \in Sockets : stat[d]}

ImplementsDiskIO == Promise!Spec
=============================================================================
