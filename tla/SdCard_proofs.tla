----------------------------- MODULE SdCard_proofs -----------------------------
(***************************************************************************)
(* Proofs about SdCard, for every set of cards of every kind, whatever     *)
(* they hold and answer, and every set of sectors: the driver talks to one *)
(* card at a time, in the way that one understands, and waits no longer    *)
(* than its clocks can tell; and it implements DiskIO.                     *)
(***************************************************************************)
EXTENDS SdCard, TLAPS

InitLabels == {"cmd0", "cmd8", "probe", "hcs", "leave", "ocr", "length"}

\* What the cards are like, whoever puts them where: a card is in one socket, and one that
\* has heard a command or is storing a sector is a card in order.
CardsKnown ==
    /\ \A d \in Sockets :
          /\ sock[d].id = NoCard => sock[d] = Empty
          /\ sock[d].st # "power" \/ sock[d].prog # {} =>
                sock[d].id \in Cards /\ Kind[sock[d].id] # "broken"
          /\ \A v, w \in sock[d].prog : v = w
    /\ sock[0].id = sock[1].id => sock[0].id = NoCard

\* The call, and where the driver is with it.
Serving ==
    /\ (pc = "idle") = (at = "none")
    /\ at \in InitLabels \cup {"read", "write", "sync", "none"}
    /\ call # {} => \E c \in Calls : /\ call = {c} /\ c.d = slotno
                                     /\ IF c.op = "init" THEN at \in InitLabels
                                                         ELSE at = c.op /\ stat[c.d]
    /\ pc = "idle" => res = "none"
    /\ pc = "loop" => at \in {"hcs", "leave"}
    /\ pc \in {"token", "data"} => at = "read" /\ res = "ok"
    /\ pc \in {"xbusy", "xdata"} => at = "write" /\ res = "ok"

\* Which command is sent from where.
Commands ==
    /\ cmd = "CMD55" => app = "ACMD41"
    /\ at = "cmd0" => cmd = "CMD0"
    /\ at = "cmd8" => cmd = "CMD8"
    /\ at = "read" => cmd = "CMD17"
    /\ at = "write" => cmd = "CMD24"
    /\ at = "sync" <=> cmd = "SYNC"

\* A socket that was empty all the time has answered nothing.
Absent == call # {} /\ Here.id = NoCard /\ ~pulled =>
             res = "none" /\ at \in {"cmd0", "read", "write", "sync"}

\* A card that accepted the command of a transfer has the sector, unless it was pulled.
Granted == at \in {"read", "write"} /\ res = "ok" =>
    /\ pulled \/ IsBroken(Here.id) \/ Here.st = "ready"
    /\ Here.st = "ready" => Call.s < Size

\* A card that answers has stored what it had accepted.
Settled == pc \in {"command", "xdata"} \/ res # "none" => Here.prog = {}

\* A high capacity card is only ready if it was told that the driver knows such cards.
LowCapacity == at \in {"cmd8", "probe", "leave", "length"} \/ (at = "cmd0" /\ res = "idle") =>
    (Here.st = "ready" => Kind[Here.id] # "sdhc")

\* The ticks of the initialisation loop when a command begins.
Begun == IF at = "cmd8" THEN 0 ELSE IF cmd = "ACMD41" THEN 2 ELSE 1

Timed ==
    /\ at \in {"none", "cmd0", "read", "write", "sync"} => t0 = 0
    /\ pc = "select" => t0 <= Begun
    /\ pc = "busy" => t0 <= Begun + t
    /\ pc \in {"command", "answered"} => t0 <= Begun + 1

Progress == Serving /\ Commands /\ Absent /\ Granted /\ Settled /\ LowCapacity /\ Timed

IInv == DriverSound /\ CardsKnown /\ Progress

-----------------------------------------------------------------------------
(* The operators. *)

CardStates == [id : Cards \cup {NoCard}, st : {"power", "idle", "ready"},
               prog : SUBSET [s : 0..Size - 1, v : Values]]

\* Within the waits of the driver the signed difference of the clock is the time.
LEMMA ShortTimes ==
    ASSUME NEW e \in 0..InitLimit
    PROVE  Signed(e) = e /\ e % ClockMod = e
BY ClockAssumption DEF Signed, InitLimit, WaitInit, WaitBusy

LEMMA SomeValue ==
    ASSUME TypeOK
    PROVE  Any(Values) \in Values
BY DEF TypeOK, Any

LEMMA SomeSector == Any(Sectors) \in Sectors
BY SectorsAssumption DEF Any

LEMMA CallType ==
    ASSUME TypeOK, NEW c \in Calls
    PROVE  /\ c.op \in {"init", "read", "write", "sync"} /\ c.d \in Sockets
           /\ c.s \in Sectors /\ c.s \in Nat /\ c.s * SectorBytes < AddressMod /\ c.v \in Values
BY SomeValue, SomeSector, SectorsAssumption DEF Calls

LEMMA TheCall ==
    ASSUME IInv, pc # "idle"
    PROVE  /\ Call \in Calls /\ call = {Call} /\ Call.d = slotno
           /\ IF Call.op = "init" THEN at \in InitLabels ELSE at = Call.op /\ stat[slotno]
<1>1. PICK c \in Calls : /\ call = {c} /\ c.d = slotno
                         /\ IF c.op = "init" THEN at \in InitLabels ELSE at = c.op /\ stat[c.d]
    BY DEF IInv, Progress, Serving, DriverSound, TypeOK
<1>2. Call = c
    BY <1>1 DEF Call
<1> QED BY <1>1, <1>2

LEMMA HereType ==
    ASSUME TypeOK
    PROVE  Here \in CardStates /\ slotno \in Sockets
BY DEF TypeOK, Here, CardStates

\* The driver's address of a sector is the one the card takes it for, where it knows the
\* card: small sectors numbers times 512 do not wrap.
LEMMA AddressRight ==
    ASSUME NEW s \in Sectors, NEW c, (type[slotno] = "SDHC") = (Kind[c] = "sdhc")
    PROVE  SectorAt(c, Address(s)) = s
<1>1. s \in Nat /\ s * SectorBytes < AddressMod /\ SectorBytes \in Nat \ {0} /\ AddressMod \in Nat
    BY SectorsAssumption
<1>2. CASE Kind[c] = "sdhc"
    BY <1>2 DEF SectorAt, Address
<1>3. CASE Kind[c] # "sdhc"
    <2>1. (s * SectorBytes) % AddressMod = s * SectorBytes
        <3>1. s * SectorBytes \in Nat
            BY <1>1
        <3> QED BY <1>1, <3>1
    <2>2. (s * SectorBytes) \div SectorBytes = s
        BY <1>1
    <2> QED BY <1>3, <2>1, <2>2 DEF SectorAt, Address
<1> QED BY <1>2, <1>3

\* What an answer can be, and what it tells of the card.
AnswerOf(k, c, hcs, r) ==
    /\ r.res \in {"none", "ok", "idle", "err"}
    /\ r.to \in CardStates /\ r.to.id = k.id /\ r.to.prog = k.prog
    /\ r.to.st # k.st => k.id # NoCard /\ ~IsBroken(k.id)
    /\ k.id = NoCard => r.res = "none"
    /\ r.to.st = "ready" /\ k.st # "ready" => ~(Kind[k.id] = "sdhc" /\ ~(c = "ACMD41" /\ hcs))
    /\ r.to.st # k.st => c \in {"CMD0", "ACMD41", "CMD1"}
    /\ c = "CMD0" /\ r.res = "idle" => r.to.st # "ready" \/ IsBroken(k.id)

LEMMA GoodAnswers ==
    ASSUME NEW k \in CardStates, NEW c, NEW a, NEW hcs, NEW r \in Good(k, c, a, hcs),
           k.id \in Cards, Kind[k.id] # "broken"
    PROVE  AnswerOf(k, c, hcs, r)
<1> USE DEF AnswerOf, CardStates, R1, Stays, IsBroken
<1>0. k.id # NoCard
    BY CardsAssumption
<1>1. CASE c = "CMD0"
    BY <1>0, <1>1 DEF Good
<1>2. CASE c \in {"CMD8", "CMD55"}
    BY <1>0, <1>2 DEF Good
<1>3. CASE c \in {"ACMD41", "CMD1"}
    BY <1>0, <1>3 DEF Good, ReadyOrNot
<1>4. CASE c \notin {"CMD0", "CMD8", "CMD55", "ACMD41", "CMD1"}
    BY <1>0, <1>4 DEF Good
<1> QED BY <1>1, <1>2, <1>3, <1>4

LEMMA AnswersAre ==
    ASSUME NEW k \in CardStates, NEW c, NEW a, NEW hcs, NEW r \in Answers(k, c, a, hcs)
    PROVE  AnswerOf(k, c, hcs, r)
<1>1. CASE IsBroken(k.id) \/ k.id = NoCard \/ (k.st = "power" /\ c # "CMD0")
    BY <1>1, CardsAssumption DEF Answers, AnswerOf, Stays, IsBroken, CardStates
<1>2. CASE ~(IsBroken(k.id) \/ k.id = NoCard \/ (k.st = "power" /\ c # "CMD0"))
    <2>1. k.id \in Cards /\ Kind[k.id] # "broken"
        BY <1>2 DEF IsBroken, CardStates
    <2>2. r \in Good(k, c, a, hcs) \cup {Stays(k, "err"), Stays(k, "none")}
        BY <1>2 DEF Answers
    <2>3. CASE r \in {Stays(k, "err"), Stays(k, "none")}
        BY <1>2, <2>3 DEF AnswerOf, Stays
    <2> QED BY <2>1, <2>2, <2>3, GoodAnswers
<1> QED BY <1>1, <1>2

\* A transfer is only granted by a card that is ready and has the sector.
LEMMA GrantedBy ==
    ASSUME NEW k \in CardStates, NEW c \in {"CMD17", "CMD24"}, NEW a, NEW hcs,
           NEW r \in Answers(k, c, a, hcs), r.res = "ok"
    PROVE  IsBroken(k.id) \/ (k.st = "ready" /\ r.to = k /\ SectorAt(k.id, a) < Size)
<1> SUFFICES ASSUME ~IsBroken(k.id)
             PROVE  k.st = "ready" /\ r.to = k /\ SectorAt(k.id, a) < Size
    OBVIOUS
<1>1. k.id # NoCard /\ k.st # "power" /\ r \in Good(k, c, a, hcs)
    BY DEF Answers, Stays
<1>2. r = Stays(k, IF SectorAt(k.id, a) < Size THEN R1(k) ELSE "err")
    BY <1>1 DEF Good
<1> QED BY <1>1, <1>2 DEF Stays, R1, CardStates

-----------------------------------------------------------------------------
(* What the steps have in common. *)

\* A step that leaves the cards, what the driver knows of them, and the call.
SameCards == UNCHANGED <<sock, mem, stat, type, slotno, call, pulled, result, data>>

LEMMA CardsKept ==
    ASSUME IInv, SameCards
    PROVE  /\ CardsKnown' /\ AddressingFits' /\ Here' = Here /\ Call' = Call
           /\ sock' \in [Sockets -> CardStates] /\ mem' \in [Cards -> [0..Size - 1 -> Values]]
           /\ stat' \in [Sockets -> BOOLEAN] /\ slotno' \in Sockets
           /\ type' \in [Sockets -> {"none", "MMC3", "SDC1", "SDC2", "SDHC"}]
           /\ call' \subseteq Calls /\ pulled' \in BOOLEAN /\ data' \in Values
           /\ result' \in {"none", "ok", "error", "notrdy"}
<1>1. CardsKnown' /\ AddressingFits'
    BY DEF IInv, DriverSound, SameCards, CardsKnown, AddressingFits
<1>2. Here' = Here /\ Call' = Call
    BY DEF SameCards, Here, Call
<1>3. TypeOK
    BY DEF IInv, DriverSound
<1>4. /\ sock \in [Sockets -> CardStates] /\ mem \in [Cards -> [0..Size - 1 -> Values]]
      /\ stat \in [Sockets -> BOOLEAN] /\ slotno \in Sockets
      /\ type \in [Sockets -> {"none", "MMC3", "SDC1", "SDC2", "SDHC"}]
      /\ call \subseteq Calls /\ pulled \in BOOLEAN /\ data \in Values
      /\ result \in {"none", "ok", "error", "notrdy"}
    BY <1>3 DEF TypeOK, CardStates
<1> QED BY <1>1, <1>2, <1>4 DEF SameCards

\* The state of the driver after such a step.
LEMMA DriverMoves ==
    ASSUME IInv, SameCards, pc # "idle", pc' # "idle",
           pc' \in {"select", "busy", "command", "answered", "loop", "token", "data", "xbusy", "xdata"},
           res' \in {"none", "ok", "idle", "err"}, n' \in 0..Idles, ty' \in {"none", "MMC3", "SDC1"},
           t' \in 0..WaitBusy, t0' \in 0..InitLimit, cs' \in {cs, {slotno}, {}},
           Progress'
    PROVE  IInv'
<1>1. TypeOK'
    BY CardsKept DEF TypeOK, CardStates, IInv, DriverSound, InitLimit, WaitInit, WaitBusy, SameCards
<1>2. OneSelected' /\ WaitsAreShort'
    BY ClockAssumption DEF OneSelected, WaitsAreShort, IInv, DriverSound, SameCards, InitLimit, WaitInit, WaitBusy
<1> QED BY <1>1, <1>2, CardsKept DEF IInv, DriverSound

\* The parts of Progress that only speak of the call and its socket.
LEMMA CallServed ==
    ASSUME IInv, SameCards, pc # "idle", pc' # "idle",
           at' = at \/ (at \in InitLabels /\ at' \in InitLabels)
    PROVE  /\ (pc' = "idle") = (at' = "none")
           /\ at' \in InitLabels \cup {"read", "write", "sync", "none"}
           /\ call' # {} => \E c \in Calls : /\ call' = {c} /\ c.d = slotno'
                                            /\ IF c.op = "init" THEN at' \in InitLabels
                                                                ELSE at' = c.op /\ stat'[c.d]
<1>1. at # "none" /\ at \in InitLabels \cup {"read", "write", "sync", "none"}
    BY DEF IInv, Progress, Serving
<1>2. at' # "none" /\ at' \in InitLabels \cup {"read", "write", "sync", "none"}
    BY <1>1 DEF InitLabels
<1>3. Call \in Calls /\ call = {Call} /\ Call.d = slotno
    BY TheCall
<1>4. IF Call.op = "init" THEN at \in InitLabels ELSE at = Call.op /\ stat[slotno]
    BY TheCall
<1>5. IF Call.op = "init" THEN at' \in InitLabels ELSE at' = Call.op /\ stat'[slotno]
    <2>1. CASE Call.op = "init"
        BY <1>4, <2>1
    <2>2. CASE Call.op # "init"
        <3>1. Call.op \notin InitLabels
            BY <1>3, <2>2, CallType DEF IInv, DriverSound, InitLabels
        <3> QED BY <1>4, <2>2, <3>1 DEF SameCards
    <2> QED BY <2>1, <2>2
<1> QED BY <1>2, <1>3, <1>5 DEF SameCards

\* A step within send_cmd(): the socket, the place and the command are the same.
LEMMA SendingStep ==
    ASSUME IInv, SameCards, pc # "idle", UNCHANGED <<at, cmd, app, n, ty>>,
           pc' \in {"busy", "command", "answered", "xdata"},
           pc' = "xdata" => at = "write" /\ res' = "ok",
           pc' \in {"command", "xdata"} => Here.prog = {},
           res' \in {res, "none"}, t' \in 0..WaitBusy, t0' \in 0..InitLimit,
           cs' \in {cs, {slotno}, {}},
           Timed'
    PROVE  IInv'
<1>1. Here' = Here /\ Call' = Call
    BY CardsKept
<1>2. TypeOK /\ Serving /\ Commands /\ Absent /\ Granted /\ Settled /\ LowCapacity
    BY DEF IInv, Progress, DriverSound
<1>3. Serving'
    <2>1. pc' # "idle" /\ at' = at
        OBVIOUS
    <2>2. /\ (pc' = "idle") = (at' = "none")
          /\ at' \in InitLabels \cup {"read", "write", "sync", "none"}
          /\ call' # {} => \E c \in Calls : /\ call' = {c} /\ c.d = slotno'
                                           /\ IF c.op = "init" THEN at' \in InitLabels
                                                               ELSE at' = c.op /\ stat'[c.d]
        BY <2>1, CallServed
    <2>3. pc' # "loop" /\ pc' \notin {"token", "data", "xbusy"}
        OBVIOUS
    <2>4. pc' = "xdata" => at' = "write" /\ res' = "ok"
        OBVIOUS
    <2> QED BY <2>2, <2>3, <2>4 DEF Serving
<1>4. Commands' /\ Absent' /\ Granted'
    BY <1>1, <1>2 DEF Commands, Absent, Granted, SameCards
<1>5. Settled' /\ LowCapacity'
    BY <1>1, <1>2 DEF Settled, LowCapacity, SameCards
<1> QED BY <1>2, <1>3, <1>4, <1>5, DriverMoves DEF Progress, TypeOK

LEMMA TimesType ==
    ASSUME IInv
    PROVE  /\ t \in 0..WaitBusy /\ t0 \in 0..InitLimit /\ 0 \in 0..WaitBusy /\ 0 \in 0..InitLimit
           /\ Begun \in {0, 1, 2} /\ WaitBusy = 1 /\ WaitToken = 1 /\ WaitInit = 2 /\ InitLimit = 3
           /\ t \in 0..InitLimit
BY DEF IInv, DriverSound, TypeOK, WaitsAreShort, InitLimit, WaitInit, WaitBusy, WaitToken, Begun

LEMMA Sending ==
    ASSUME IInv, Select \/ CardReady \/ SelectTimeout
    PROVE  IInv'
<1>0. pc # "idle" /\ SameCards /\ UNCHANGED <<at, cmd, app, n, ty, t0>>
    BY DEF Select, CardReady, SelectTimeout, SameCards, card, drv, io
<1>1. Timed /\ Serving
    BY DEF IInv, Progress
<1>2. CASE Select
    <2>1. Timed'
        BY <1>0, <1>1, <1>2, TimesType DEF Timed, Begun, Select
    <2> QED BY <1>0, <1>2, <2>1, TimesType, SendingStep DEF Select
<1>3. CASE CardReady
    <2>1. Timed'
        BY <1>0, <1>1, <1>3, TimesType DEF Timed, Begun, CardReady
    <2> QED BY <1>0, <1>1, <1>3, <2>1, TimesType, SendingStep DEF CardReady, Quiet, Serving
<1>4. CASE SelectTimeout
    <2>1. Timed'
        BY <1>0, <1>1, <1>4, TimesType DEF Timed, Begun, SelectTimeout
    <2> QED BY <1>0, <1>4, <2>1, TimesType, SendingStep DEF SelectTimeout
<1> QED BY <1>2, <1>3, <1>4

\* Time passes, and nothing else.
LEMMA TimePasses ==
    ASSUME IInv, SameCards, pc # "idle", UNCHANGED <<at, cmd, app, n, ty, pc, res, cs>>,
           t' \in 0..WaitBusy, t0' \in 0..InitLimit, Timed'
    PROVE  IInv'
<1>1. Here' = Here /\ Call' = Call
    BY CardsKept
<1>2. TypeOK /\ Serving /\ Commands /\ Absent /\ Granted /\ Settled /\ LowCapacity
    BY DEF IInv, Progress, DriverSound
<1>3. Serving'
    BY <1>2 DEF Serving, SameCards
<1>4. Commands' /\ Absent' /\ Granted'
    BY <1>1, <1>2 DEF Commands, Absent, Granted, SameCards
<1>5. Settled' /\ LowCapacity'
    BY <1>1, <1>2 DEF Settled, LowCapacity, SameCards
<1>6. pc \in {"select", "busy", "command", "answered", "loop", "token", "data", "xbusy", "xdata"}
    BY <1>2 DEF TypeOK
<1> QED BY <1>2, <1>3, <1>4, <1>5, <1>6, DriverMoves DEF Progress, TypeOK

LEMMA Ticks ==
    ASSUME IInv, Tick
    PROVE  IInv'
<1>0. pc # "idle" /\ SameCards /\ UNCHANGED <<at, cmd, app, n, ty, pc, res, cs>>
    BY DEF Tick, Waiting, SameCards, card, drv, io, bus
<1>1. Timed /\ Serving /\ Commands /\ Absent /\ Granted /\ Settled /\ LowCapacity
    BY DEF IInv, Progress
<1>2. /\ Signed(t) = t /\ t % ClockMod = t /\ Signed(t0) = t0 /\ t0 % ClockMod = t0
    BY TimesType, ShortTimes
<1>3. CASE pc = "loop"
    <2>1. at \in {"hcs", "leave"} /\ t' = t /\ t0' = t0 + 1 /\ t0 < 2
        BY <1>0, <1>1, <1>2, <1>3, TimesType DEF Tick, Waiting, InTime, Serving
    <2>2. Timed'
        BY <1>0, <1>3, <2>1 DEF Timed
    <2>3. t' \in 0..WaitBusy /\ t0' \in 0..InitLimit
        BY <2>1, TimesType
    <2> QED BY <1>0, <2>2, <2>3, TimePasses
<1>4. CASE pc # "loop"
    <2>1. t = 0 /\ t' = 1
        BY <1>2, <1>4, TimesType DEF Tick, Waiting, InTime
    <2>2. t0' \in 0..InitLimit /\ Timed'
        BY <1>0, <1>1, <1>4, <2>1, TimesType DEF Timed, Begun, Tick, Waiting, Serving
    <2> QED BY <1>0, <2>1, <2>2, TimesType, TimePasses
<1> QED BY <1>3, <1>4

\* A step of mmc_disk_initialize() to its next command, or to the head of a loop.
LEMMA InitStep ==
    ASSUME IInv, SameCards, pc # "idle", at \in InitLabels, at' \in InitLabels,
           at = "cmd0" => res # "none",
           pc' \in {"select", "loop"}, pc' = "loop" => at' \in {"hcs", "leave"},
           res' = "none", n' \in 0..Idles, ty' \in {"none", "MMC3", "SDC1"},
           t' \in 0..WaitBusy, t0' \in 0..InitLimit, cs' = cs,
           Commands', LowCapacity', Timed'
    PROVE  IInv'
<1>1. Here' = Here /\ Call' = Call
    BY CardsKept
<1>2. Serving'
    <2>1. pc' # "idle"
        OBVIOUS
    <2>2. /\ (pc' = "idle") = (at' = "none")
          /\ at' \in InitLabels \cup {"read", "write", "sync", "none"}
          /\ call' # {} => \E c \in Calls : /\ call' = {c} /\ c.d = slotno'
                                           /\ IF c.op = "init" THEN at' \in InitLabels
                                                               ELSE at' = c.op /\ stat'[c.d]
        BY <2>1, CallServed
    <2>3. pc' \notin {"token", "data", "xbusy", "xdata"}
        OBVIOUS
    <2> QED BY <2>2, <2>3 DEF Serving
<1>3. Granted' /\ Settled'
    BY DEF Granted, Settled
<1>4. Absent'
    BY <1>1 DEF Absent, SameCards, IInv, Progress, InitLabels
<1> QED BY <1>2, <1>3, <1>4, DriverMoves DEF Progress

LEMMA InitSteps ==
    ASSUME IInv, AppCommand \/ IdleAgain \/ IsIdle \/ Version1 \/ SdOrMmc \/ Again \/ StillIdle
                 \/ (Version2 /\ pc' # "idle") \/ (LeftIdle /\ pc' # "idle")
    PROVE  IInv'
<1>0. pc # "idle" /\ SameCards /\ cs' = cs /\ t' = t /\ t0' \in {0, t0} /\ res' = "none"
    <2>1. CASE AppCommand \/ IdleAgain \/ IsIdle \/ Version1
        BY <2>1 DEF AppCommand, IdleAgain, IsIdle, Version1, Returned, SendCmd, SendAcmd, Begins,
                    SameCards, card, drv, io, local
    <2>2. CASE SdOrMmc \/ Again \/ StillIdle
        BY <2>2 DEF SdOrMmc, Again, StillIdle, Returned, SendCmd, SendAcmd, Begins, Loops,
                    SameCards, card, drv, io, local
    <2>3. CASE (Version2 /\ pc' # "idle") \/ (LeftIdle /\ pc' # "idle")
        BY <2>3 DEF Version2, LeftIdle, InitEnds, Ends, Rests, Returned, SendCmd, Begins, Loops,
                    SameCards, card, drv, io, local
    <2> QED BY <2>1, <2>2, <2>3
<1>1. /\ Timed /\ Serving /\ Commands /\ LowCapacity /\ Here' = Here
      /\ n \in 0..Idles /\ 0 \in 0..Idles /\ (n > 1 => n - 1 \in 0..Idles)
      /\ ty \in {"none", "MMC3", "SDC1"}
    BY <1>0, CardsKept, ClockAssumption DEF IInv, Progress, DriverSound, TypeOK
<1>2. t' \in 0..WaitBusy /\ t0' \in 0..InitLimit
    BY <1>0, TimesType
<1>3. CASE AppCommand
    <2>1. /\ at \in InitLabels /\ app = "ACMD41" /\ cmd = "CMD55" /\ res # "none" /\ at \notin {"cmd0", "cmd8"}
        BY <1>1, <1>3 DEF AppCommand, Accepted, Serving, Commands, InitLabels
    <2>2. UNCHANGED <<at, n, ty, t0>> /\ pc' = "select" /\ cmd' = app
        BY <1>3 DEF AppCommand, SendCmd, Begins, local
    <2>3. Commands' /\ LowCapacity'
        BY <1>0, <1>1, <2>1, <2>2 DEF Commands, LowCapacity, InitLabels
    <2>4. Timed'
        BY <1>1, <1>3, <2>1, <2>2, TimesType DEF Timed, Begun, AppCommand, InitLabels
    <2> QED BY <1>0, <1>1, <1>2, <2>1, <2>2, <2>3, <2>4, InitStep
<1>4. CASE IdleAgain \/ IsIdle
    <2>1. at = "cmd0" /\ res # "none" /\ n' \in 0..Idles /\ ty' = ty /\ pc' = "select"
        BY <1>1, <1>4 DEF IdleAgain, IsIdle, Returned, SendCmd, Begins, io
    <2>2. at' \in InitLabels /\ Commands' /\ LowCapacity'
        BY <1>0, <1>1, <1>4 DEF Commands, LowCapacity, IdleAgain, IsIdle, Returned, SendCmd, Begins, InitLabels
    <2>3. Timed'
        BY <1>1, <1>4, <2>1, TimesType DEF Timed, Begun, IdleAgain, IsIdle, SendCmd, Begins
    <2>4. at \in InitLabels
        BY <2>1 DEF InitLabels
    <2> QED BY <1>0, <1>1, <1>2, <2>1, <2>2, <2>3, <2>4, InitStep
<1>5. CASE Version2 /\ pc' # "idle"
    <2>1. /\ at = "cmd8" /\ at' = "hcs" /\ pc' = "loop" /\ UNCHANGED <<n, ty, t0>>
          /\ cmd' = "none" /\ pc = "answered"
        BY <1>5 DEF Version2, InitEnds, Ends, Rests, Returned, Loops, local
    <2>2. at \in InitLabels /\ at' \in InitLabels /\ Commands' /\ LowCapacity'
        BY <1>0, <2>1 DEF Commands, LowCapacity, InitLabels
    <2>3. Timed'
        BY <1>1, <2>1, TimesType DEF Timed, Begun
    <2> QED BY <1>0, <1>1, <1>2, <2>1, <2>2, <2>3, InitStep
<1>6. CASE Version1 \/ SdOrMmc
    <2>1. /\ at \in {"cmd8", "probe"} /\ at' \in {"probe", "leave"} /\ n' = n /\ t0' = t0 /\ pc = "answered"
          /\ ty' \in {"none", "MMC3", "SDC1"} /\ pc' \in {"select", "loop"}
          /\ pc' = "loop" => at' = "leave"
          /\ (cmd' = "CMD55" /\ app' = "ACMD41") \/ cmd' = "none"
        BY <1>1, <1>6 DEF Version1, SdOrMmc, Returned, SendAcmd, Begins, Loops, local
    <2>2. pc' = "select" => at = "cmd8" /\ cmd' = "CMD55" /\ at' = "probe"
        BY <1>6 DEF Version1, SdOrMmc, Returned, SendAcmd, Begins, Loops
    <2>3. at \in InitLabels /\ at' \in InitLabels /\ Commands' /\ LowCapacity'
        BY <1>0, <1>1, <2>1 DEF Commands, LowCapacity, InitLabels
    <2>4. Timed'
        BY <1>1, <2>1, <2>2, TimesType DEF Timed, Begun
    <2> QED BY <1>0, <1>1, <1>2, <2>1, <2>2, <2>3, <2>4, InitStep
<1>7. CASE Again
    <2>1. /\ at \in {"hcs", "leave"} /\ at' = at /\ UNCHANGED <<n, ty, t0>> /\ pc' = "select"
          /\ cmd' \in {"CMD55", "CMD1"} /\ (cmd' = "CMD55" => app' = "ACMD41")
          /\ InTime(t0, WaitInit)
        BY <1>1, <1>7 DEF Again, Serving, SendCmd, SendAcmd, Begins, local
    <2>2. at \in InitLabels /\ Commands' /\ LowCapacity'
        BY <1>0, <1>1, <2>1 DEF Commands, LowCapacity, InitLabels
    <2>3. Timed'
        BY <2>1, TimesType, ShortTimes DEF Timed, Begun, InTime
    <2> QED BY <1>0, <1>1, <1>2, <2>1, <2>2, <2>3, InitStep
<1>8. CASE StillIdle
    <2>1. /\ at \in {"hcs", "leave"} /\ at' = at /\ UNCHANGED <<n, ty, t0>> /\ pc' = "loop"
          /\ cmd' = "none"
        BY <1>8 DEF StillIdle, Returned, Loops, local
    <2>2. at \in InitLabels /\ Commands' /\ LowCapacity'
        BY <1>0, <1>1, <2>1 DEF Commands, LowCapacity, InitLabels
    <2>3. Timed'
        BY <2>1 DEF Timed
    <2> QED BY <1>0, <1>1, <1>2, <2>1, <2>2, <2>3, InitStep
<1>9. CASE LeftIdle /\ pc' # "idle"
    <2>1. /\ at \in {"hcs", "leave"} /\ UNCHANGED <<n, ty, t0>> /\ pc' = "select"
          /\ at' = (IF at = "hcs" THEN "ocr" ELSE "length") /\ InTime(t0, WaitInit)
          /\ cmd' \in {"CMD58", "CMD16"}
        BY <1>9 DEF LeftIdle, Returned, SendCmd, Begins, InitEnds, Ends, Rests, local
    <2>2. at \in InitLabels /\ at' \in InitLabels /\ Commands' /\ LowCapacity'
        BY <1>0, <1>1, <2>1 DEF Commands, LowCapacity, InitLabels
    <2>3. Timed'
        BY <2>1, TimesType, ShortTimes DEF Timed, Begun, InTime
    <2> QED BY <1>0, <1>1, <1>2, <2>1, <2>2, <2>3, InitStep
<1> QED BY <1>3, <1>4, <1>5, <1>6, <1>7, <1>8, <1>9

LEMMA DataSteps ==
    ASSUME IInv, WaitForToken \/ Token \/ WaitToSend
    PROVE  IInv'
<1>0. /\ pc # "idle" /\ SameCards /\ cs' = cs /\ t' \in {0, t} /\ res = "ok"
      /\ UNCHANGED <<at, cmd, app, res, n, ty, t0>>
      /\ pc' \in {"token", "data", "xbusy"}
      /\ at = (IF pc' = "xbusy" THEN "write" ELSE "read")
    BY DEF WaitForToken, Token, WaitToSend, Returned, SameCards, card, drv, io, local,
           IInv, Progress, Serving
<1>1. Here' = Here /\ Call' = Call
    BY <1>0, CardsKept
<1>2. TypeOK /\ Serving /\ Commands /\ Absent /\ Granted /\ Settled /\ LowCapacity /\ Timed
    BY DEF IInv, Progress, DriverSound
<1>3. Serving'
    <2>1. pc' # "idle" /\ at' = at
        BY <1>0
    <2>2. /\ (pc' = "idle") = (at' = "none")
          /\ at' \in InitLabels \cup {"read", "write", "sync", "none"}
          /\ call' # {} => \E c \in Calls : /\ call' = {c} /\ c.d = slotno'
                                           /\ IF c.op = "init" THEN at' \in InitLabels
                                                               ELSE at' = c.op /\ stat'[c.d]
        BY <1>0, <2>1, CallServed
    <2> QED BY <1>0, <2>2 DEF Serving
<1>4. Commands' /\ Absent' /\ Granted'
    BY <1>0, <1>1, <1>2 DEF Commands, Absent, Granted, SameCards
<1>5. Settled' /\ LowCapacity' /\ Timed'
    BY <1>0, <1>1, <1>2 DEF Settled, LowCapacity, SameCards, Timed
<1>6. n' \in 0..Idles /\ ty' \in {"none", "MMC3", "SDC1"} /\ res' \in {"none", "ok", "idle", "err"}
    BY <1>0, <1>2 DEF TypeOK
<1> QED BY <1>0, <1>2, <1>3, <1>4, <1>5, <1>6, TimesType, DriverMoves DEF Progress

-----------------------------------------------------------------------------
(* A call ends. *)

LEMMA AtRest ==
    ASSUME IInv, Rests, cs' = {},
           sock' \in [Sockets -> CardStates], CardsKnown',
           mem' \in [Cards -> [0..Size - 1 -> Values]], stat' \in [Sockets -> BOOLEAN],
           type' \in [Sockets -> {"none", "MMC3", "SDC1", "SDC2", "SDHC"}],
           slotno' \in Sockets, data' \in Values,
           result' \in {"none", "ok", "error", "notrdy"}, AddressingFits'
    PROVE  IInv'
<1>1. TypeOK'
    <2>1. /\ n' \in 0..Idles /\ t' \in 0..WaitBusy /\ t0' \in Nat
        BY ClockAssumption, TimesType DEF Rests
    <2>2. /\ pc' = "idle" /\ res' = "none" /\ ty' = "none" /\ call' = {} /\ pulled' = FALSE
        BY DEF Rests
    <2> QED BY <2>1, <2>2 DEF TypeOK, CardStates
<1>2. OneSelected' /\ WaitsAreShort'
    BY ClockAssumption, TimesType DEF OneSelected, WaitsAreShort, Rests
<1>3. Serving' /\ Commands' /\ Absent' /\ Granted'
    BY DEF Serving, Commands, Absent, Granted, Rests, InitLabels
<1>4. Settled' /\ LowCapacity' /\ Timed'
    <2>1. Settled' /\ LowCapacity'
        BY DEF Settled, LowCapacity, Rests
    <2> QED BY <2>1 DEF Timed, Rests
<1> QED BY <1>1, <1>2, <1>3, <1>4 DEF IInv, DriverSound, Progress

\* A transfer or a synchronisation ends: the cards are still addressed as they were.
LEMMA TransferEnds ==
    ASSUME IInv, Synced \/ Refused \/ NoToken \/ ReceiveBlock \/ SendTimeout
    PROVE  IInv'
<1>1. /\ Rests /\ cs' = {} /\ result' \in {"ok", "error"} /\ UNCHANGED <<card, drv>>
      /\ data' \in {data} \cup Values /\ pc # "idle" /\ at \in {"read", "write", "sync"}
    <2>1. /\ Rests /\ cs' = {} /\ result' \in {"ok", "error"} /\ UNCHANGED <<card, drv>>
          /\ data' \in {data} \cup Values /\ pc # "idle"
        BY DEF Synced, Refused, NoToken, ReceiveBlock, SendTimeout, Ends, Returned
    <2>2. at \in {"read", "write", "sync"}
        <3>1. CASE Synced
            BY <3>1 DEF Synced, IInv, Progress, Commands
        <3>2. CASE Refused
            BY <3>2 DEF Refused, Returned
        <3>3. CASE NoToken \/ ReceiveBlock \/ SendTimeout
            BY <3>3 DEF NoToken, ReceiveBlock, SendTimeout, IInv, Progress, Serving
        <3> QED BY <3>1, <3>2, <3>3
    <2> QED BY <2>1, <2>2
<1>2. TypeOK
    BY DEF IInv, DriverSound
<1>3. Call.op # "init" /\ call = {Call}
    BY <1>1, TheCall DEF InitLabels
<1>4. CardsKnown' /\ AddressingFits'
    BY <1>1, <1>3 DEF IInv, DriverSound, CardsKnown, AddressingFits, card, drv, Rests
<1> QED BY <1>1, <1>2, <1>4, AtRest DEF TypeOK, card, drv, CardStates

LEMMA Resets ==
    ASSUME IInv, Reset
    PROVE  IInv'
<1>1. TypeOK
    BY DEF IInv, DriverSound
<1>2. CardsKnown' /\ AddressingFits'
    BY DEF IInv, DriverSound, CardsKnown, AddressingFits, Reset, card
<1> QED BY <1>1, <1>2, SomeValue, AtRest DEF TypeOK, Reset, card, CardStates, Sockets

\* The initialisation ends, and the kind it found is the card's, if one answers.
LEMMA InitEnding ==
    ASSUME IInv, NEW k \in {"none", "MMC3", "SDC1", "SDC2", "SDHC"}, InitEnds(k),
           pc # "idle", at \in InitLabels,
           k # "none" /\ Here.st = "ready" => (k = "SDHC") = (Kind[Here.id] = "sdhc")
    PROVE  IInv'
<1>1. TypeOK
    BY DEF IInv, DriverSound
<1>2. /\ Rests /\ cs' = {} /\ result' \in {"ok", "error"} /\ UNCHANGED <<card, slotno, data>>
      /\ type' = [type EXCEPT ![slotno] = k]
      /\ stat' = [stat EXCEPT ![slotno] = k # "none"]
    BY DEF InitEnds, Ends
<1>3. call = {Call} /\ Call.op = "init" /\ Call.d = slotno
    BY TheCall, CallType, <1>1 DEF InitLabels
<1>4. CardsKnown'
    BY <1>2 DEF IInv, CardsKnown, card
<1>5. AddressingFits'
    <2> SUFFICES ASSUME NEW d \in Sockets, stat'[d], sock'[d].st = "ready"
                 PROVE  (type'[d] = "SDHC") = (Kind[sock'[d].id] = "sdhc")
        BY DEF AddressingFits
    <2>1. CASE d = slotno
        BY <1>1, <1>2, <2>1 DEF Here, card, TypeOK
    <2>2. CASE d # slotno
        BY <1>1, <1>2, <1>3, <2>2 DEF card, IInv, DriverSound, AddressingFits, TypeOK
    <2> QED BY <2>1, <2>2
<1>6. /\ stat' \in [Sockets -> BOOLEAN]
      /\ type' \in [Sockets -> {"none", "MMC3", "SDC1", "SDC2", "SDHC"}]
    BY <1>1, <1>2 DEF TypeOK
<1> QED BY <1>1, <1>2, <1>4, <1>5, <1>6, AtRest DEF TypeOK, card, CardStates

LEMMA InitCallEnds ==
    ASSUME IInv, IdleFails \/ LoopTimeout \/ Ocr \/ Length \/ (Version2 /\ pc' = "idle")
                 \/ (LeftIdle /\ pc' = "idle")
    PROVE  IInv'
<1>1. CASE IdleFails \/ LoopTimeout \/ (Version2 /\ pc' = "idle") \/ (LeftIdle /\ pc' = "idle")
    <2>1. InitEnds("none") /\ pc # "idle"
        BY <1>1 DEF IdleFails, LoopTimeout, Version2, LeftIdle, Returned, SendCmd, Begins, Loops
    <2>2. at \in InitLabels
        BY <1>1 DEF IdleFails, LoopTimeout, Version2, LeftIdle, Returned, InitLabels,
                    IInv, Progress, Serving
    <2> QED BY <2>1, <2>2, InitEnding
<1>2. CASE Ocr
    <2>1. PICK high \in BOOLEAN :
             /\ ~Talks(Here) => high
             /\ Talks(Here) /\ ~IsBroken(Here.id) => high = (Kind[Here.id] = "sdhc")
             /\ InitEnds(IF res # "ok" THEN "none" ELSE IF high THEN "SDHC" ELSE "SDC2")
        BY <1>2 DEF Ocr
    <2>2. Here.st = "ready" => Talks(Here) /\ ~IsBroken(Here.id)
        BY HereType DEF Talks, IsBroken, IInv, DriverSound, CardsKnown, Here
    <2>3. at \in InitLabels /\ pc # "idle"
        BY <1>2 DEF Ocr, Returned, InitLabels
    <2>4. CASE res # "ok"
        BY <2>1, <2>3, <2>4, InitEnding
    <2>5. CASE res = "ok" /\ high
        BY <2>1, <2>2, <2>3, <2>5, InitEnding
    <2>6. CASE res = "ok" /\ ~high
        BY <2>1, <2>2, <2>3, <2>6, InitEnding
    <2> QED BY <2>4, <2>5, <2>6
<1>3. CASE Length
    <2>1. at = "length" /\ at \in InitLabels /\ pc # "idle"
        BY <1>3 DEF Length, Returned, InitLabels
    <2>2. Here.st = "ready" => Kind[Here.id] # "sdhc"
        BY <2>1 DEF IInv, Progress, LowCapacity
    <2>3. ty \in {"none", "MMC3", "SDC1"}
        BY DEF IInv, DriverSound, TypeOK
    <2>4. CASE res = "ok"
        BY <1>3, <2>1, <2>2, <2>3, <2>4, InitEnding DEF Length
    <2>5. CASE res # "ok"
        BY <1>3, <2>1, <2>5, InitEnding DEF Length
    <2> QED BY <2>4, <2>5
<1> QED BY <1>1, <1>2, <1>3

\* The card takes the sector it was asked to take, with what the caller gave.
LEMMA RightSector ==
    ASSUME IInv, pc # "idle", at \in {"read", "write"}, res = "ok", Here.st = "ready"
    PROVE  /\ SectorAt(Here.id, Address(Call.s)) = Call.s
           /\ Call.s \in 0..Size - 1 /\ Call.v \in Values
           /\ Here.id \in Cards /\ Kind[Here.id] # "broken"
<1>1. TypeOK /\ SectorsAssumption
    BY SectorsAssumption DEF IInv, DriverSound
<1>2. Call \in Calls /\ call = {Call} /\ Call.op = at /\ Call.op # "init" /\ stat[slotno]
    BY TheCall DEF InitLabels
<1>3. (type[slotno] = "SDHC") = (Kind[Here.id] = "sdhc")
    BY <1>1, <1>2, HereType DEF IInv, DriverSound, AddressingFits, Here
<1>4. Call.s \in Sectors /\ Call.s \in Nat /\ Call.v \in Values
    BY <1>1, <1>2, CallType
<1>5. Call.s < Size /\ Size \in Nat
    BY SectorsAssumption DEF IInv, Progress, Granted
<1>6. Here.id \in Cards /\ Kind[Here.id] # "broken"
    BY <1>1, HereType DEF IInv, CardsKnown, Here
<1> QED BY <1>3, <1>4, <1>5, <1>6, AddressRight

LEMMA SendBlocks ==
    ASSUME IInv, SendBlock
    PROVE  IInv'
<1>1. /\ Rests /\ cs' = {} /\ result' \in {"ok", "error"} /\ UNCHANGED <<mem, drv, data>>
      /\ UNCHANGED sock \/ (Here.st = "ready" /\ Takes)
      /\ pc # "idle" /\ at = "write" /\ res = "ok"
    <2>1. pc = "xdata" /\ at = "write" /\ res = "ok"
        BY DEF SendBlock, IInv, Progress, Serving
    <2> QED BY <2>1 DEF SendBlock, Ends
<1>2. TypeOK /\ slotno \in Sockets /\ sock \in [Sockets -> CardStates]
    BY DEF IInv, DriverSound, TypeOK, CardStates
<1>3. Call.op # "init" /\ call = {Call}
    BY <1>1, TheCall DEF InitLabels
<1>4. CASE UNCHANGED sock
    <2>1. CardsKnown' /\ AddressingFits'
        BY <1>1, <1>3, <1>4 DEF IInv, DriverSound, CardsKnown, AddressingFits, drv, Rests
    <2> QED BY <1>1, <1>2, <1>4, <2>1, AtRest DEF TypeOK, drv
<1>5. CASE Here.st = "ready" /\ Takes
    <2> DEFINE block == [s |-> Call.s, v |-> Call.v]
    <2>1. /\ SectorAt(Here.id, Address(Call.s)) = Call.s
          /\ block \in [s : 0..Size - 1, v : Values]
          /\ Here.id \in Cards /\ Kind[Here.id] # "broken"
        BY <1>1, <1>5, RightSector
    <2>2. sock' = [sock EXCEPT ![slotno].prog = {block}]
        BY <1>5, <2>1 DEF Takes
    <2> HIDE DEF block
    <2>3. sock' \in [Sockets -> CardStates]
        BY <1>2, <2>1, <2>2 DEF CardStates
    <2>4. \A d \in Sockets : /\ sock'[d].id = sock[d].id /\ sock'[d].st = sock[d].st
                             /\ d # slotno => sock'[d] = sock[d]
        BY <1>2, <2>2 DEF CardStates
    <2>5. sock'[slotno].prog = {block} /\ sock[slotno].id \in Cards /\ Kind[sock[slotno].id] # "broken"
        BY <1>2, <2>1, <2>2 DEF CardStates, Here
    <2>6. CardsKnown'
        <3>1. sock[0].id = sock[1].id => sock[0].id = NoCard
            BY DEF IInv, CardsKnown
        <3>2. sock'[0].id = sock'[1].id => sock'[0].id = NoCard
            BY <2>4, <3>1 DEF Sockets
        <3>3. ASSUME NEW d \in Sockets
              PROVE  /\ sock'[d].id = NoCard => sock'[d] = Empty
                     /\ sock'[d].st # "power" \/ sock'[d].prog # {} =>
                           sock'[d].id \in Cards /\ Kind[sock'[d].id] # "broken"
                     /\ \A v, w \in sock'[d].prog : v = w
            <4>1. CASE d = slotno
                BY <2>4, <2>5, <4>1, CardsAssumption
            <4>2. CASE d # slotno
                BY <2>4, <4>2 DEF IInv, CardsKnown
            <4> QED BY <4>1, <4>2
        <3> QED BY <3>2, <3>3 DEF CardsKnown, Empty
    <2>7. AddressingFits'
        BY <1>1, <1>3, <2>4 DEF IInv, DriverSound, AddressingFits, drv, Rests
    <2> QED BY <1>1, <1>2, <2>3, <2>6, <2>7, AtRest DEF TypeOK, drv
<1> QED BY <1>1, <1>4, <1>5

-----------------------------------------------------------------------------
(* A call begins, and is refused. *)

LEMMA CallBegins ==
    ASSUME IInv, NEW c \in Calls, Initialize(c) \/ Read(c) \/ Write(c) \/ Sync(c)
    PROVE  IInv'
<1>1. TypeOK /\ c.op \in {"init", "read", "write", "sync"} /\ c.d \in Sockets
    BY CallType DEF IInv, DriverSound
<1>2. /\ pc = "idle" /\ pc' = "select" /\ UNCHANGED <<card, stat, type, cs, ty, t, t0>> /\ res' = "none"
      /\ call' = {c} /\ slotno' = c.d /\ pulled' = FALSE /\ result' = "none" /\ data' = Any(Values)
      /\ n' \in {n, Idles}
    BY DEF Initialize, Read, Write, Sync, Accept, SendCmd, Begins, local
<1>3. /\ at' = (IF c.op = "init" THEN "cmd0" ELSE c.op)
      /\ cmd' = CASE c.op = "init" -> "CMD0" [] c.op = "read" -> "CMD17"
                  [] c.op = "write" -> "CMD24" [] c.op = "sync" -> "SYNC"
      /\ c.op # "init" => stat[c.d]
    BY <1>1 DEF Initialize, Read, Write, Sync, SendCmd, Begins
<1>4. /\ n' \in 0..Idles /\ Any(Values) \in Values /\ cs = {} /\ t0 = 0 /\ t0' = 0
    BY <1>1, <1>2, SomeValue, ClockAssumption
        DEF TypeOK, IInv, DriverSound, OneSelected, Progress, Timed, Serving
<1>5. TypeOK'
    <2>1. /\ sock' = sock /\ mem' = mem /\ stat' = stat /\ type' = type /\ ty' = ty /\ t' = t
        BY <1>2 DEF card
    <2>2. call' \subseteq Calls /\ call' # {}
        BY <1>2
    <2> QED BY <1>1, <1>2, <1>4, <2>1, <2>2 DEF TypeOK
<1>6. OneSelected' /\ WaitsAreShort'
    BY <1>1, <1>2, <1>4, TimesType, ClockAssumption DEF OneSelected, WaitsAreShort
<1>7. AddressingFits' /\ CardsKnown'
    <2>1. call = {}
        BY <1>1, <1>2 DEF TypeOK
    <2> QED BY <1>2, <2>1 DEF IInv, DriverSound, CardsKnown, AddressingFits, card
<1>8. Serving' /\ Commands'
    <2>1. Serving'
        BY <1>1, <1>2, <1>3 DEF Serving, InitLabels
    <2>2. cmd' # "CMD55"
        BY <1>1, <1>3
    <2> QED BY <1>1, <1>3, <2>1, <2>2 DEF Commands
<1>9. Absent' /\ Granted' /\ Settled'
    <2>1. at' \in {"cmd0", "read", "write", "sync"}
        BY <1>1, <1>3
    <2> QED BY <1>2, <2>1 DEF Absent, Granted, Settled
<1>10. LowCapacity' /\ Timed'
    BY <1>1, <1>2, <1>3, <1>4, TimesType DEF LowCapacity, Timed, Begun
<1> QED BY <1>5, <1>6, <1>7, <1>8, <1>9, <1>10 DEF IInv, DriverSound, Progress

LEMMA Refuses ==
    ASSUME IInv, NEW c \in Calls, Refuse(c)
    PROVE  IInv'
<1>1. TypeOK /\ c.d \in Sockets
    BY CallType DEF IInv, DriverSound
<1>2. /\ pc = "idle" /\ UNCHANGED <<sock, mem, stat, type, cs, pc, at, cmd, app, res, n, ty, t, t0, call>>
      /\ slotno' = c.d /\ pulled' = FALSE /\ result' = "notrdy" /\ data' = Any(Values)
    BY DEF Refuse, card, bus, local
<1>3. call = {} /\ at = "none" /\ cs = {} /\ t0 = 0 /\ t \in 0..WaitBusy /\ at \notin InitLabels
    BY <1>1, <1>2 DEF TypeOK, IInv, DriverSound, OneSelected, Progress, Serving, Timed, InitLabels
<1>4. TypeOK'
    BY <1>1, <1>2, SomeValue DEF TypeOK
<1>5. OneSelected' /\ WaitsAreShort' /\ AddressingFits' /\ CardsKnown'
    BY <1>2, <1>3 DEF OneSelected, WaitsAreShort, AddressingFits, CardsKnown, IInv, DriverSound
<1>6. Serving' /\ Commands' /\ Absent' /\ Granted' /\ LowCapacity' /\ Timed'
    BY <1>2, <1>3 DEF Serving, Commands, Absent, Granted, LowCapacity, Timed, IInv, Progress
<1>7. Settled'
    BY <1>2, <1>3 DEF Settled, IInv, Progress, Serving
<1> QED BY <1>4, <1>5, <1>6, <1>7 DEF IInv, DriverSound, Progress

-----------------------------------------------------------------------------
(* The cards, and whoever puts them in and pulls them. *)

LEMMA CardMoves ==
    ASSUME IInv, UNCHANGED <<drv, bus, local, call, result, data>>,
           sock' \in [Sockets -> CardStates], mem' \in [Cards -> [0..Size - 1 -> Values]],
           pulled' \in BOOLEAN, CardsKnown', AddressingFits',
           Absent', Granted', Settled', LowCapacity'
    PROVE  IInv'
<1>1. TypeOK' /\ OneSelected' /\ WaitsAreShort'
    BY DEF IInv, DriverSound, TypeOK, OneSelected, WaitsAreShort, drv, bus, local, CardStates
<1>2. Serving' /\ Commands' /\ Timed'
    <2>1. Begun' = Begun
        BY DEF Begun, bus
    <2> QED BY <2>1 DEF IInv, Progress, Serving, Commands, Timed, drv, bus, local
<1> QED BY <1>1, <1>2 DEF IInv, DriverSound, Progress

LEMMA Stores ==
    ASSUME IInv, NEW d \in Sockets, Store(d)
    PROVE  IInv'
<1>1. /\ TypeOK /\ sock \in [Sockets -> CardStates] /\ slotno \in Sockets
      /\ mem \in [Cards -> [0..Size - 1 -> Values]]
    BY DEF IInv, DriverSound, TypeOK, CardStates
<1>2. /\ sock' = [sock EXCEPT ![d].prog = {}] /\ UNCHANGED <<drv, bus, local, io>>
      /\ sock[d].id \in Cards /\ Kind[sock[d].id] # "broken"
    BY DEF Store, IInv, CardsKnown
<1>3. PICK w \in sock[d].prog : mem' = [mem EXCEPT ![sock[d].id][w.s] = w.v]
    BY DEF Store
<1>4. w.s \in 0..Size - 1 /\ w.v \in Values
    BY <1>1 DEF CardStates
<1>5. mem' \in [Cards -> [0..Size - 1 -> Values]]
    BY <1>1, <1>2, <1>3, <1>4
<1>6. sock' \in [Sockets -> CardStates]
    BY <1>1, <1>2 DEF CardStates
<1>7. \A e \in Sockets : /\ sock'[e].id = sock[e].id /\ sock'[e].st = sock[e].st
                         /\ sock'[e].prog \subseteq sock[e].prog
                         /\ e # d => sock'[e] = sock[e]
    BY <1>1, <1>2 DEF CardStates
<1>8. CardsKnown'
    <2>1. sock'[0].id = sock'[1].id => sock'[0].id = NoCard
        BY <1>7 DEF IInv, CardsKnown, Sockets
    <2>2. ASSUME NEW e \in Sockets
          PROVE  /\ sock'[e].id = NoCard => sock'[e] = Empty
                 /\ sock'[e].st # "power" \/ sock'[e].prog # {} =>
                       sock'[e].id \in Cards /\ Kind[sock'[e].id] # "broken"
                 /\ \A v, u \in sock'[e].prog : v = u
        BY <1>2, <1>7, CardsAssumption DEF IInv, CardsKnown
    <2> QED BY <2>1, <2>2 DEF CardsKnown, Empty
<1>9. AddressingFits'
    BY <1>2, <1>7 DEF IInv, DriverSound, AddressingFits, drv, io
<1>10. /\ Here'.id = Here.id /\ Here'.st = Here.st /\ Here'.prog \subseteq Here.prog
       /\ Call' = Call /\ slotno' = slotno
    BY <1>1, <1>2, <1>7 DEF Here, Call, drv, io
<1>11. Absent' /\ Granted' /\ Settled' /\ LowCapacity'
    BY <1>2, <1>10 DEF IInv, Progress, Absent, Granted, Settled, LowCapacity, IsBroken, io, bus
<1>12. pulled' \in BOOLEAN /\ UNCHANGED <<drv, bus, local, call, result, data>>
    BY <1>1, <1>2 DEF io, TypeOK
<1> QED BY <1>5, <1>6, <1>8, <1>9, <1>11, <1>12, CardMoves

\* A socket gets a card that has not heard anything, or none.
LEMMA Changed ==
    ASSUME IInv, NEW d \in Sockets, NEW c \in Cards \cup {NoCard},
           sock' = [sock EXCEPT ![d] = [id |-> c, st |-> "power", prog |-> {}]],
           c # NoCard => \A e \in Sockets : sock[e].id # c
    PROVE  /\ sock' \in [Sockets -> CardStates] /\ CardsKnown'
           /\ sock'[d] = [id |-> c, st |-> "power", prog |-> {}]
           /\ \A e \in Sockets : e # d => sock'[e] = sock[e]
<1>1. sock \in [Sockets -> CardStates]
    BY DEF IInv, DriverSound, TypeOK, CardStates
<1>2. [id |-> c, st |-> "power", prog |-> {}] \in CardStates
    BY DEF CardStates
<1>3. /\ sock' \in [Sockets -> CardStates]
      /\ sock'[d] = [id |-> c, st |-> "power", prog |-> {}]
      /\ \A e \in Sockets : e # d => sock'[e] = sock[e]
    BY <1>1, <1>2
<1>4. CardsKnown'
    <2>1. sock'[0].id = sock'[1].id => sock'[0].id = NoCard
        BY <1>3 DEF IInv, CardsKnown, Sockets
    <2>2. ASSUME NEW e \in Sockets
          PROVE  /\ sock'[e].id = NoCard => sock'[e] = Empty
                 /\ sock'[e].st # "power" \/ sock'[e].prog # {} =>
                       sock'[e].id \in Cards /\ Kind[sock'[e].id] # "broken"
                 /\ \A v, u \in sock'[e].prog : v = u
        <3>1. CASE e = d
            BY <1>3, <3>1 DEF Empty
        <3>2. CASE e # d
            BY <1>3, <3>2 DEF IInv, CardsKnown
        <3> QED BY <3>1, <3>2
    <2> QED BY <2>1, <2>2 DEF CardsKnown, Empty
<1> QED BY <1>3, <1>4

LEMMA Inserts ==
    ASSUME IInv, NEW d \in Sockets, NEW c \in Cards, InsertCard(d, c)
    PROVE  IInv'
<1>1. TypeOK /\ slotno \in Sockets
    BY DEF IInv, DriverSound, TypeOK
<1>2. /\ sock[d] = Empty /\ UNCHANGED <<mem, drv, bus, local, io>>
      /\ \A e \in Sockets : sock[e].id # c
      /\ sock' = [sock EXCEPT ![d] = [id |-> c, st |-> "power", prog |-> {}]]
    <2>1. sock[d] = Empty /\ UNCHANGED <<mem, drv, bus, local, io>> /\ \A e \in Sockets : sock[e].id # c
        BY DEF InsertCard
    <2>2. sock' = [sock EXCEPT ![d] = [sock[d] EXCEPT !.id = c]]
        BY DEF InsertCard
    <2>3. [Empty EXCEPT !.id = c] = [id |-> c, st |-> "power", prog |-> {}]
        BY DEF Empty
    <2>4. [sock[d] EXCEPT !.id = c] = [id |-> c, st |-> "power", prog |-> {}]
        BY <2>1, <2>3
    <2> QED BY <2>1, <2>2, <2>4
<1>3. /\ sock' \in [Sockets -> CardStates] /\ CardsKnown'
      /\ sock'[d] = [id |-> c, st |-> "power", prog |-> {}]
      /\ \A e \in Sockets : e # d => sock'[e] = sock[e]
    BY <1>2, Changed
<1>4. AddressingFits'
    BY <1>2, <1>3 DEF IInv, DriverSound, AddressingFits, drv, io
<1>5. Call' = Call /\ slotno' = slotno
    BY <1>2 DEF Call, io, drv
<1>6. CASE d = slotno
    <2>1. Here = Empty /\ Here'.id = c /\ Here'.st = "power" /\ Here'.prog = {}
        BY <1>2, <1>3, <1>5, <1>6 DEF Here
    <2>2. c # NoCard /\ ~IsBroken(NoCard)
        BY CardsAssumption DEF IsBroken
    <2>3. Absent' /\ Granted' /\ Settled' /\ LowCapacity'
        BY <1>2, <1>5, <2>1, <2>2
            DEF IInv, Progress, Absent, Granted, Settled, LowCapacity, Empty, io, bus
    <2> QED BY <1>1, <1>2, <1>3, <1>4, <2>3, CardMoves DEF io, TypeOK
<1>7. CASE d # slotno
    <2>1. Here' = Here
        BY <1>1, <1>3, <1>5, <1>7 DEF Here
    <2>2. Absent' /\ Granted' /\ Settled' /\ LowCapacity'
        BY <1>2, <1>5, <2>1 DEF IInv, Progress, Absent, Granted, Settled, LowCapacity, io, bus
    <2> QED BY <1>1, <1>2, <1>3, <1>4, <2>2, CardMoves DEF io, TypeOK
<1> QED BY <1>6, <1>7

LEMMA Removes ==
    ASSUME IInv, NEW d \in Sockets, RemoveCard(d)
    PROVE  IInv'
<1>1. /\ TypeOK /\ slotno \in Sockets /\ sock \in [Sockets -> CardStates]
      /\ mem \in [Cards -> [0..Size - 1 -> Values]] /\ pulled \in BOOLEAN
    BY DEF IInv, DriverSound, TypeOK, CardStates
<1>2. /\ UNCHANGED <<drv, bus, local, call, result, data>>
      /\ pulled' = (pulled \/ (call # {} /\ d = slotno))
      /\ sock' = [sock EXCEPT ![d] = [id |-> NoCard, st |-> "power", prog |-> {}]]
    BY DEF RemoveCard, Empty
<1>3. /\ sock' \in [Sockets -> CardStates] /\ CardsKnown'
      /\ sock'[d] = [id |-> NoCard, st |-> "power", prog |-> {}]
      /\ \A e \in Sockets : e # d => sock'[e] = sock[e]
    BY <1>2, Changed
<1>4. AddressingFits'
    BY <1>2, <1>3 DEF IInv, DriverSound, AddressingFits, drv
<1>5. mem' \in [Cards -> [0..Size - 1 -> Values]]
    <2>1. CASE \E w \in sock[d].prog, v \in Values : mem' = [mem EXCEPT ![sock[d].id][w.s] = v]
        <3>1. PICK w \in sock[d].prog, v \in Values : mem' = [mem EXCEPT ![sock[d].id][w.s] = v]
            BY <2>1
        <3>2. sock[d].id \in Cards /\ w.s \in 0..Size - 1
            BY <1>1, <3>1 DEF IInv, CardsKnown, CardStates
        <3> QED BY <1>1, <3>1, <3>2
    <2>2. CASE UNCHANGED mem
        BY <1>1, <2>2
    <2> QED BY <2>1, <2>2 DEF RemoveCard
<1>6. Call' = Call /\ slotno' = slotno
    BY <1>2 DEF Call, drv
<1>7. CASE d = slotno
    <2>1. Here'.id = NoCard /\ Here'.st = "power" /\ Here'.prog = {}
        BY <1>2, <1>3, <1>6, <1>7 DEF Here
    <2>2. at \in {"read", "write"} => call # {}
        BY <1>1 DEF IInv, Progress, Serving, TypeOK
    <2>3. pulled' = (pulled \/ call # {})
        BY <1>2, <1>7
    <2>4. Absent' /\ Granted' /\ Settled' /\ LowCapacity'
        BY <1>2, <1>6, <2>1, <2>2, <2>3 DEF Absent, Granted, Settled, LowCapacity, bus
    <2> QED BY <1>1, <1>2, <1>3, <1>4, <1>5, <2>4, CardMoves
<1>8. CASE d # slotno
    <2>1. Here' = Here
        BY <1>1, <1>3, <1>6, <1>8 DEF Here
    <2>2. Absent' /\ Granted' /\ Settled' /\ LowCapacity'
        BY <1>1, <1>2, <1>6, <1>8, <2>1 DEF IInv, Progress, Absent, Granted, Settled, LowCapacity, bus
    <2> QED BY <1>1, <1>2, <1>3, <1>4, <1>5, <2>2, CardMoves
<1> QED BY <1>7, <1>8

-----------------------------------------------------------------------------
(* The command and its answer. *)

\* What the answer leaves of the card, and that it was asked in a way it understands.
LEMMA Commanded ==
    ASSUME IInv, NEW r, r \in Answers(Here, cmd, Address(Call.s), at = "hcs"),
           res' = r.res, sock' = [sock EXCEPT ![slotno] = r.to], UNCHANGED <<slotno, call>>,
           pc = "command"
    PROVE  /\ AnswerOf(Here, cmd, at = "hcs", r) /\ Here' = r.to
           /\ sock' \in [Sockets -> CardStates]
           /\ \A d \in Sockets : d # slotno => sock'[d] = sock[d]
           /\ sock'[slotno] = r.to /\ sock[slotno] = Here
           /\ CardsKnown' /\ Call' = Call /\ Here.prog = {} /\ Here'.prog = {}
<1>1. TypeOK /\ Here \in CardStates /\ slotno \in Sockets /\ sock \in [Sockets -> CardStates]
    BY HereType DEF IInv, DriverSound, TypeOK, CardStates
<1>2. AnswerOf(Here, cmd, at = "hcs", r)
    BY <1>1, AnswersAre
<1>3. r.to \in CardStates /\ r.to.id = Here.id /\ r.to.prog = Here.prog
    BY <1>2 DEF AnswerOf
<1>4. /\ sock' \in [Sockets -> CardStates]
      /\ \A d \in Sockets : d # slotno => sock'[d] = sock[d]
      /\ sock'[slotno] = r.to /\ sock[slotno] = Here /\ Here' = r.to
    BY <1>1, <1>3 DEF Here
<1>5. Call' = Call /\ Here.prog = {} /\ Here'.prog = {}
    BY <1>3, <1>4 DEF Call, IInv, Progress, Settled
<1>6. CardsKnown'
    <2>1. sock'[0].id = sock'[1].id => sock'[0].id = NoCard
        BY <1>1, <1>3, <1>4 DEF IInv, CardsKnown, Sockets
    <2>2. ASSUME NEW e \in Sockets
          PROVE  /\ sock'[e].id = NoCard => sock'[e] = Empty
                 /\ sock'[e].st # "power" \/ sock'[e].prog # {} =>
                       sock'[e].id \in Cards /\ Kind[sock'[e].id] # "broken"
                 /\ \A v, w \in sock'[e].prog : v = w
        <3>1. CASE e # slotno
            BY <1>4, <3>1 DEF IInv, CardsKnown
        <3>2. CASE e = slotno
            <4>1. Here.id = NoCard => Here = Empty
                BY <1>1, <1>4 DEF IInv, CardsKnown
            <4>2. r.to.st = Here.st => r.to = Here
                BY <1>1, <1>3 DEF CardStates
            <4>3. r.to.st # Here.st => Here.id \in Cards /\ Kind[Here.id] # "broken"
                BY <1>1, <1>2 DEF AnswerOf, IsBroken, CardStates
            <4>4. Here.st # "power" => Here.id \in Cards /\ Kind[Here.id] # "broken"
                BY <1>1, <1>4 DEF IInv, CardsKnown
            <4> QED BY <1>3, <1>4, <1>5, <3>2, <4>1, <4>2, <4>3, <4>4, CardsAssumption
        <3> QED BY <3>1, <3>2
    <2> QED BY <2>1, <2>2 DEF CardsKnown, Empty
<1> QED BY <1>2, <1>4, <1>5, <1>6

LEMMA CommandStep ==
    ASSUME IInv, Command
    PROVE  IInv'
<1>1. /\ pc = "command" /\ cmd # "SYNC" /\ pc' = "answered"
      /\ UNCHANGED <<mem, drv, cs, at, cmd, app, local, io>>
    BY DEF Command
<1>2. PICK r \in Answers(Here, cmd, Address(Call.s), at = "hcs") :
                res' = r.res /\ sock' = [sock EXCEPT ![slotno] = r.to]
    BY DEF Command
<1>3. /\ AnswerOf(Here, cmd, at = "hcs", r) /\ Here' = r.to
      /\ sock' \in [Sockets -> CardStates]
      /\ \A d \in Sockets : d # slotno => sock'[d] = sock[d]
      /\ sock'[slotno] = r.to /\ sock[slotno] = Here
      /\ CardsKnown' /\ Call' = Call /\ Here.prog = {} /\ Here'.prog = {}
    BY <1>1, <1>2, Commanded DEF drv, io
<1>4. TypeOK /\ Here \in CardStates /\ slotno \in Sockets
    BY HereType DEF IInv, DriverSound
<1>5. /\ Call \in Calls /\ call = {Call} /\ Call.d = slotno
      /\ IF Call.op = "init" THEN at \in InitLabels ELSE at = Call.op /\ stat[slotno]
    BY <1>1, TheCall
<1>6. /\ Serving /\ Commands /\ Absent /\ Granted /\ Settled /\ LowCapacity /\ Timed
      /\ OneSelected /\ AddressingFits /\ WaitsAreShort
    BY DEF IInv, Progress, DriverSound
<1>7. at \in {"read", "write"} => cmd \in {"CMD17", "CMD24"}
    BY <1>6 DEF Commands
<1>8. TypeOK'
    <2>1. res' \in {"none", "ok", "idle", "err"}
        BY <1>2, <1>3 DEF AnswerOf
    <2> QED BY <1>1, <1>3, <1>4, <2>1 DEF TypeOK, drv, local, io, CardStates
<1>9. OneSelected' /\ WaitsAreShort'
    BY <1>1, <1>6 DEF OneSelected, WaitsAreShort, drv, local
<1>10. AddressingFits'
    <2> SUFFICES ASSUME NEW d \in Sockets, stat[d], sock'[d].st = "ready",
                        \A c \in call : c.op = "init" => c.d # d
                 PROVE  (type[d] = "SDHC") = (Kind[sock'[d].id] = "sdhc")
        BY <1>1 DEF AddressingFits, drv, io
    <2>1. CASE d # slotno
        BY <1>3, <1>6, <2>1 DEF AddressingFits
    <2>2. CASE d = slotno
        <3>1. Call.op # "init"
            BY <1>5, <2>2
        <3>2. at \in {"read", "write", "sync"}
            BY <1>4, <1>5, <3>1, CallType
        <3>3. cmd \in {"CMD17", "CMD24"}
            BY <1>1, <1>6, <3>2 DEF Commands
        <3>4. r.to.st = Here.st /\ r.to.id = Here.id
            BY <1>3, <3>3 DEF AnswerOf
        <3> QED BY <1>3, <1>6, <2>2, <3>4 DEF AddressingFits
    <2> QED BY <2>1, <2>2
<1>11. Serving' /\ Commands' /\ Timed'
    <2>1. Begun' = Begun
        BY <1>1 DEF Begun
    <2> QED BY <1>1, <1>6, <2>1 DEF Serving, Commands, Timed, drv, local, io
<1>12. Absent'
    BY <1>1, <1>2, <1>3, <1>6 DEF Absent, AnswerOf, io
<1>13. Granted'
    <2> SUFFICES ASSUME at \in {"read", "write"}, r.res = "ok"
                 PROVE  /\ pulled \/ IsBroken(Here'.id) \/ Here'.st = "ready"
                        /\ Here'.st = "ready" => Call.s < Size
        BY <1>1, <1>2, <1>3 DEF Granted, io
    <2>1. IsBroken(Here.id) \/ (Here.st = "ready" /\ r.to = Here /\ SectorAt(Here.id, Address(Call.s)) < Size)
        BY <1>4, <1>7, GrantedBy
    <2>2. CASE IsBroken(Here.id)
        <3>1. r.to.id = Here.id /\ r.to.st = Here.st
            BY <1>3, <2>2 DEF AnswerOf
        <3>2. Here.st # "ready"
            BY <1>3, <1>4, <2>2 DEF IInv, CardsKnown, IsBroken
        <3> QED BY <1>3, <2>2, <3>1, <3>2
    <2>3. CASE Here.st = "ready" /\ r.to = Here /\ SectorAt(Here.id, Address(Call.s)) < Size
        <3>1. Call.op # "init" /\ stat[slotno]
            BY <1>5 DEF InitLabels
        <3>2. (type[slotno] = "SDHC") = (Kind[Here.id] = "sdhc")
            BY <1>3, <1>4, <1>5, <1>6, <2>3, <3>1 DEF AddressingFits
        <3>3. SectorAt(Here.id, Address(Call.s)) = Call.s
            BY <1>4, <1>5, <3>2, CallType, AddressRight
        <3> QED BY <1>3, <2>3, <3>3
    <2> QED BY <2>1, <2>2, <2>3
<1>14. Settled'
    BY <1>3 DEF Settled
<1>15. LowCapacity'
    <2> SUFFICES ASSUME at \in {"cmd8", "probe", "leave", "length"} \/ (at = "cmd0" /\ r.res = "idle"),
                        Here'.st = "ready"
                 PROVE  Kind[Here'.id] # "sdhc"
        BY <1>1, <1>2 DEF LowCapacity
    <2>1. r.to.id = Here.id
        BY <1>3 DEF AnswerOf
    <2>2. CASE Here.st # "ready"
        BY <1>3, <2>1, <2>2 DEF AnswerOf
    <2>3. CASE Here.st = "ready" /\ at # "cmd0"
        BY <1>3, <1>6, <2>1, <2>3 DEF LowCapacity
    <2>4. CASE Here.st = "ready" /\ at = "cmd0"
        <3>1. cmd = "CMD0" /\ r.res = "idle"
            BY <1>6, <2>4 DEF Commands
        <3>2. IsBroken(Here.id)
            BY <1>3, <3>1 DEF AnswerOf
        <3> QED BY <1>3, <1>4, <2>4, <3>2 DEF IInv, CardsKnown, IsBroken
    <2> QED BY <2>2, <2>3, <2>4
<1> QED BY <1>3, <1>8, <1>9, <1>10, <1>11, <1>12, <1>13, <1>14, <1>15 DEF IInv, DriverSound, Progress

-----------------------------------------------------------------------------
\* What the driver knows of its cards holds when the sketch starts, and no step, of the
\* driver, of its callers or of the cards, disturbs it.
THEOREM Inductive == Spec => []IInv
<1>1. Init => IInv
    <2> SUFFICES ASSUME Init PROVE IInv
        OBVIOUS
    <2>1. /\ sock \in [Sockets -> CardStates]
          /\ \A d \in Sockets : /\ sock[d].st = "power" /\ sock[d].prog = {}
                                /\ sock[d].id = NoCard => sock[d] = Empty
        BY CardsAssumption DEF Init, CardStates, Empty
    <2>2. mem \in [Cards -> [0..Size - 1 -> Values]]
        BY ContentsAssumption DEF Init
    <2>3. TypeOK
        <3>1. n \in 0..Idles /\ t \in 0..WaitBusy /\ t0 \in Nat
            BY ClockAssumption DEF Init, WaitBusy
        <3> QED BY <2>1, <2>2, <3>1 DEF Init, TypeOK, CardStates, Sockets
    <2>4. OneSelected /\ WaitsAreShort
        BY ClockAssumption DEF Init, OneSelected, WaitsAreShort, InitLimit, WaitInit, WaitBusy
    <2>5. CardsKnown
        <3>1. sock[0].id = sock[1].id => sock[0].id = NoCard
            BY DEF Init, Empty
        <3> QED BY <2>1, <3>1 DEF CardsKnown
    <2>6. AddressingFits
        BY DEF Init, AddressingFits
    <2>7. Serving /\ Commands /\ Absent /\ Granted /\ Settled /\ LowCapacity
        BY DEF Init, Serving, Commands, Absent, Granted, Settled, LowCapacity, InitLabels
    <2>8. Timed
        BY DEF Init, Timed
    <2> QED BY <2>3, <2>4, <2>5, <2>6, <2>7, <2>8 DEF IInv, DriverSound, Progress
<1>2. IInv /\ [Next]_vars => IInv'
    <2> SUFFICES ASSUME IInv, [Next]_vars PROVE IInv'
        OBVIOUS
    <2>1. CASE \E c \in Calls : Refuse(c) \/ Initialize(c) \/ Read(c) \/ Write(c) \/ Sync(c)
        BY <2>1, Refuses, CallBegins
    <2>2. CASE Driver
        <3>1. CASE Select \/ CardReady \/ SelectTimeout
            BY <3>1, Sending
        <3>2. CASE Command
            BY <3>2, CommandStep
        <3>3. CASE AppCommand \/ IdleAgain \/ IsIdle \/ Version1 \/ SdOrMmc \/ Again \/ StillIdle
                   \/ (Version2 /\ pc' # "idle") \/ (LeftIdle /\ pc' # "idle")
            BY <3>3, InitSteps
        <3>4. CASE IdleFails \/ LoopTimeout \/ Ocr \/ Length \/ (Version2 /\ pc' = "idle")
                   \/ (LeftIdle /\ pc' = "idle")
            BY <3>4, InitCallEnds
        <3>5. CASE Synced \/ Refused \/ NoToken \/ ReceiveBlock \/ SendTimeout
            BY <3>5, TransferEnds
        <3>6. CASE WaitForToken \/ Token \/ WaitToSend
            BY <3>6, DataSteps
        <3>7. CASE SendBlock
            BY <3>7, SendBlocks
        <3> QED BY <2>2, <3>1, <3>2, <3>3, <3>4, <3>5, <3>6, <3>7 DEF Driver
    <2>3. CASE Tick
        BY <2>3, Ticks
    <2>4. CASE \E d \in Sockets : Store(d) \/ RemoveCard(d)
        BY <2>4, Stores, Removes
    <2>5. CASE \E d \in Sockets, c \in Cards : InsertCard(d, c)
        BY <2>5, Inserts
    <2>6. CASE Reset
        BY <2>6, Resets
    <2>7. CASE UNCHANGED vars
        <3>1. UNCHANGED <<sock, mem, stat, type, slotno, cs, pc, at, cmd, app, res,
                          n, ty, t, t0, call, pulled, result, data>>
            BY <2>7 DEF vars
        <3>2. Here' = Here /\ Call' = Call /\ Begun' = Begun
            BY <3>1 DEF Here, Call, Begun
        <3>3. DriverSound' /\ CardsKnown'
            BY <3>1 DEF IInv, DriverSound, TypeOK, OneSelected, AddressingFits, WaitsAreShort, CardsKnown
        <3> QED BY <3>1, <3>2, <3>3
            DEF IInv, Progress, Serving, Commands, Absent, Granted, Settled, LowCapacity, Timed
    <2> QED BY <2>1, <2>2, <2>3, <2>4, <2>5, <2>6, <2>7 DEF Next
<1> QED BY <1>1, <1>2, PTL DEF Spec

\* Whatever the cards do, the driver talks to one of them at a time, in sectors or in bytes
\* as that one understands, and waits for it no longer than its clocks can tell: whichever
\* cards there are, pulled and inserted at any moment.
THEOREM AlwaysSound == Spec => []DriverSound
<1>1. IInv => DriverSound
    BY DEF IInv
<1> QED BY <1>1, Inductive, PTL

-----------------------------------------------------------------------------
(* The promise of the interface: what a caller sees of the cards. *)

BrokenCards == {c \in Cards : Kind[c] = "broken"}
InsideOf(s) == [d \in Sockets |-> s[d].id]
PostedIn(s) == [c \in Cards |-> UNION {s[d].prog : d \in {e \in Sockets : s[e].id = c}}]
UpOf(f)     == {d \in Sockets : f[d]}

Apart(s) == s \in [Sockets -> CardStates] /\ (s[0].id = s[1].id => s[0].id = NoCard)

\* What a card has accepted is what its socket says, and nothing when it is in none.
LEMMA PostedOne ==
    ASSUME NEW s, Apart(s), NEW d \in Sockets, s[d].id \in Cards
    PROVE  PostedIn(s)[s[d].id] = s[d].prog
<1>1. {e \in Sockets : s[e].id = s[d].id} = {d}
    BY CardsAssumption DEF Apart, Sockets
<1>2. {s[e].prog : e \in {d}} = {s[d].prog}
    OBVIOUS
<1>3. PostedIn(s)[s[d].id] = UNION {s[d].prog}
    BY <1>1, <1>2 DEF PostedIn
<1> QED BY <1>3

LEMMA PostedNone ==
    ASSUME NEW s, NEW c \in Cards, \A d \in Sockets : s[d].id # c
    PROVE  PostedIn(s)[c] = {}
<1>1. {e \in Sockets : s[e].id = c} = {}
    OBVIOUS
<1> QED BY <1>1 DEF PostedIn

\* Only the cards' names and what they are storing matter to the caller.
LEMMA SameSeen ==
    ASSUME NEW s, NEW s2, \A d \in Sockets : s2[d].id = s[d].id /\ s2[d].prog = s[d].prog
    PROVE  InsideOf(s2) = InsideOf(s) /\ PostedIn(s2) = PostedIn(s)
<1>1. InsideOf(s2) = InsideOf(s)
    BY DEF InsideOf
<1>2. ASSUME NEW c \in Cards
      PROVE  UNION {s2[d].prog : d \in {e \in Sockets : s2[e].id = c}}
             = UNION {s[d].prog : d \in {e \in Sockets : s[e].id = c}}
    BY Zenon
<1>3. PostedIn(s2) = PostedIn(s)
    BY <1>2 DEF PostedIn
<1> QED BY <1>1, <1>3

\* One socket changes what is stored in it: so does its card.
LEMMA PostedChanges ==
    ASSUME NEW s, NEW s2, Apart(s), Apart(s2), NEW d \in Sockets, NEW p,
           s[d].id \in Cards, s2[d].prog = p, s2[d].id = s[d].id,
           \A e \in Sockets : e # d => s2[e] = s[e]
    PROVE  /\ PostedIn(s2) = [PostedIn(s) EXCEPT ![s[d].id] = p]
           /\ InsideOf(s2) = InsideOf(s)
<1>1. InsideOf(s2) = InsideOf(s)
    BY DEF InsideOf
<1>2. PostedIn(s2)[s[d].id] = p
    BY PostedOne
<1>3. ASSUME NEW c \in Cards, c # s[d].id
      PROVE  PostedIn(s2)[c] = PostedIn(s)[c]
    <2>1. CASE \E e \in Sockets : s[e].id = c
        <3>1. PICK e \in Sockets : s[e].id = c
            BY <2>1
        <3>2. e # d /\ s2[e] = s[e]
            BY <1>3, <3>1
        <3>3. PostedIn(s)[c] = s[e].prog /\ PostedIn(s2)[c] = s2[e].prog
            BY <3>1, <3>2, PostedOne
        <3> QED BY <3>2, <3>3
    <2>2. CASE \A e \in Sockets : s[e].id # c
        <3>1. \A e \in Sockets : s2[e].id # c
            BY <1>3, <2>2
        <3>2. PostedIn(s)[c] = {}
            BY <2>2, PostedNone
        <3>3. PostedIn(s2)[c] = {}
            BY <3>1, PostedNone
        <3> QED BY <3>2, <3>3
    <2> QED BY <2>1, <2>2
<1>4. PostedIn(s) = [c \in Cards |-> PostedIn(s)[c]] /\ PostedIn(s2) = [c \in Cards |-> PostedIn(s2)[c]]
    BY DEF PostedIn
<1>5. PostedIn(s2) = [PostedIn(s) EXCEPT ![s[d].id] = p]
    <2> HIDE DEF PostedIn
    <2> QED BY <1>2, <1>3, <1>4
<1> QED BY <1>1, <1>5

\* A card goes in or comes out: what it had accepted is gone, the others are as they were.
LEMMA PostedMoves ==
    ASSUME NEW s, NEW s2, Apart(s), Apart(s2), NEW d \in Sockets, NEW c \in Cards,
           \/ s[d].id = c /\ s2[d].id = NoCard
           \/ s[d].id = NoCard /\ s2[d].id = c /\ s2[d].prog = {} /\ \A e \in Sockets : s[e].id # c,
           \A e \in Sockets : e # d => s2[e] = s[e]
    PROVE  /\ PostedIn(s2) = [PostedIn(s) EXCEPT ![c] = {}]
           /\ InsideOf(s2) = [InsideOf(s) EXCEPT ![d] = s2[d].id]
<1>0. c # NoCard
    BY CardsAssumption
<1>1. InsideOf(s2) = [InsideOf(s) EXCEPT ![d] = s2[d].id]
    BY DEF InsideOf
<1>2. PostedIn(s2)[c] = {}
    <2>1. CASE s[d].id = c /\ s2[d].id = NoCard
        <3>1. \A e \in Sockets : s2[e].id # c
            BY <1>0, <2>1 DEF Apart, Sockets
        <3> QED BY <3>1, PostedNone
    <2>2. CASE s2[d].id = c /\ s2[d].prog = {}
        BY <2>2, PostedOne
    <2> QED BY <2>1, <2>2
<1>3. ASSUME NEW b \in Cards, b # c
      PROVE  PostedIn(s2)[b] = PostedIn(s)[b]
    <2>0. s[d].id # b /\ s2[d].id # b
        BY <1>3, CardsAssumption
    <2>1. CASE \E e \in Sockets : s[e].id = b
        <3>1. PICK e \in Sockets : s[e].id = b
            BY <2>1
        <3>2. e # d /\ s2[e] = s[e]
            BY <2>0, <3>1
        <3>3. PostedIn(s)[b] = s[e].prog /\ PostedIn(s2)[b] = s2[e].prog
            BY <3>1, <3>2, PostedOne
        <3> QED BY <3>2, <3>3
    <2>2. CASE \A e \in Sockets : s[e].id # b
        <3>1. \A e \in Sockets : s2[e].id # b
            BY <2>0, <2>2
        <3>2. PostedIn(s)[b] = {}
            BY <2>2, PostedNone
        <3>3. PostedIn(s2)[b] = {}
            BY <3>1, PostedNone
        <3> QED BY <3>2, <3>3
    <2> QED BY <2>1, <2>2
<1>4. PostedIn(s) = [b \in Cards |-> PostedIn(s)[b]] /\ PostedIn(s2) = [b \in Cards |-> PostedIn(s2)[b]]
    BY DEF PostedIn
<1>5. PostedIn(s2) = [PostedIn(s) EXCEPT ![c] = {}]
    <2> HIDE DEF PostedIn
    <2> QED BY <1>2, <1>3, <1>4
<1> QED BY <1>1, <1>5

LEMMA CardsApart ==
    ASSUME IInv
    PROVE  /\ Apart(sock) /\ slotno \in Sockets /\ Here = sock[slotno]
           /\ InsideOf(sock)[slotno] = Here.id
           /\ Here.id \in Cards => PostedIn(sock)[Here.id] = Here.prog
           /\ Here.id \in Cards \cup {NoCard}
           /\ Here.st = "ready" => Here.id \in Cards \ BrokenCards
           /\ IsBroken(Here.id) <=> Here.id \in BrokenCards
           /\ BrokenCards \subseteq Cards /\ NoCard \notin Cards
<1>1. sock \in [Sockets -> CardStates] /\ slotno \in Sockets
    BY DEF IInv, DriverSound, TypeOK, CardStates
<1>2. Apart(sock) /\ Here = sock[slotno] /\ Here \in CardStates
    BY <1>1 DEF IInv, CardsKnown, Apart, Here
<1>3. Here.st = "ready" => Here.id \in Cards \ BrokenCards
    BY <1>1, <1>2 DEF IInv, CardsKnown, BrokenCards
<1>4. Here.id \in Cards => PostedIn(sock)[Here.id] = Here.prog
    BY <1>1, <1>2, PostedOne
<1> QED BY <1>1, <1>2, <1>3, <1>4, CardsAssumption DEF InsideOf, IsBroken, BrokenCards, CardStates

\* Most steps of the driver and of its clock are nothing to the caller.
LEMMA Unseen ==
    ASSUME IInv, UNCHANGED <<mem, stat, call, pulled, result, data>>,
           \A d \in Sockets : sock'[d].id = sock[d].id /\ sock'[d].prog = sock[d].prog
    PROVE  UNCHANGED Promise!vars
<1>1. InsideOf(sock') = InsideOf(sock) /\ PostedIn(sock') = PostedIn(sock)
    BY SameSeen
<1> QED BY <1>1, Zenon DEF InsideOf, PostedIn, Promise!vars

LEMMA InitSeen ==
    ASSUME IInv, NEW k, InitEnds(k), pc # "idle", at \in InitLabels,
           k # "none" => Here.id # NoCard \/ pulled
    PROVE  Promise!Initialize
<1>1. call = {Call} /\ Call.op = "init" /\ Call.d = slotno /\ stat \in [Sockets -> BOOLEAN]
    BY TheCall, CallType DEF InitLabels, IInv, DriverSound, TypeOK
<1>2. /\ stat' = [stat EXCEPT ![slotno] = k # "none"]
      /\ call' = {} /\ result' = (IF k = "none" THEN "error" ELSE "ok")
      /\ pulled' = FALSE /\ UNCHANGED <<sock, mem, data>>
    BY DEF InitEnds, Ends, Rests, card
<1>3. UpOf(stat') = IF k # "none" THEN UpOf(stat) \cup {Call.d} ELSE UpOf(stat) \ {Call.d}
    BY <1>1, <1>2, CardsApart DEF UpOf
<1>4. k # "none" => InsideOf(sock)[Call.d] # NoCard \/ pulled
    BY <1>1, CardsApart
<1>5. InsideOf(sock') = InsideOf(sock) /\ PostedIn(sock') = PostedIn(sock)
    BY <1>2
<1>6. result' = (IF k # "none" THEN "ok" ELSE "error")
    BY <1>2
<1> QED BY <1>1, <1>2, <1>3, <1>4, <1>5, <1>6, Zenon
    DEF Promise!Initialize, Promise!Ends, InsideOf, PostedIn, UpOf

LEMMA InitCallSeen ==
    ASSUME IInv, IdleFails \/ LoopTimeout \/ Ocr \/ Length \/ (Version2 /\ pc' = "idle")
                 \/ (LeftIdle /\ pc' = "idle")
    PROVE  Promise!Initialize
<1>1. CASE IdleFails \/ LoopTimeout \/ (Version2 /\ pc' = "idle") \/ (LeftIdle /\ pc' = "idle")
    <2>1. InitEnds("none") /\ pc # "idle"
        BY <1>1 DEF IdleFails, LoopTimeout, Version2, LeftIdle, Returned, SendCmd, Begins, Loops
    <2>2. at \in InitLabels
        BY <1>1 DEF IdleFails, LoopTimeout, Version2, LeftIdle, Returned, InitLabels,
                    IInv, Progress, Serving
    <2> QED BY <2>1, <2>2, InitSeen
<1>2. CASE Ocr \/ Length
    <2>1. PICK k : InitEnds(k) /\ (k # "none" => res = "ok")
        BY <1>2 DEF Ocr, Length
    <2>2. pc # "idle" /\ at \in {"ocr", "length"} /\ at \in InitLabels
        BY <1>2 DEF Ocr, Length, Returned, InitLabels
    <2>3. Here.id # NoCard \/ pulled
        <3>1. call # {}
            BY <2>2, TheCall
        <3> QED BY <2>2, <3>1 DEF IInv, Progress, Absent
    <2> QED BY <2>1, <2>2, <2>3, InitSeen
<1> QED BY <1>1, <1>2

LEMMA ReadSeen ==
    ASSUME IInv, ReceiveBlock
    PROVE  Promise!Read
<1>1. /\ pc = "data" /\ Rests /\ result' = "ok" /\ data' \in Values
      /\ UNCHANGED <<sock, mem, stat>>
      /\ \/ Here.st # "ready" \/ IsBroken(Here.id)
         \/ Here.st = "ready" /\ data' = mem[Here.id][SectorAt(Here.id, Address(Call.s))]
    BY DEF ReceiveBlock, Ends, card, drv
<1>2. pc # "idle" /\ at = "read" /\ res = "ok" /\ Here.prog = {}
    BY <1>1 DEF IInv, Progress, Serving, Settled
<1>3. call = {Call} /\ Call.op = "read" /\ Call.d = slotno
    BY <1>2, TheCall DEF InitLabels
<1>4. /\ call' = {} /\ pulled' = FALSE
      /\ InsideOf(sock') = InsideOf(sock) /\ PostedIn(sock') = PostedIn(sock) /\ UpOf(stat') = UpOf(stat)
    BY <1>1 DEF Rests
<1>5. \/ pulled \/ InsideOf(sock)[Call.d] \in BrokenCards
      \/ /\ InsideOf(sock)[Call.d] # NoCard /\ Call.s < Size
         /\ PostedIn(sock)[InsideOf(sock)[Call.d]] = {}
         /\ data' = mem[InsideOf(sock)[Call.d]][Call.s]
    <2>1. pulled \/ IsBroken(Here.id) \/ Here.st = "ready"
        BY <1>2 DEF IInv, Progress, Granted
    <2>2. CASE pulled \/ IsBroken(Here.id)
        BY <1>3, <2>2, CardsApart
    <2>3. CASE Here.st = "ready" /\ ~IsBroken(Here.id)
        <3>1. SectorAt(Here.id, Address(Call.s)) = Call.s /\ Call.s < Size /\ Here.id \in Cards
            BY <1>2, <2>3, RightSector, SectorsAssumption
        <3>2. data' = mem[Here.id][Call.s]
            BY <1>1, <2>3, <3>1
        <3>3. InsideOf(sock)[Call.d] = Here.id /\ PostedIn(sock)[Here.id] = {} /\ Here.id # NoCard
            BY <1>2, <1>3, <3>1, CardsApart
        <3> QED BY <3>1, <3>2, <3>3
    <2> QED BY <2>1, <2>2, <2>3
<1> QED BY <1>1, <1>3, <1>4, <1>5, Zenon
    DEF Promise!Read, Promise!Ends, InsideOf, PostedIn, UpOf, BrokenCards

\* A call fails, and the cards are as they were.
LEMMA FailSeen ==
    ASSUME IInv, pc # "idle", at \in {"read", "write", "sync"}, Rests, result' = "error",
           UNCHANGED <<sock, mem, stat, data>>
    PROVE  Promise!Fail
<1>1. call = {Call} /\ Call.op # "init"
    BY TheCall DEF InitLabels
<1>2. /\ call' = {} /\ pulled' = FALSE
      /\ InsideOf(sock') = InsideOf(sock) /\ PostedIn(sock') = PostedIn(sock) /\ UpOf(stat') = UpOf(stat)
    BY DEF Rests
<1> QED BY <1>1, <1>2, Zenon DEF Promise!Fail, Promise!Ends, InsideOf, PostedIn, UpOf

LEMMA WriteSeen ==
    ASSUME IInv, SendBlock
    PROVE  Promise!Write \/ Promise!Fail
<1>1. /\ pc = "xdata" /\ Rests /\ UNCHANGED <<mem, stat, data>>
      /\ pc # "idle" /\ at = "write" /\ res = "ok"
    BY DEF SendBlock, Ends, drv, IInv, Progress, Serving
<1>2. /\ call = {Call} /\ Call.op = "write" /\ Call.d = slotno
    BY <1>1, TheCall DEF InitLabels
<1>3. call' = {} /\ pulled' = FALSE /\ UpOf(stat') = UpOf(stat)
    BY <1>1 DEF Rests
<1>4. CASE UNCHANGED sock /\ result' = "error"
    BY <1>1, <1>4, FailSeen
<1>5. CASE IsBroken(Here.id) /\ UNCHANGED sock /\ result' = "ok"
    <2>1. InsideOf(sock') = InsideOf(sock) /\ PostedIn(sock') = PostedIn(sock)
        BY <1>5
    <2>2. InsideOf(sock)[Call.d] \in BrokenCards /\ InsideOf(sock)[Call.d] # NoCard
        BY <1>2, <1>5, CardsApart
    <2> QED BY <1>1, <1>2, <1>3, <1>5, <2>1, <2>2, Zenon
        DEF Promise!Write, Promise!Ends, InsideOf, PostedIn, UpOf, BrokenCards
<1>6. CASE Here.st = "ready" /\ ~IsBroken(Here.id) /\ Takes /\ result' \in {"ok", "error"}
    <2> DEFINE block == [s |-> Call.s, v |-> Call.v]
    <2>1. /\ SectorAt(Here.id, Address(Call.s)) = Call.s /\ Call.s < Size
          /\ block \in [s : 0..Size - 1, v : Values] /\ Here.id \in Cards
        BY <1>1, <1>6, RightSector, SectorsAssumption
    <2>2. sock' = [sock EXCEPT ![slotno].prog = {block}]
        BY <1>6, <2>1 DEF Takes
    <2> HIDE DEF block
    <2>3. /\ Apart(sock) /\ slotno \in Sockets /\ Here = sock[slotno]
          /\ InsideOf(sock)[Call.d] = Here.id /\ PostedIn(sock)[Here.id] = {}
          /\ Here.id # NoCard /\ Here.id \notin BrokenCards
        BY <1>1, <1>2, <1>6, <2>1, CardsApart DEF IInv, Progress, Settled
    <2>4. /\ sock' \in [Sockets -> CardStates]
          /\ sock'[slotno].prog = {block} /\ sock'[slotno].id = sock[slotno].id
          /\ \A e \in Sockets : e # slotno => sock'[e] = sock[e]
          /\ \A e \in Sockets : sock'[e].id = sock[e].id
        BY <2>1, <2>2, <2>3 DEF Apart, CardStates
    <2>5. Apart(sock')
        BY <2>3, <2>4 DEF Apart, Sockets
    <2>6. /\ PostedIn(sock') = [PostedIn(sock) EXCEPT ![InsideOf(sock)[Call.d]] = {block}]
          /\ InsideOf(sock') = InsideOf(sock)
        BY <2>1, <2>3, <2>4, <2>5, PostedChanges
    <2>7. CASE result' = "ok"
        BY <1>1, <1>2, <1>3, <2>1, <2>3, <2>6, <2>7, Zenon
            DEF Promise!Write, Promise!Post, Promise!Ends, InsideOf, PostedIn, UpOf, BrokenCards, block
    <2>8. CASE result' = "error"
        BY <1>1, <1>2, <1>3, <2>1, <2>3, <2>6, <2>8, Zenon
            DEF Promise!Fail, Promise!Post, Promise!Ends, InsideOf, PostedIn, UpOf, BrokenCards, block
    <2> QED BY <1>6, <2>7, <2>8
<1> QED BY <1>4, <1>5, <1>6 DEF SendBlock, Ends

LEMMA SyncSeen ==
    ASSUME IInv, Synced
    PROVE  Promise!Sync
<1>1. /\ pc = "command" /\ Rests /\ result' = "ok" /\ UNCHANGED <<sock, mem, stat, data>>
      /\ at = "sync" /\ pc # "idle" /\ Here.prog = {}
    BY DEF Synced, Ends, card, drv, IInv, Progress, Commands, Settled
<1>2. call = {Call} /\ Call.op = "sync" /\ Call.d = slotno
    BY <1>1, TheCall DEF InitLabels
<1>3. /\ call' = {} /\ pulled' = FALSE
      /\ InsideOf(sock') = InsideOf(sock) /\ PostedIn(sock') = PostedIn(sock) /\ UpOf(stat') = UpOf(stat)
    BY <1>1 DEF Rests
<1>4. InsideOf(sock)[Call.d] # NoCard /\ InsideOf(sock)[Call.d] \notin BrokenCards =>
          PostedIn(sock)[InsideOf(sock)[Call.d]] = {}
    BY <1>1, <1>2, CardsApart
<1> QED BY <1>1, <1>2, <1>3, <1>4, Zenon
    DEF Promise!Sync, Promise!Ends, InsideOf, PostedIn, UpOf, BrokenCards

LEMMA OtherEndsSeen ==
    ASSUME IInv, Refused \/ NoToken \/ SendTimeout
    PROVE  Promise!Fail
<1>1. /\ pc # "idle" /\ Rests /\ result' = "error" /\ UNCHANGED <<sock, mem, stat, data>>
    BY DEF Refused, NoToken, SendTimeout, Returned, Ends, card, drv
<1>2. at \in {"read", "write", "sync"}
    <2>1. CASE Refused
        BY <2>1 DEF Refused, Returned
    <2>2. CASE NoToken \/ SendTimeout
        BY <2>2 DEF NoToken, SendTimeout, IInv, Progress, Serving
    <2> QED BY <2>1, <2>2
<1> QED BY <1>1, <1>2, FailSeen

LEMMA BeginSeen ==
    ASSUME IInv, NEW c \in Calls, Initialize(c) \/ Read(c) \/ Write(c) \/ Sync(c)
    PROVE  Promise!Invoke
<1>1. TypeOK
    BY DEF IInv, DriverSound
<1>2. /\ pc = "idle" /\ UNCHANGED <<sock, mem, stat>>
      /\ call' = {c} /\ pulled' = FALSE /\ result' = "none" /\ data' = Any(Values)
    BY DEF Initialize, Read, Write, Sync, Accept, card
<1>3. call = {} /\ data' \in Values
    BY <1>1, <1>2, SomeValue DEF TypeOK
<1>4. c \in Promise!Calls
    BY <1>1, SomeValue, SomeSector DEF Calls, Promise!Calls, Promise!Sockets, Sockets
<1>5. InsideOf(sock') = InsideOf(sock) /\ PostedIn(sock') = PostedIn(sock) /\ UpOf(stat') = UpOf(stat)
    BY <1>2
<1> QED BY <1>2, <1>3, <1>4, <1>5, Zenon DEF Promise!Invoke, InsideOf, PostedIn, UpOf

LEMMA RefuseSeen ==
    ASSUME IInv, NEW c \in Calls, Refuse(c)
    PROVE  Promise!NotReady
<1>1. TypeOK /\ c.d \in Sockets
    BY CallType DEF IInv, DriverSound
<1>2. /\ pc = "idle" /\ c.op # "init" /\ ~stat[c.d] /\ UNCHANGED <<sock, mem, stat, call>>
      /\ pulled' = FALSE /\ result' = "notrdy" /\ data' = Any(Values)
    BY DEF Refuse, card
<1>3. call = {} /\ data' \in Values
    BY <1>1, <1>2, SomeValue DEF TypeOK
<1>4. c \in Promise!Calls
    BY <1>1, SomeValue, SomeSector DEF Calls, Promise!Calls, Promise!Sockets, Sockets
<1>5. /\ InsideOf(sock') = InsideOf(sock) /\ PostedIn(sock') = PostedIn(sock) /\ UpOf(stat') = UpOf(stat)
      /\ c.d \notin UpOf(stat)
    BY <1>2 DEF UpOf
<1> QED BY <1>2, <1>3, <1>4, <1>5, Zenon DEF Promise!NotReady, InsideOf, PostedIn, UpOf

LEMMA ResetSeen ==
    ASSUME IInv, Reset
    PROVE  Promise!Reset
<1>1. /\ UNCHANGED <<sock, mem>> /\ call' = {} /\ pulled' = FALSE /\ result' = "none" /\ data' \in Values
    BY SomeValue DEF Reset, Rests, card, IInv, DriverSound
<1>2. InsideOf(sock') = InsideOf(sock) /\ PostedIn(sock') = PostedIn(sock)
    BY <1>1
<1>3. UpOf(stat') = {}
    BY DEF Reset, UpOf
<1> QED BY <1>1, <1>2, <1>3, Zenon DEF Promise!Reset, InsideOf, PostedIn, UpOf

LEMMA StoreSeen ==
    ASSUME IInv, IInv', NEW d \in Sockets, Store(d)
    PROVE  Promise!Store
<1>1. Apart(sock) /\ Apart(sock')
    BY DEF IInv, DriverSound, TypeOK, CardsKnown, Apart, CardStates
<1>2. /\ sock' = [sock EXCEPT ![d].prog = {}] /\ UNCHANGED <<stat, call, pulled, result, data>>
      /\ sock[d].id \in Cards
    BY DEF Store, IInv, CardsKnown, drv, io
<1>3. PICK w \in sock[d].prog : mem' = [mem EXCEPT ![sock[d].id][w.s] = w.v]
    BY DEF Store
<1>4. /\ sock'[d].prog = {} /\ sock'[d].id = sock[d].id
      /\ \A e \in Sockets : e # d => sock'[e] = sock[e]
    BY <1>1, <1>2 DEF Apart, CardStates
<1>5. /\ PostedIn(sock') = [PostedIn(sock) EXCEPT ![sock[d].id] = {}]
      /\ InsideOf(sock') = InsideOf(sock)
    <2> DEFINE p == sock'[d].prog
    <2> HIDE DEF p
    <2>1. /\ PostedIn(sock') = [PostedIn(sock) EXCEPT ![sock[d].id] = p]
          /\ InsideOf(sock') = InsideOf(sock)
        <3>1. sock'[d].prog = p /\ sock[d].id \in Cards /\ sock'[d].id = sock[d].id
            BY <1>2, <1>4 DEF p
        <3> QED BY <1>1, <1>4, <3>1, PostedChanges
    <2> QED BY <1>4, <2>1 DEF p
<1>6. w \in PostedIn(sock)[sock[d].id]
    BY <1>1, <1>2, <1>3, PostedOne
<1>7. UpOf(stat') = UpOf(stat)
    BY <1>2
<1> QED BY <1>2, <1>3, <1>5, <1>6, <1>7, Zenon DEF Promise!Store, InsideOf, PostedIn, UpOf

LEMMA InsertSeen ==
    ASSUME IInv, IInv', NEW d \in Sockets, NEW c \in Cards, InsertCard(d, c)
    PROVE  Promise!Insert
<1>1. Apart(sock) /\ Apart(sock')
    BY DEF IInv, DriverSound, TypeOK, CardsKnown, Apart, CardStates
<1>2. /\ sock' = [sock EXCEPT ![d].id = c] /\ UNCHANGED <<mem, stat, call, pulled, result, data>>
      /\ sock[d].id = NoCard /\ sock[d].prog = {} /\ \A e \in Sockets : sock[e].id # c
    BY DEF InsertCard, Empty, drv, io
<1>3. /\ sock'[d].id = c /\ sock'[d].prog = {}
      /\ \A e \in Sockets : e # d => sock'[e] = sock[e]
    BY <1>1, <1>2 DEF Apart, CardStates
<1>4. /\ PostedIn(sock') = [PostedIn(sock) EXCEPT ![c] = {}]
      /\ InsideOf(sock') = [InsideOf(sock) EXCEPT ![d] = c]
    <2>1. \/ sock[d].id = c /\ sock'[d].id = NoCard
          \/ /\ sock[d].id = NoCard /\ sock'[d].id = c /\ sock'[d].prog = {}
             /\ \A e \in Sockets : sock[e].id # c
        BY <1>2, <1>3
    <2>2. /\ PostedIn(sock') = [PostedIn(sock) EXCEPT ![c] = {}]
          /\ InsideOf(sock') = [InsideOf(sock) EXCEPT ![d] = sock'[d].id]
        BY <1>1, <1>3, <2>1, PostedMoves
    <2> QED BY <1>3, <2>2
<1>5. PostedIn(sock') = PostedIn(sock)
    <2>1. PostedIn(sock)[c] = {}
        BY <1>2, PostedNone
    <2>2. PostedIn(sock) = [b \in Cards |-> PostedIn(sock)[b]]
        BY DEF PostedIn
    <2> HIDE DEF PostedIn
    <2> QED BY <1>4, <2>1, <2>2
<1>6. /\ InsideOf(sock)[d] = NoCard /\ \A e \in Sockets : InsideOf(sock)[e] # c
    BY <1>2 DEF InsideOf
<1>7. UpOf(stat') = UpOf(stat) /\ Promise!Sockets = Sockets
    BY <1>2 DEF Promise!Sockets, Sockets
<1> QED BY <1>2, <1>4, <1>5, <1>6, <1>7, Zenon DEF Promise!Insert, InsideOf, PostedIn, UpOf

LEMMA RemoveSeen ==
    ASSUME IInv, IInv', NEW d \in Sockets, RemoveCard(d)
    PROVE  Promise!Remove
<1>1. Apart(sock) /\ Apart(sock') /\ CardsAssumption
    BY CardsAssumption DEF IInv, DriverSound, TypeOK, CardsKnown, Apart, CardStates
<1>2. /\ sock' = [sock EXCEPT ![d] = Empty] /\ UNCHANGED <<stat, call, result, data>>
      /\ sock[d].id # NoCard
      /\ pulled' = (pulled \/ (call # {} /\ d = slotno))
      /\ \/ UNCHANGED mem
         \/ \E w \in sock[d].prog, v \in Values : mem' = [mem EXCEPT ![sock[d].id][w.s] = v]
    BY DEF RemoveCard, drv
<1>3. sock[d].id \in Cards
    BY <1>1, <1>2 DEF Apart, CardStates
<1>4. /\ sock'[d].id = NoCard
      /\ \A e \in Sockets : e # d => sock'[e] = sock[e]
    BY <1>1, <1>2 DEF Apart, Empty
<1>5. /\ PostedIn(sock') = [PostedIn(sock) EXCEPT ![sock[d].id] = {}]
      /\ InsideOf(sock') = [InsideOf(sock) EXCEPT ![d] = NoCard]
    BY <1>1, <1>3, <1>4, PostedMoves
<1>6. PostedIn(sock)[sock[d].id] = sock[d].prog /\ InsideOf(sock)[d] = sock[d].id
    BY <1>1, <1>3, PostedOne DEF InsideOf
<1>7. pulled' = (pulled \/ \E c \in call : c.d = d)
    <2>1. CASE call = {}
        BY <1>2, <2>1
    <2>2. CASE call # {}
        <3>1. call = {Call} /\ Call.d = slotno
            BY <2>2, TheCall DEF IInv, DriverSound, TypeOK
        <3> QED BY <1>2, <2>2, <3>1
    <2> QED BY <2>1, <2>2
<1>8. \/ UNCHANGED mem
      \/ \E w \in PostedIn(sock)[InsideOf(sock)[d]], v \in Values :
             mem' = [mem EXCEPT ![InsideOf(sock)[d]][w.s] = v]
    BY <1>2, <1>6, Zenon
<1>9. UpOf(stat') = UpOf(stat) /\ Promise!Sockets = Sockets
    BY <1>2 DEF Promise!Sockets, Sockets
<1> QED BY <1>2, <1>5, <1>6, <1>7, <1>8, <1>9, Zenon DEF Promise!Remove, InsideOf, PostedIn, UpOf

\* The driver keeps the promises of its interface, for every set of cards of every kind,
\* good, broken, pulled, exchanged and moved from socket to socket: a read that succeeds
\* returns the sector asked for as it was last stored, a write that succeeds reaches that
\* sector and no other, a call that fails changes nothing else, and a socket that was not
\* initialised is not ready.
THEOREM KeepsPromises == Spec => ImplementsDiskIO
<1>1. Init => Promise!Init
    <2> SUFFICES ASSUME Init PROVE Promise!Init
        OBVIOUS
    <2>1. InsideOf(sock) \in [Sockets -> Cards \cup {NoCard}]
        BY CardsAssumption DEF Init, InsideOf, Empty
    <2>2. PostedIn(sock) = [c \in Cards |-> {}]
        <3>1. \A d \in Sockets : sock[d].prog = {}
            BY DEF Init, Empty
        <3>2. ASSUME NEW c \in Cards
              PROVE  UNION {sock[d].prog : d \in {e \in Sockets : sock[e].id = c}} = {}
            BY <3>1
        <3> QED BY <3>2 DEF PostedIn
    <2>3. UpOf(stat) = {}
        BY DEF Init, UpOf
    <2>4. mem \in [Cards -> [0..Size - 1 -> Values]] /\ Promise!Sockets = Sockets
        BY ContentsAssumption DEF Init, Promise!Sockets, Sockets
    <2>5. call = {} /\ pulled = FALSE /\ result = "none" /\ data \in Values
        BY DEF Init
    <2> QED BY <2>1, <2>2, <2>3, <2>4, <2>5, Zenon
        DEF Promise!Init, Promise!NoWrite, InsideOf, PostedIn, UpOf
<1>2. IInv /\ IInv' /\ [Next]_vars => [Promise!Next]_Promise!vars
    <2> SUFFICES ASSUME IInv, IInv', [Next]_vars
                 PROVE  Promise!Next \/ UNCHANGED Promise!vars
        OBVIOUS
    <2>1. CASE \E c \in Calls : Refuse(c) \/ Initialize(c) \/ Read(c) \/ Write(c) \/ Sync(c)
        BY <2>1, RefuseSeen, BeginSeen DEF Promise!Next
    <2>2. CASE Driver
        <3>1. CASE Select \/ CardReady \/ SelectTimeout \/ WaitForToken \/ Token \/ WaitToSend
            <4>1. UNCHANGED <<sock, mem, stat, call, pulled, result, data>>
                BY <3>1 DEF Select, CardReady, SelectTimeout, WaitForToken, Token, WaitToSend, card, drv, io
            <4> QED BY <4>1, Unseen
        <3>2. CASE AppCommand \/ IdleAgain \/ IsIdle \/ Version1 \/ SdOrMmc \/ Again \/ StillIdle
                   \/ (Version2 /\ pc' # "idle") \/ (LeftIdle /\ pc' # "idle")
            <4>1. UNCHANGED <<sock, mem, stat, call, pulled, result, data>>
                BY <3>2 DEF AppCommand, IdleAgain, IsIdle, Version1, SdOrMmc, Again, StillIdle,
                            Version2, LeftIdle, InitEnds, Ends, Rests, card, drv, io
            <4> QED BY <4>1, Unseen
        <3>3. CASE Command
            <4>1. UNCHANGED <<mem, slotno, stat, call, pulled, result, data>> /\ pc = "command"
                BY <3>3 DEF Command, drv, io
            <4>2. PICK r \in Answers(Here, cmd, Address(Call.s), at = "hcs") :
                        res' = r.res /\ sock' = [sock EXCEPT ![slotno] = r.to]
                BY <3>3 DEF Command
            <4>3. /\ AnswerOf(Here, cmd, at = "hcs", r)
                  /\ \A d \in Sockets : d # slotno => sock'[d] = sock[d]
                  /\ sock'[slotno] = r.to /\ sock[slotno] = Here
                BY <4>1, <4>2, Commanded
            <4>4. \A d \in Sockets : sock'[d].id = sock[d].id /\ sock'[d].prog = sock[d].prog
                BY <4>3 DEF AnswerOf
            <4> QED BY <4>1, <4>4, Unseen
        <3>4. CASE IdleFails \/ LoopTimeout \/ Ocr \/ Length \/ (Version2 /\ pc' = "idle")
                   \/ (LeftIdle /\ pc' = "idle")
            BY <3>4, InitCallSeen DEF Promise!Next
        <3>5. CASE Synced \/ Refused \/ NoToken \/ ReceiveBlock \/ SendTimeout \/ SendBlock
            BY <3>5, SyncSeen, OtherEndsSeen, ReadSeen, WriteSeen DEF Promise!Next
        <3> QED BY <2>2, <3>1, <3>2, <3>3, <3>4, <3>5 DEF Driver
    <2>3. CASE Tick
        <3>1. UNCHANGED <<sock, mem, stat, call, pulled, result, data>>
            BY <2>3 DEF Tick, card, drv, io
        <3> QED BY <3>1, Unseen
    <2>4. CASE \E d \in Sockets : Store(d) \/ RemoveCard(d)
        BY <2>4, StoreSeen, RemoveSeen DEF Promise!Next
    <2>5. CASE \E d \in Sockets, c \in Cards : InsertCard(d, c)
        BY <2>5, InsertSeen DEF Promise!Next
    <2>6. CASE Reset
        BY <2>6, ResetSeen DEF Promise!Next
    <2>7. CASE UNCHANGED vars
        <3>1. UNCHANGED <<sock, mem, stat, call, pulled, result, data>>
            BY <2>7 DEF vars
        <3> QED BY <3>1, Unseen
    <2> QED BY <2>1, <2>2, <2>3, <2>4, <2>5, <2>6, <2>7 DEF Next
<1> QED BY <1>1, <1>2, Inductive, PTL DEF Spec, ImplementsDiskIO, Promise!Spec
=============================================================================
