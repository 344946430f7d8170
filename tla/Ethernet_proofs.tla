-------------------------- MODULE Ethernet_proofs --------------------------
(***************************************************************************)
(* Proofs about Ethernet, for bytes, buffers and frames of every size: the *)
(* sketch, the chip and the program on the Apple agree on where every byte *)
(* belongs, whatever arrives and whenever a reset falls; and the commands  *)
(* keep the promises of FrameIO.                                           *)
(***************************************************************************)
EXTENDS Ethernet, Integers, TLAPS

(* Arithmetic of the pointers. *)

LEMMA DivMod ==
    ASSUME NEW M \in Nat \ {0}, NEW x \in Nat
    PROVE  x \div M \in Nat /\ x % M \in 0..M - 1 /\ x = M * (x \div M) + (x % M)
<1>1. x = M * (x \div M) + (x % M)
    BY Z3
<1>2. x \div M \in Nat /\ x % M \in 0..M - 1
    OBVIOUS
<1> QED BY <1>1, <1>2

LEMMA UniqueMod ==
    ASSUME NEW M \in Nat \ {0}, NEW q \in Int, NEW r \in 0..M - 1
    PROVE  (M * q + r) % M = r
OBVIOUS

LEMMA SmallMod ==
    ASSUME NEW M \in Nat \ {0}, NEW x \in 0..M - 1
    PROVE  x % M = x
OBVIOUS

LEMMA OverMod ==
    ASSUME NEW M \in Nat \ {0}, NEW x \in M..2 * M - 1
    PROVE  x % M = x - M
OBVIOUS

\* How far a pointer has gone, and back.
LEMMA Distance ==
    ASSUME NEW M \in Nat \ {0}, NEW a \in 0..M - 1, NEW l \in 0..M - 1
    PROVE  (((a + l) % M) + M - a) % M = l
<1>1. CASE a + l < M
    <2>1. (a + l) % M = a + l
        BY <1>1, SmallMod
    <2> QED BY <1>1, <2>1, OverMod
<1>2. CASE a + l >= M
    <2>1. (a + l) % M = a + l - M
        BY <1>2, OverMod
    <2>2. ((a + l) % M) + M - a = l
        BY <2>1
    <2> QED BY <2>2, SmallMod
<1> QED BY <1>1, <1>2

LEMMA Reached ==
    ASSUME NEW M \in Nat \ {0}, NEW a \in 0..M - 1, NEW b \in 0..M - 1
    PROVE  (a + ((b + M - a) % M)) % M = b
<1>1. CASE b >= a
    <2>1. (b + M - a) % M = b - a
        BY <1>1, OverMod
    <2> QED BY <1>1, <2>1, SmallMod
<1>2. CASE b < a
    <2>1. (b + M - a) % M = b + M - a
        BY <1>2, SmallMod
    <2>2. a + (b + M - a) = M + b
        OBVIOUS
    <2> QED BY <1>2, <2>1, <2>2, OverMod
<1> QED BY <1>1, <1>2

LEMMA Sizes ==
    /\ Base \in Nat /\ Base >= 2 /\ Mod \in Nat /\ Mod > 0 /\ Ring \in Nat /\ Ring > 0 /\ Ring < Mod
    /\ Mod = Base * Base /\ Base < Mod /\ Mod \in Nat \ {0} /\ Ring \in Nat \ {0} /\ Base \in Nat \ {0}
<1>1. Base \in Nat /\ Base >= 2 /\ Ring \in Nat \ {0} /\ Ring < Mod
    BY SizesAssumption
<1>2. Mod = Base * Base /\ Base < Mod /\ Mod \in Nat
    BY <1>1 DEF Mod
<1> QED BY <1>1, <1>2

LEMMA RingDivides == Mod \div Ring \in Nat /\ Mod = Ring * (Mod \div Ring)
<1>1. Mod = Ring * (Mod \div Ring) + (Mod % Ring) /\ Mod \div Ring \in Nat
    BY Sizes, DivMod
<1>2. Mod % Ring = 0
    BY SizesAssumption
<1> HIDE DEF Mod
<1> QED BY <1>1, <1>2, Sizes

\* The word of two bytes.
LEMMA TwoBytes ==
    ASSUME NEW w \in 0..Mod - 1
    PROVE  Lo(w) \in Bytes /\ Hi(w) \in Bytes /\ Lo(w) + Base * Hi(w) = w
<1>1. /\ w \div Base \in Nat /\ w % Base \in 0..Base - 1
      /\ w = Base * (w \div Base) + (w % Base)
    BY Sizes, DivMod
<1>2. w \div Base < Base
    <2> SUFFICES ASSUME w \div Base >= Base PROVE FALSE
        BY <1>1, Sizes
    <2>1. Base * (w \div Base) >= Base * Base
        BY <1>1, Sizes
    <2>2. w >= Mod
        BY <1>1, <2>1, Sizes
    <2> QED BY <2>2, Sizes
<1> QED BY <1>1, <1>2, Sizes DEF Lo, Hi, Bytes

LEMMA Word ==
    ASSUME NEW h \in Bytes, NEW l \in Bytes
    PROVE  Base * h + l \in 0..Mod - 1 /\ Base * h \in Nat /\ (Base * h + l = 0 <=> h = 0 /\ l = 0)
<1>1. Base * h <= Base * (Base - 1)
    BY Sizes DEF Bytes
<1>2. Base * (Base - 1) = Mod - Base
    BY Sizes
<1>3. Base * h \in Nat /\ (h > 0 => Base * h > 0)
    BY Sizes DEF Bytes
<1> HIDE DEF Mod
<1> QED BY <1>1, <1>2, <1>3, Sizes DEF Bytes

\* A place in a ring buffer, from a pointer that counts modulo a multiple of its size.
LEMMA RingOfMod ==
    ASSUME NEW x \in Nat, NEW k \in Nat
    PROVE  ((x % Mod) + k) % Ring = (x + k) % Ring
<1> DEFINE K == Mod \div Ring
           q == x \div Mod
           y == (x % Mod) + k
<1>1. x = Mod * q + (x % Mod) /\ q \in Nat /\ x % Mod \in Nat
    BY Sizes, DivMod
<1>2. Mod = Ring * K /\ K \in Nat
    BY RingDivides
<1>3. y \in Nat
    BY <1>1
<1>4. y = Ring * (y \div Ring) + (y % Ring) /\ y \div Ring \in Nat /\ y % Ring \in 0..Ring - 1
    BY <1>3, Sizes, DivMod
<1>5. x + k = Mod * q + y
    <2>1. Mod * q \in Nat
        BY <1>1, Sizes
    <2> QED BY <1>1, <2>1
<1> HIDE DEF K, q, y, Mod
<1>6. Mod * q = Ring * (K * q)
    BY <1>1, <1>2, Sizes
<1>7. x + k = Ring * (K * q + (y \div Ring)) + (y % Ring)
    BY <1>1, <1>2, <1>4, <1>5, <1>6, Sizes
<1> DEFINE Q == K * q + (y \div Ring)
           r == y % Ring
<1>8. Q \in Int /\ r \in 0..Ring - 1 /\ x + k = Ring * Q + r
    BY <1>1, <1>2, <1>4, <1>7
<1> HIDE DEF Q, r
<1>9. (x + k) % Ring = r
    BY <1>8, Sizes, UniqueMod
<1> QED BY <1>9 DEF y, r

LEMMA RingApart ==
    ASSUME NEW a \in Nat, NEW i \in 0..Ring - 1, NEW j \in 0..Ring - 1,
           (a + i) % Ring = (a + j) % Ring
    PROVE  i = j
<1> DEFINE r == (a + i) % Ring
           p == (a + i) \div Ring
           q == (a + j) \div Ring
<1>1. /\ a + i = Ring * p + r /\ a + j = Ring * q + r
      /\ p \in Nat /\ q \in Nat /\ r \in 0..Ring - 1
    BY Sizes, DivMod
<1> HIDE DEF r, p, q
<1>2. CASE p > q
    <2>1. Ring * (p - q) >= Ring /\ Ring * (p - q) = Ring * p - Ring * q
        BY <1>1, <1>2, Sizes
    <2> QED BY <1>1, <2>1, Sizes
<1>3. CASE q > p
    <2>1. Ring * (q - p) >= Ring /\ Ring * (q - p) = Ring * q - Ring * p
        BY <1>1, <1>3, Sizes
    <2> QED BY <1>1, <2>1, Sizes
<1>4. CASE p = q
    BY <1>1, <1>4, Sizes
<1> QED BY <1>1, <1>2, <1>3, <1>4

\* The place, counted from another pointer.
LEMMA RingIndex ==
    ASSUME NEW a \in 0..Mod - 1, NEW T \in 0..Ring, NEW j \in 0..Ring - 1
    PROVE  (((a + j) % Ring) + Mod - ((a + T) % Mod)) % Ring = IF j >= T THEN j - T ELSE j + Ring - T
<1> DEFINE K == Mod \div Ring
           X == (a + j) % Ring
           q == (a + j) \div Ring
           w == (a + T) % Mod
           p == (a + T) \div Mod
<1>1. a + j = Ring * q + X /\ q \in Nat /\ X \in 0..Ring - 1
    BY Sizes, DivMod
<1>2. a + T = Mod * p + w /\ p \in Nat /\ w \in 0..Mod - 1
    BY Sizes, DivMod
<1>3. Mod = Ring * K /\ K \in Nat
    BY RingDivides
<1> HIDE DEF K, X, q, w, p, Mod
<1>4. Mod * p = Ring * (K * p)
    BY <1>2, <1>3, Sizes
<1>5. X + Mod - w = (j - T) + Ring * K + Ring * (K * p) - Ring * q
    BY <1>1, <1>2, <1>3, <1>4, Sizes
<1>6. CASE j >= T
    <2> DEFINE Q == K + K * p - q
               r == j - T
    <2>1. X + Mod - w = Ring * Q + r /\ Q \in Int /\ r \in 0..Ring - 1
        BY <1>1, <1>2, <1>3, <1>5, <1>6, Sizes
    <2> HIDE DEF Q, r
    <2>2. (X + Mod - w) % Ring = r
        BY <2>1, Sizes, UniqueMod
    <2> QED BY <1>6, <2>2 DEF X, w, r
<1>7. CASE j < T
    <2> DEFINE Q == K + K * p - q - 1
               r == j + Ring - T
    <2>1. X + Mod - w = Ring * Q + r /\ Q \in Int /\ r \in 0..Ring - 1
        BY <1>1, <1>2, <1>3, <1>5, <1>7, Sizes
    <2> HIDE DEF Q, r
    <2>2. (X + Mod - w) % Ring = r
        BY <2>1, Sizes, UniqueMod
    <2> QED BY <1>7, <2>2 DEF X, w, r
<1> QED BY <1>6, <1>7

-----------------------------------------------------------------------------
(* Where the sketch is. *)

Closing == apc \in {"end", "begin"} \/ (apc = "cr" /\ after = "end")
Opening == apc = "opened" \/ (apc = "cr" /\ after = "opened")
Sending == apc = "sent" \/ (apc = "cr" /\ after = "sent")
Headed  == apc = "length" \/ (apc = "cr" /\ after = "length")
Streaming == apc = "stream" \/ (apc = "put" /\ after = "stream")
Dropping  == apc = "ignore" \/ (apc = "put" /\ after = "ignore")

\* The header of a frame is out of the chip, and the frame is not.
Body == Headed \/ Streaming \/ Dropping

\* The sketch is done with a call, and maybe has a frame to take out of the chip.
Idling == apc \in {"loop", "ignore"} \/ (apc = "stream" /\ n = dlen) \/ (apc = "cr" /\ after = "loop")

\* The chip was reset for this socket, and the sketch has not lost track of it since.
Live == eth \/ Opening

Places ==
    /\ apc \notin {"put", "cr"} => after = "loop"
    /\ apc = "put" => after \in {"loop", "ignore", "stream"} /\ (out # <<>> \/ offer # <<>>)
    /\ apc # "put" => out = <<>> /\ offer = <<>>
    /\ apc = "cr" => after \in {"end", "opened", "length", "loop", "sent"}
    /\ eth \/ Opening \/ apc \in {"loop", "mac", "begin"} \/ (apc = "put" /\ after = "loop")
    /\ ~Idling => hpc # "idle"
    /\ IF hpc = "idle" THEN ready => eth ELSE req.op # "init" => eth

Locals ==
    /\ seen # <<>> => apc = "size"
    /\ n # 0 => apc \in {"mac", "fill"} \/ Streaming \/ Sending
    /\ dlen # 0 => Body
    /\ val # 0 => apc \in {"size", "sized"} \/ Body
    /\ len # 0 => apc \in {"lenhi", "size", "sized", "fill"} \/ Body \/ Sending
    /\ apc = "mac" => n < MacBytes
    /\ Streaming => n <= dlen /\ dlen <= len
    /\ Dropping => dlen > len

-----------------------------------------------------------------------------
(* The bytes of a call, and of its answer. *)

Whole == Len(Asked(req))
Wanted == IF req.op = "poll" THEN req.limit ELSE Len(req.frame)
CmdOf(op) == CASE op = "init" -> InitCmd [] op = "poll" -> PollCmd [] op = "send" -> SendCmd

\* The sketch has taken k bytes of the request: the others are in the port and with the
\* program on the Apple.
Rest(k) ==
    /\ k + Len(toArd) + Len(todo) = Whole
    /\ toArd # <<>> => toArd = <<Asked(req)[k + 1]>>
    /\ \A i \in 1..Len(todo) : todo[i] = Asked(req)[k + Len(toArd) + i]

Taken == CASE apc = "mac" -> 1 + n [] apc = "lenlo" -> 1 [] apc = "lenhi" -> 2
           [] apc \in {"size", "sized"} -> 3 [] apc = "fill" -> 3 + n [] OTHER -> Whole
Served == IF Idling /\ held = {} THEN 0 ELSE Taken

\* The bytes of the answer that ends with the frame f.
AnswerSize(f) == IF req.op = "poll" THEN 2 + Len(f) ELSE 1
AnswerByte(f, i) == IF req.op = "init" THEN (IF eth THEN 0 ELSE 1)
                    ELSE IF req.op = "send" THEN 0
                    ELSE IF i = 1 THEN Lo(Len(f)) ELSE IF i = 2 THEN Hi(Len(f)) ELSE f[i - 2]

Made(f) == IF Opening \/ Sending \/ Headed THEN 0
           ELSE IF Streaming THEN 2 + n ELSE AnswerSize(f)

\* What the sketch has made of the answer is with the program, in the port, and in "out".
Flow(f) ==
    /\ Len(got) + Len(toHost) + Len(offer) + Len(out) = Made(f)
    /\ Len(got) < AnswerSize(f)
    /\ \A i \in 1..Len(got) : got[i] = AnswerByte(f, i)
    /\ toHost # <<>> => toHost = <<AnswerByte(f, Len(got) + 1)>>
    /\ offer # <<>> => offer = <<AnswerByte(f, Len(got) + Len(toHost) + 1)>>
    /\ \A i \in 1..Len(out) : out[i] = AnswerByte(f, Len(got) + Len(toHost) + Len(offer) + i)

Nothing == got = <<>> /\ toHost = <<>> /\ offer = <<>> /\ out = <<>>

FrameOk(f) == f \in Seq(Bytes) /\ Len(f) < Mod /\ (req.op # "poll" => f = <<>>)

Turn ==
    /\ Len(toArd) <= 1 /\ Len(toHost) <= 1 /\ Len(offer) <= 1
    /\ {toArd, todo} \subseteq Seq(Bytes \cup {InitCmd, PollCmd, SendCmd})
    /\ {toHost, offer, out} \subseteq Seq(Bytes)
    /\ IF hpc = "idle" THEN toArd = <<>> /\ toHost = <<>> /\ todo = <<>>
       ELSE /\ (hpc = "take") = (todo = <<>>)
            /\ Rest(Served)
            /\ IF held = {} THEN Nothing ELSE \E f : held = {f} /\ FrameOk(f) /\ Flow(f)

Doing ==
    /\ Body /\ held # {} => req.op = "poll"
    /\ ~Idling =>
          /\ apc = "mac" \/ Closing \/ Opening => req.op = "init"
          /\ apc \in {"lenlo", "lenhi", "size", "sized"} => req.op # "init" /\ cmd = CmdOf(req.op)
          /\ apc = "lenhi" => len = Lo(Wanted)
          /\ apc \in {"size", "sized", "fill"} \/ Body \/ Sending => len = Wanted
          /\ apc = "fill" \/ Sending => req.op = "send"
          /\ apc \in {"mac", "lenlo", "lenhi", "size", "sized", "fill"} \/ Closing => held = {}
          /\ Opening \/ Body \/ apc = "put" => held # {}
          /\ Opening \/ (apc = "put" /\ after = "loop") => held = {<<>>}

-----------------------------------------------------------------------------
(* The chip. *)

CommandOf == CASE after = "end" -> "CLOSE" [] after = "opened" -> "OPEN" [] after = "sent" -> "SEND"
               [] OTHER -> "RECV"
OnItsWay == sending \/ cr = "SEND"

Chip ==
    /\ sending => cr # "SEND"
    /\ (txwr + Mod - txrd) % Mod <= Ring
    /\ eth /\ ~Opening /\ ~Closing => sr = "macraw"
    /\ Live => /\ cr # "none" => apc = "cr" /\ cr = CommandOf
               /\ OnItsWay => Sending /\ ir = {} /\ held = {}
               /\ ~OnItsWay => txrd = txwr /\ (~Sending => ir = {})
               /\ Sending /\ ~OnItsWay => held = {<<>>} /\ ir \in {{"sendok"}, {"timeout"}}

\* The transmit buffer is filled with the frame; the free size is that of the buffer.
Filling ==
    /\ apc = "fill" => n <= len /\ len <= Ring
                       /\ \A i \in 1..n : txbuf[(txwr + i - 1) % Ring] = req.frame[i]
    /\ apc \in {"size", "sized"} /\ cmd = SendCmd =>
          val \in {0, Ring} /\ \A i \in 1..Len(seen) : seen[i] = ByteOfWord(i - 1, Ring)
    /\ apc \in {"size", "sized"} /\ cmd = PollCmd =>
          waiting # <<>> \/ (val = 0 /\ \A i \in 1..Len(seen) : seen[i] = 0)
    /\ seen \in Seq(Bytes)

\* The receive buffer from the last pointer the chip was told.
View(j) == rxbuf[(rxat + j) % Ring]

\* The frames lie one behind the other, from p[1] to p[last]; what the driver has read
\* since it last told the chip is "lag".
Lies(lag, p) ==
    LET last == Len(waiting) + 1
    IN  /\ lag # 0 => cr = "RECV"
        /\ rxrd = (rxat + lag) % Mod
        /\ p[1] = lag + (IF Body THEN dlen ELSE 0)
        /\ \A i \in 1..Len(waiting) : p[i + 1] = p[i] + Len(waiting[i]) + 2
        /\ \A i, j \in 1..last : i <= j => p[i] <= p[j]
        /\ p[last] <= Ring /\ rxwr = (rxat + p[last]) % Mod
        /\ \A i \in 1..Len(waiting) : \A k \in 1..Len(waiting[i]) + 2 :
              View(p[i] + k - 1) = Stored(waiting[i])[k]
        /\ Body => \A f \in held : IF dlen <= len
                      THEN Len(f) = dlen /\ \A k \in 1..dlen : View(lag + k - 1) = f[k]
                      ELSE f = <<>>

Ringed ==
    /\ waiting \in Seq(Arrivals)
    /\ Body => dlen + 2 <= Ring
    /\ Live => \E lag \in 0..Ring : \E p \in [1..Len(waiting) + 1 -> 0..Ring] : Lies(lag, p)

IInv == TypeOK /\ Places /\ Locals /\ Turn /\ Doing /\ Chip /\ Filling /\ Ringed

-----------------------------------------------------------------------------
(* The requests. *)

LEMMA RequestType ==
    ASSUME NEW c \in Requests
    PROVE  /\ c.op \in {"init", "poll", "send"} /\ c.frame \in Seq(Bytes) /\ Len(c.frame) <= Ring
           /\ c.limit \in 0..Mod - 1 /\ Len(c.frame) \in 0..Mod - 1
           /\ c.op = "send" => c.frame \in Sends
<1>1. <<>> \in Seq(Bytes) /\ Len(<<>>) = 0
    OBVIOUS
<1>2. \A f \in Sends : f \in Seq(Bytes) /\ Len(f) <= Ring
    BY FramesAssumption
<1>3. Limits \subseteq 0..Mod - 1
    BY FramesAssumption
<1> HIDE DEF Mod
<1>4. 0 \in 0..Mod - 1
    BY Sizes
<1>5. \A f \in Sends : f \in Seq(Bytes) /\ Len(f) \in 0..Mod - 1
    BY <1>2, Sizes
<1>6. \/ c.op = "send" /\ c.frame \in Sends /\ c.limit = 0
      \/ c.op = "poll" /\ c.frame = <<>> /\ c.limit \in Limits
      \/ c.op = "init" /\ c.frame = <<>> /\ c.limit = 0
    BY DEF Requests
<1>7. CASE c.op = "send"
    BY <1>2, <1>4, <1>5, <1>6, <1>7
<1>8. CASE c.op \in {"poll", "init"}
    <2>1. c.frame = <<>> /\ c.limit \in 0..Mod - 1
        BY <1>3, <1>4, <1>6, <1>8
    <2>2. c.frame \in Seq(Bytes) /\ Len(c.frame) = 0
        BY <1>1, <2>1
    <2> QED BY <1>4, <1>8, <2>1, <2>2, Sizes
<1> QED BY <1>6, <1>7, <1>8

Data == Bytes \cup {InitCmd, PollCmd, SendCmd}

LEMMA Codes ==
    /\ InitCmd # PollCmd /\ InitCmd # SendCmd /\ PollCmd # SendCmd
    /\ InitCmd \notin Bytes /\ PollCmd \notin Bytes /\ SendCmd \notin Bytes
    /\ 0 \in Bytes /\ 1 \in Bytes
BY Sizes DEF InitCmd, PollCmd, SendCmd, Bytes

WantedBy(c) == IF c.op = "poll" THEN c.limit ELSE Len(c.frame)

LEMMA Concats ==
    ASSUME NEW S, NEW s \in Seq(S), NEW t \in Seq(S)
    PROVE  /\ s \o t \in Seq(S) /\ Len(s \o t) = Len(s) + Len(t)
           /\ \A i \in 1..Len(s) + Len(t) : (s \o t)[i] = IF i <= Len(s) THEN s[i] ELSE t[i - Len(s)]
OBVIOUS

LEMMA ThenMore ==
    ASSUME NEW s \in Seq(Data), Len(s) = 3, NEW t \in Seq(Data)
    PROVE  /\ s \o t \in Seq(Data) /\ Len(s \o t) = 3 + Len(t)
           /\ (s \o t)[1] = s[1] /\ (s \o t)[2] = s[2] /\ (s \o t)[3] = s[3]
           /\ \A i \in 1..Len(t) : (s \o t)[3 + i] = t[i]
<1>1. /\ s \o t \in Seq(Data) /\ Len(s \o t) = Len(s) + Len(t)
      /\ \A i \in 1..Len(s) + Len(t) : (s \o t)[i] = IF i <= Len(s) THEN s[i] ELSE t[i - Len(s)]
    BY Concats
<1> Len(t) \in Nat
    OBVIOUS
<1>2. ASSUME NEW i \in 1..Len(t) PROVE (s \o t)[3 + i] = t[i]
    <2>1. 3 + i \in 1..Len(s) + Len(t) /\ ~(3 + i <= Len(s)) /\ (3 + i) - Len(s) = i
        BY <1>1
    <2> QED BY <1>1, <2>1
<1> QED BY <1>1, <1>2

LEMMA HeadOfThree ==
    ASSUME NEW a \in Data, NEW b \in Data, NEW c \in Data
    PROVE  LET s == <<a>> \o <<b, c>>
           IN  s \in Seq(Data) /\ Len(s) = 3 /\ s[1] = a /\ s[2] = b /\ s[3] = c
<1> DEFINE x == <<a>>
           y == <<b, c>>
<1>1. x \in Seq(Data) /\ Len(x) = 1 /\ x[1] = a
    OBVIOUS
<1>2. y \in Seq(Data) /\ Len(y) = 2 /\ y[1] = b /\ y[2] = c
    OBVIOUS
<1> HIDE DEF x, y
<1>3. /\ x \o y \in Seq(Data) /\ Len(x \o y) = Len(x) + Len(y)
      /\ \A i \in 1..Len(x) + Len(y) : (x \o y)[i] = IF i <= Len(x) THEN x[i] ELSE y[i - Len(x)]
    BY <1>1, <1>2, Concats
<1>4. (x \o y)[1] = x[1] /\ (x \o y)[2] = y[1] /\ (x \o y)[3] = y[2]
    BY <1>1, <1>2, <1>3
<1> QED BY <1>1, <1>2, <1>3, <1>4 DEF x, y

\* The bytes of a request, one by one.
LEMMA AskedInit ==
    ASSUME NEW c \in Requests, c.op = "init"
    PROVE  /\ Asked(c) \in Seq(Data) /\ Len(Asked(c)) = 1 + MacBytes
           /\ Asked(c)[1] = InitCmd
           /\ \A i \in 2..1 + MacBytes : Asked(c)[i] = 1
<1> DEFINE s == [i \in 1..MacBytes |-> 1]
<1>1. MacBytes \in Nat /\ s \in Seq(Data) /\ Len(s) = MacBytes /\ \A i \in 1..MacBytes : s[i] = 1
    BY SizesAssumption, Codes DEF Data
<1>2. Asked(c) = <<InitCmd>> \o s
    BY DEF Asked
<1>3. <<InitCmd>> \in Seq(Data)
    BY DEF Data
<1> HIDE DEF s
<1> QED BY <1>1, <1>2, <1>3

LEMMA AskedWord ==
    ASSUME NEW c \in Requests, c.op # "init"
    PROVE  /\ Asked(c) \in Seq(Data)
           /\ Len(Asked(c)) = 3 + (IF c.op = "send" THEN Len(c.frame) ELSE 0)
           /\ Asked(c)[1] = CmdOf(c.op)
           /\ Asked(c)[2] = Lo(WantedBy(c)) /\ Asked(c)[3] = Hi(WantedBy(c))
           /\ WantedBy(c) \in 0..Mod - 1
           /\ c.op = "send" => \A i \in 1..Len(c.frame) : Asked(c)[3 + i] = c.frame[i]
<1>1. WantedBy(c) \in 0..Mod - 1 /\ c.op \in {"poll", "send"} /\ c.frame \in Seq(Bytes)
    BY RequestType DEF WantedBy
<1>2. Lo(WantedBy(c)) \in Bytes /\ Hi(WantedBy(c)) \in Bytes
    BY <1>1, TwoBytes
<1> DEFINE l == Lo(WantedBy(c))
           h == Hi(WantedBy(c))
           m == CmdOf(c.op)
<1>3. m \in Data /\ l \in Data /\ h \in Data /\ Words(WantedBy(c)) = <<l, h>>
    BY <1>1, <1>2 DEF CmdOf, Data, Words
<1>4. CASE c.op = "poll"
    <2>1. Asked(c) = <<m>> \o <<l, h>>
        BY <1>3, <1>4 DEF Asked, WantedBy, CmdOf, Words
    <2> HIDE DEF l, h, m
    <2>2. /\ Asked(c) \in Seq(Data) /\ Len(Asked(c)) = 3
          /\ Asked(c)[1] = m /\ Asked(c)[2] = l /\ Asked(c)[3] = h
        BY <1>3, <2>1, HeadOfThree
    <2> QED BY <1>1, <1>3, <1>4, <2>2 DEF l, h, m
<1>5. CASE c.op = "send"
    <2>1. Asked(c) = (<<m>> \o <<l, h>>) \o c.frame
        BY <1>3, <1>5 DEF Asked, WantedBy, CmdOf, Words
    <2>2. c.frame \in Seq(Data)
        BY <1>1 DEF Data
    <2> DEFINE s == <<m>> \o <<l, h>>
    <2> HIDE DEF l, h, m
    <2>3. s \in Seq(Data) /\ Len(s) = 3 /\ s[1] = m /\ s[2] = l /\ s[3] = h
        BY <1>3, HeadOfThree
    <2> HIDE DEF s
    <2>4. Asked(c) = s \o c.frame
        BY <2>1 DEF s
    <2>5. /\ Asked(c) \in Seq(Data) /\ Len(Asked(c)) = 3 + Len(c.frame)
          /\ Asked(c)[1] = m /\ Asked(c)[2] = l /\ Asked(c)[3] = h
          /\ \A i \in 1..Len(c.frame) : Asked(c)[3 + i] = c.frame[i]
        BY <2>2, <2>3, <2>4, ThenMore
    <2> QED BY <1>1, <1>5, <2>5 DEF l, h, m
<1> QED BY <1>1, <1>4, <1>5

-----------------------------------------------------------------------------
(* Steps that leave the receive buffer alone. *)

LEMMA RingKept ==
    ASSUME Ringed, UNCHANGED <<rx, waiting>>, Live' => Live, cr' = cr \/ cr # "RECV", Body' <=> Body,
           Body => dlen' = dlen /\ len' = len /\ held' \subseteq held
    PROVE  Ringed'
<1>1. /\ rxbuf' = rxbuf /\ rxrd' = rxrd /\ rxat' = rxat /\ rxwr' = rxwr /\ waiting' = waiting
    BY DEF rx
<1>2. \A j : View(j)' = View(j)
    BY <1>1 DEF View
<1>3. ASSUME Live' PROVE \E lag \in 0..Ring : \E p \in [1..Len(waiting) + 1 -> 0..Ring] : Lies(lag, p)'
    <2>1. PICK lag \in 0..Ring : \E p \in [1..Len(waiting) + 1 -> 0..Ring] : Lies(lag, p)
        BY <1>3 DEF Ringed
    <2>2. PICK p \in [1..Len(waiting) + 1 -> 0..Ring] : Lies(lag, p)
        BY <2>1
    <2>3. lag # 0 => cr' = "RECV"
        BY <2>2 DEF Lies
    <2>4. Lies(lag, p)'
        BY <1>1, <1>2, <2>2, <2>3 DEF Lies
    <2> QED BY <2>4
<1>4. waiting \in Seq(Arrivals) /\ (Body' => dlen' + 2 <= Ring)
    BY DEF Ringed
<1> QED BY <1>1, <1>3, <1>4 DEF Ringed

\* A byte from the program to the port.
LEMMA RestPut ==
    ASSUME NEW k \in Nat, Rest(k), todo \in Seq(Data), todo # <<>>, toArd = <<>>,
           toArd' = <<Head(todo)>>, todo' = Tail(todo), req' = req
    PROVE  Rest(k)'
<1>1. Whole' = Whole /\ Asked(req)' = Asked(req)
    BY DEF Whole
<1>2. /\ Len(todo) \in Nat \ {0} /\ Len(todo') = Len(todo) - 1 /\ Head(todo) = todo[1]
      /\ \A i \in 1..Len(todo') : todo'[i] = todo[i + 1]
    OBVIOUS
<1>3. Len(toArd) = 0 /\ Len(toArd') = 1
    OBVIOUS
<1>4. toArd' = <<Asked(req)[k + 1]>>
    BY <1>2, <1>3 DEF Rest
<1>5. ASSUME NEW i \in 1..Len(todo') PROVE todo'[i] = Asked(req)[k + 1 + i]
    <2>1. i + 1 \in 1..Len(todo) /\ k + 0 + (i + 1) = k + 1 + i
        BY <1>2
    <2>2. todo[i + 1] = Asked(req)[k + 0 + (i + 1)]
        BY <1>3, <2>1 DEF Rest
    <2> QED BY <1>2, <2>1, <2>2
<1>6. k + 1 + Len(todo') = Whole
    BY <1>2, <1>3 DEF Rest
<1> QED BY <1>1, <1>3, <1>4, <1>5, <1>6 DEF Rest

\* A byte from the port to the sketch.
LEMMA RestTaken ==
    ASSUME NEW k \in Nat, Rest(k), NEW b, toArd = <<b>>, toArd' = <<>>, todo' = todo, req' = req,
           todo \in Seq(Data)
    PROVE  /\ Rest(k + 1)' /\ b = Asked(req)[k + 1]
           /\ Whole' = Whole
<1>1. Whole' = Whole /\ Asked(req)' = Asked(req)
    BY DEF Whole
<1>2. Len(toArd) = 1 /\ Len(toArd') = 0 /\ toArd # <<>> /\ toArd[1] = b
    OBVIOUS
<1>3. b = Asked(req)[k + 1]
    BY <1>2 DEF Rest
<1>4. ASSUME NEW i \in 1..Len(todo) PROVE todo'[i] = Asked(req)[k + 1 + 0 + i]
    BY <1>2 DEF Rest
<1>5. k + 1 + 0 + Len(todo) = Whole
    BY <1>2 DEF Rest
<1> QED BY <1>1, <1>2, <1>3, <1>4, <1>5 DEF Rest

LEMMA RestKept ==
    ASSUME NEW k, Rest(k), UNCHANGED <<toArd, todo, req>>
    PROVE  Rest(k)' /\ Whole' = Whole
BY DEF Rest, Whole

LEMMA AnswerSame ==
    ASSUME req' = req, eth' = eth
    PROVE  \A f : AnswerSize(f)' = AnswerSize(f) /\ \A i : AnswerByte(f, i)' = AnswerByte(f, i)
BY DEF AnswerSize, AnswerByte

LEMMA FlowKept ==
    ASSUME NEW f, Flow(f), UNCHANGED <<got, toHost, offer, out, req, eth>>, Made(f)' = Made(f)
    PROVE  Flow(f)'
BY AnswerSame DEF Flow

LEMMA FlowOffer ==
    ASSUME NEW f, Flow(f), got \in Seq(Bytes), out \in Seq(Bytes), toHost \in Seq(Bytes), out # <<>>, offer = <<>>,
           offer' = <<Head(out)>>, out' = Tail(out),
           UNCHANGED <<got, toHost, req, eth>>, Made(f)' = Made(f)
    PROVE  Flow(f)'
<1>1. /\ Len(out) \in Nat \ {0} /\ Len(out') = Len(out) - 1 /\ Head(out) = out[1]
      /\ \A i \in 1..Len(out') : out'[i] = out[i + 1]
    OBVIOUS
<1>2. Len(offer) = 0 /\ Len(offer') = 1 /\ Len(got) \in Nat /\ Len(toHost) \in Nat
    OBVIOUS
<1>3. Len(got) + Len(toHost) + 1 + Len(out') = Made(f)
    BY <1>1, <1>2 DEF Flow
<1>4. out[1] = AnswerByte(f, Len(got) + Len(toHost) + 1)
    BY <1>1, <1>2 DEF Flow
<1>5. ASSUME NEW i \in 1..Len(out') PROVE out'[i] = AnswerByte(f, Len(got) + Len(toHost) + 1 + i)
    <2>1. i + 1 \in 1..Len(out) /\ Len(got) + Len(toHost) + 0 + (i + 1) = Len(got) + Len(toHost) + 1 + i
        BY <1>1, <1>2
    <2>2. out[i + 1] = AnswerByte(f, Len(got) + Len(toHost) + 0 + (i + 1))
        BY <1>2, <2>1 DEF Flow
    <2> QED BY <1>1, <2>1, <2>2
<1>6. /\ Len(got) < AnswerSize(f) /\ \A i \in 1..Len(got) : got[i] = AnswerByte(f, i)
      /\ toHost # <<>> => toHost = <<AnswerByte(f, Len(got) + 1)>>
    BY DEF Flow
<1> QED BY <1>1, <1>2, <1>3, <1>4, <1>5, <1>6, AnswerSame DEF Flow

LEMMA Short ==
    ASSUME NEW S, NEW s \in Seq(S), Len(s) <= 1
    PROVE  s = <<>> \/ (Len(s) = 1 /\ s[1] \in S /\ s = <<s[1]>>)
<1>1. CASE Len(s) = 0
    BY <1>1
<1>2. CASE Len(s) = 1
    <2> DEFINE t == <<s[1]>>
    <2>1. s[1] \in S
        BY <1>2
    <2>2. t \in Seq(S) /\ Len(t) = 1 /\ t[1] = s[1]
        BY <2>1
    <2> HIDE DEF t
    <2>3. s = t
        BY <1>2, <2>2
    <2>4. s = <<s[1]>>
        BY <2>3 DEF t
    <2> HIDE DEF t
    <2> QED BY <1>2, <2>1, <2>4
<1> DEFINE k == Len(s)
<1>3. k \in Nat /\ k <= 1
    OBVIOUS
<1> HIDE DEF k
<1>4. k = 0 \/ k = 1
    BY <1>3
<1> QED BY <1>1, <1>2, <1>4 DEF k

LEMMA FlowPut ==
    ASSUME NEW f, Flow(f), got \in Seq(Bytes), out \in Seq(Bytes), offer \in Seq(Bytes), Len(offer) <= 1,
           offer # <<>>, toHost = <<>>, toHost' = offer, offer' = <<>>,
           UNCHANGED <<got, out, req, eth>>, Made(f)' = Made(f)
    PROVE  Flow(f)'
<1>1. Len(offer) = 1 /\ Len(toHost) = 0 /\ Len(offer') = 0 /\ Len(got) \in Nat /\ Len(out) \in Nat
    BY Short
<1>2. Len(got) + 1 + 0 + Len(out) = Made(f)
    BY <1>1 DEF Flow
<1>3. offer = <<AnswerByte(f, Len(got) + 1)>>
    <2>1. Len(got) + 0 + 1 = Len(got) + 1
        BY <1>1
    <2>2. offer = <<AnswerByte(f, Len(got) + 0 + 1)>>
        BY <1>1 DEF Flow
    <2> QED BY <2>1, <2>2
<1>4. ASSUME NEW i \in 1..Len(out) PROVE out[i] = AnswerByte(f, Len(got) + 1 + 0 + i)
    <2>1. Len(got) + 0 + 1 + i = Len(got) + 1 + 0 + i
        BY <1>1
    <2>2. out[i] = AnswerByte(f, Len(got) + 0 + 1 + i)
        BY <1>1 DEF Flow
    <2> QED BY <2>1, <2>2
<1>5. /\ Len(got) < AnswerSize(f) /\ \A i \in 1..Len(got) : got[i] = AnswerByte(f, i)
    BY DEF Flow
<1> QED BY <1>1, <1>2, <1>3, <1>4, <1>5, AnswerSame DEF Flow

LEMMA FlowTaken ==
    ASSUME NEW f \in Seq(Bytes), Flow(f), got \in Seq(Bytes), out \in Seq(Bytes), offer \in Seq(Bytes),
           NEW b \in Bytes, toHost = <<b>>, toHost' = <<>>, got' = Append(got, b),
           UNCHANGED <<offer, out, req>>
    PROVE  /\ b = AnswerByte(f, Len(got) + 1) /\ Len(got') = Len(got) + 1
           /\ Len(got') + Len(offer) + Len(out) = Made(f) /\ Len(got') <= AnswerSize(f)
           /\ \A i \in 1..Len(got') : got'[i] = AnswerByte(f, i)
           /\ eth' = eth /\ Len(got') # AnswerSize(f) /\ Made(f)' = Made(f) => Flow(f)'
<1>1. Len(toHost) = 1 /\ Len(toHost') = 0 /\ Len(got) \in Nat /\ Len(out) \in Nat /\ Len(offer) \in Nat
    OBVIOUS
<1>2. Len(got') = Len(got) + 1 /\ \A i \in 1..Len(got') : got'[i] = IF i <= Len(got) THEN got[i] ELSE b
    OBVIOUS
<1>3. b = AnswerByte(f, Len(got) + 1)
    <2>1. toHost[1] = b /\ toHost # <<>>
        OBVIOUS
    <2>2. toHost = <<AnswerByte(f, Len(got) + 1)>>
        BY <2>1 DEF Flow
    <2> QED BY <2>1, <2>2
<1>4. \A i \in 1..Len(got') : got'[i] = AnswerByte(f, i)
    <2>1. \A i \in 1..Len(got) : got[i] = AnswerByte(f, i)
        BY DEF Flow
    <2>2. ASSUME NEW i \in 1..Len(got') PROVE got'[i] = AnswerByte(f, i)
        <3>1. i \in 1..Len(got) \/ i = Len(got) + 1
            BY <1>1, <1>2
        <3>2. CASE i \in 1..Len(got)
            BY <1>2, <2>1, <3>2
        <3>3. CASE i = Len(got) + 1
            BY <1>1, <1>2, <1>3, <3>3
        <3> QED BY <3>1, <3>2, <3>3
    <2> QED BY <2>2
<1>5. Len(got') + Len(offer) + Len(out) = Made(f)
    BY <1>1, <1>2 DEF Flow
<1>6. Len(got) < AnswerSize(f) /\ AnswerSize(f) \in Int => Len(got') <= AnswerSize(f)
    BY <1>1, <1>2
<1>7. Len(got) < AnswerSize(f)
    BY DEF Flow
<1>8. AnswerSize(f) \in Int
    BY DEF AnswerSize
<1>9. eth' = eth /\ Len(got') # AnswerSize(f) /\ Made(f)' = Made(f) => Flow(f)'
    <2> SUFFICES ASSUME eth' = eth, Len(got') # AnswerSize(f), Made(f)' = Made(f) PROVE Flow(f)'
        OBVIOUS
    <2>1. /\ Len(got') + Len(toHost') + Len(offer') + Len(out') = Made(f)'
          /\ Len(got') < AnswerSize(f)'
        BY <1>1, <1>5, <1>6, <1>7, <1>8, AnswerSame
    <2>2. \A i \in 1..Len(got') : got'[i] = AnswerByte(f, i)'
        BY <1>4, AnswerSame
    <2>3. offer' # <<>> => offer' = <<AnswerByte(f, Len(got') + Len(toHost') + 1)>>
        <3>1. Len(got) + Len(toHost) + 1 = Len(got') + Len(toHost') + 1
            BY <1>1, <1>2
        <3>2. offer # <<>> => offer = <<AnswerByte(f, Len(got) + Len(toHost) + 1)>>
            BY DEF Flow
        <3> QED BY <3>1, <3>2
    <2>4. ASSUME NEW i \in 1..Len(out')
          PROVE  out'[i] = AnswerByte(f, Len(got') + Len(toHost') + Len(offer') + i)
        <3>1. Len(got) + Len(toHost) + Len(offer) + i = Len(got') + Len(toHost') + Len(offer') + i
            BY <1>1, <1>2
        <3>2. out[i] = AnswerByte(f, Len(got) + Len(toHost) + Len(offer) + i)
            BY DEF Flow
        <3> QED BY <3>1, <3>2
    <2> QED BY <2>1, <2>2, <2>3, <2>4, AnswerSame DEF Flow
<1> QED BY <1>2, <1>3, <1>4, <1>5, <1>6, <1>7, <1>8, <1>9

-----------------------------------------------------------------------------
(* The steps of the program on the Apple. *)

\* What a step leaves alone when it touches neither the sketch nor the chip.
LEMMA HostOnly ==
    ASSUME IInv, UNCHANGED <<place, local, regs, rx, tx, waiting>>,
           held' = held \/ (held' = {} /\ hpc = "idle")
    PROVE  /\ Locals' /\ Ringed'
           /\ (Idling' <=> Idling) /\ (Body' <=> Body) /\ (Live' <=> Live) /\ Taken' = (IF apc \in {"mac", "lenlo", "lenhi", "size", "sized", "fill"} THEN Taken ELSE Whole')
<1>1. /\ apc' = apc /\ after' = after /\ out' = out /\ cmd' = cmd /\ eth' = eth /\ len' = len
      /\ n' = n /\ seen' = seen /\ val' = val /\ dlen' = dlen /\ cr' = cr
    BY DEF place, local, regs
<1>2. Locals'
    BY <1>1 DEF IInv, Locals, Streaming, Sending, Body, Headed, Dropping
<1>3. (Idling' <=> Idling) /\ (Body' <=> Body) /\ (Live' <=> Live)
    BY <1>1 DEF Idling, Body, Live, Headed, Streaming, Dropping, Opening
<1>4. Ringed'
    <2>1. held' \subseteq held
        OBVIOUS
    <2> QED BY <1>1, <1>3, <2>1, RingKept DEF IInv
<1>5. Taken' = (IF apc \in {"mac", "lenlo", "lenhi", "size", "sized", "fill"} THEN Taken ELSE Whole')
    BY <1>1 DEF Taken
<1> QED BY <1>2, <1>3, <1>4, <1>5

LEMMA WholeType ==
    ASSUME IInv
    PROVE  /\ Asked(req) \in Seq(Data) /\ Whole \in Nat /\ Whole >= 1 /\ Taken \in Nat /\ Served \in Nat
           /\ todo \in Seq(Data) /\ got \in Seq(Bytes) /\ {toHost, offer, out} \subseteq Seq(Bytes)
           /\ toArd \in Seq(Data) /\ Len(toArd) <= 1 /\ Len(toHost) <= 1 /\ Len(offer) <= 1
           /\ req \in Requests
<1>1. req \in Requests /\ n \in Nat
    BY Sizes DEF IInv, TypeOK
<1>2. Asked(req) \in Seq(Data) /\ Whole \in Nat /\ Whole >= 1
    <2>1. CASE req.op = "init"
        BY <1>1, <2>1, AskedInit, SizesAssumption DEF Whole
    <2>2. CASE req.op # "init"
        <3>1. Len(req.frame) \in Nat
            BY <1>1, RequestType
        <3> QED BY <1>1, <2>2, <3>1, AskedWord DEF Whole
    <2> QED BY <2>1, <2>2
<1>3. Taken \in Nat /\ Served \in Nat
    BY <1>1, <1>2 DEF Taken, Served
<1>4. /\ todo \in Seq(Data) /\ got \in Seq(Bytes) /\ {toHost, offer, out} \subseteq Seq(Bytes)
      /\ toArd \in Seq(Data) /\ Len(toArd) <= 1 /\ Len(toHost) <= 1 /\ Len(offer) <= 1
    BY DEF IInv, TypeOK, Turn, Data
<1> QED BY <1>1, <1>2, <1>3, <1>4

LEMMA PutKeeps == ASSUME IInv, HostPut PROVE IInv'
<1>1. /\ hpc = "put" /\ todo # <<>> /\ toArd = <<>> /\ toArd' = <<Head(todo)>> /\ todo' = Tail(todo)
      /\ toHost' = toHost /\ offer' = offer
      /\ hpc' = (IF todo' = <<>> THEN "take" ELSE "put")
      /\ req' = req /\ got' = got /\ ready' = ready /\ held' = held
      /\ UNCHANGED <<place, local, regs, rx, tx, waiting>>
    BY DEF HostPut, Port!HostPut, hist
<1>2. /\ apc' = apc /\ after' = after /\ out' = out /\ cmd' = cmd /\ eth' = eth /\ len' = len
      /\ n' = n /\ seen' = seen /\ val' = val /\ dlen' = dlen
    BY <1>1 DEF place, local
<1>3. /\ Locals' /\ Ringed' /\ (Idling' <=> Idling)
    BY <1>1, HostOnly
<1>4. todo \in Seq(Data) /\ Head(todo) \in Data /\ Tail(todo) \in Seq(Data)
    BY <1>1 DEF IInv, TypeOK, Data
<1>5. TypeOK'
    BY <1>1, <1>4 DEF IInv, TypeOK, place, local, regs, rx, tx, Data
<1>6. Places'
    BY <1>1, <1>2, <1>3 DEF IInv, Places, Opening
<1>7. Doing'
    BY <1>1, <1>2, <1>3 DEF IInv, Doing, Closing, Opening, Body, Headed, Streaming, Dropping, Sending, Wanted
<1>8. Chip'
    BY <1>1 DEF IInv, Chip, Live, Opening, Closing, Sending, OnItsWay, CommandOf, place, regs, tx
<1>9. Filling'
    BY <1>1 DEF IInv, Filling, place, local, tx
<1>10. Whole' = Whole /\ Taken' = Taken /\ Served' = Served
    BY <1>1, <1>2, <1>3 DEF Whole, Taken, Served
<1>11. Rest(Served)'
    <2> DEFINE k == Served
    <2>1. k \in Nat /\ Rest(k)
        BY <1>1, WholeType DEF IInv, Turn
    <2>2. k' = k
        BY <1>10
    <2> HIDE DEF k
    <2>3. Rest(k)'
        BY <1>1, <1>4, <2>1, <2>2, RestPut
    <2> QED BY <2>3 DEF k
<1>12. ASSUME NEW f PROVE Made(f)' = Made(f)
    BY <1>1, <1>2 DEF Made, AnswerSize, Opening, Sending, Headed, Streaming
<1>13. IF held' = {} THEN Nothing' ELSE \E f : held' = {f} /\ FrameOk(f)' /\ Flow(f)'
    <2>1. CASE held = {}
        BY <1>1, <1>2, <2>1 DEF IInv, Turn, Nothing
    <2>2. CASE held # {}
        <3>1. PICK f : held = {f} /\ FrameOk(f) /\ Flow(f)
            BY <1>1, <2>2 DEF IInv, Turn
        <3>2. Flow(f)' /\ FrameOk(f)'
            BY <1>1, <1>2, <1>12, <3>1, FlowKept DEF FrameOk
        <3> QED BY <1>1, <2>2, <3>1, <3>2
    <2> QED BY <2>1, <2>2
<1>14. Turn'
    <2>1. /\ Len(toArd') <= 1 /\ Len(toHost') <= 1 /\ Len(offer') <= 1
          /\ {toArd', todo'} \subseteq Seq(Data) /\ {toHost', offer', out'} \subseteq Seq(Bytes)
        BY <1>1, <1>2, <1>4, WholeType
    <2>2. hpc' # "idle" /\ ((hpc' = "take") <=> (todo' = <<>>))
        BY <1>1
    <2> QED BY <1>11, <1>13, <2>1, <2>2 DEF Turn, Data
<1> QED BY <1>3, <1>5, <1>6, <1>7, <1>8, <1>9, <1>14 DEF IInv

LEMMA CallKeeps == ASSUME IInv, NEW c \in Requests, Call(c) PROVE IInv'
<1>1. /\ hpc = "idle" /\ (c.op # "init" => ready) /\ hpc' = "put" /\ req' = c /\ todo' = Asked(c)
      /\ got' = <<>> /\ held' = {} /\ ready' = ready
      /\ toArd' = toArd /\ toHost' = toHost /\ offer' = offer
      /\ UNCHANGED <<place, local, regs, rx, tx, waiting>>
    BY DEF Call, port
<1>2. /\ apc' = apc /\ after' = after /\ out' = out /\ cmd' = cmd /\ eth' = eth /\ len' = len
      /\ n' = n /\ seen' = seen /\ val' = val /\ dlen' = dlen
    BY <1>1 DEF place, local
<1>3. /\ Locals' /\ Ringed' /\ (Idling' <=> Idling)
    BY <1>1, HostOnly
<1>4. Idling /\ toArd = <<>> /\ toHost = <<>>
    BY <1>1 DEF IInv, Places, Turn
<1>5. offer = <<>> /\ out = <<>>
    BY <1>4 DEF IInv, Places, Idling
<1>6. Asked(c) \in Seq(Data) /\ Asked(c) # <<>> /\ Len(Asked(c)) \in Nat
    <2>1. Asked(c) \in Seq(Data) /\ Len(Asked(c)) >= 1
        <3>1. CASE c.op = "init"
            BY <3>1, AskedInit, SizesAssumption
        <3>2. CASE c.op # "init"
            <4>1. Len(c.frame) \in Nat
                BY RequestType
            <4> QED BY <3>2, <4>1, AskedWord
        <3> QED BY <3>1, <3>2
    <2> DEFINE s == Asked(c)
    <2> HIDE DEF s
    <2>2. s \in Seq(Data) /\ Len(s) >= 1 => s # <<>> /\ Len(s) \in Nat
        OBVIOUS
    <2> QED BY <2>1, <2>2 DEF s
<1>7. TypeOK'
    BY <1>1, <1>6 DEF IInv, TypeOK, place, local, regs, rx, tx, Data
<1>8. Places'
    BY <1>1, <1>2, <1>3 DEF IInv, Places, Opening
<1>9. Doing'
    BY <1>1, <1>3, <1>4 DEF Doing
<1>10. Chip'
    BY <1>1, <1>2, <1>4 DEF IInv, Chip, Live, Opening, Closing, Sending, OnItsWay, CommandOf, place, regs, tx, Idling
<1>11. Filling'
    BY <1>1, <1>2, <1>4 DEF IInv, Filling, place, local, tx, Idling
<1>12. Rest(Served)'
    <2>1. Served' = 0
        BY <1>1, <1>3, <1>4 DEF Served
    <2>2. Len(toArd') = 0 /\ toArd' = <<>> /\ Whole' = Len(todo') /\ Asked(req)' = todo'
        BY <1>1, <1>4 DEF Whole
    <2>3. \A i \in 1..Len(todo') : 0 + 0 + i = i
        OBVIOUS
    <2> QED BY <1>1, <1>6, <2>1, <2>2, <2>3 DEF Rest
<1>13. Turn'
    <2>1. /\ Len(toArd') <= 1 /\ Len(toHost') <= 1 /\ Len(offer') <= 1
          /\ {toArd', todo'} \subseteq Seq(Data) /\ {toHost', offer', out'} \subseteq Seq(Bytes)
        BY <1>1, <1>2, <1>6, WholeType
    <2>2. hpc' # "idle" /\ ((hpc' = "take") <=> (todo' = <<>>)) /\ held' = {} /\ Nothing'
        BY <1>1, <1>2, <1>4, <1>5, <1>6 DEF Nothing
    <2> QED BY <1>12, <2>1, <2>2 DEF Turn, Data
<1> QED BY <1>3, <1>7, <1>8, <1>9, <1>10, <1>11, <1>13 DEF IInv

\* The frame that is being delivered is the one that is held.
LEMMA Delivered ==
    ASSUME IInv, NEW f, held = {f}, Streaming
    PROVE  /\ req.op = "poll" /\ Len(f) = dlen /\ n <= dlen /\ n \in Nat /\ dlen \in Nat
<1>1. Body /\ n <= dlen /\ dlen <= len
    BY DEF IInv, Locals, Body
<1>2. req.op = "poll"
    BY <1>1 DEF IInv, Doing
<1>3. eth
    BY DEF IInv, Places, Streaming, Opening
<1>4. PICK lag, p : Lies(lag, p)
    BY <1>3 DEF IInv, Ringed, Live
<1>5. Len(f) = dlen
    BY <1>1, <1>4 DEF Lies
<1>6. n \in Nat /\ dlen \in Nat
    BY Sizes DEF IInv, TypeOK
<1> QED BY <1>1, <1>2, <1>5, <1>6

LEMMA AnswerBound ==
    ASSUME IInv, NEW f, held = {f}, FrameOk(f)
    PROVE  Made(f) <= AnswerSize(f)
<1>1. Len(f) \in Nat /\ AnswerSize(f) \in Nat
    BY DEF FrameOk, AnswerSize
<1>2. CASE Streaming /\ ~Opening /\ ~Sending /\ ~Headed
    BY <1>1, <1>2, Delivered DEF Made, AnswerSize
<1>3. CASE ~(Streaming /\ ~Opening /\ ~Sending /\ ~Headed)
    BY <1>1, <1>3 DEF Made
<1> QED BY <1>2, <1>3

\* An answer that is complete leaves the sketch with nothing to say.
LEMMA AnswerEnds ==
    ASSUME IInv, NEW f, held = {f}, FrameOk(f), hpc # "idle",
           Made(f) = AnswerSize(f), offer = <<>>, out = <<>>
    PROVE  Idling
<1>1. apc # "put"
    BY DEF IInv, Places
<1>2. Len(f) \in Nat /\ AnswerSize(f) \in Nat /\ AnswerSize(f) > 0
    BY DEF FrameOk, AnswerSize
<1>3. ~Opening /\ ~Sending /\ ~Headed
    BY <1>2 DEF Made
<1> SUFFICES ASSUME ~Idling PROVE FALSE
    OBVIOUS
<1>4. apc \notin {"mac", "lenlo", "lenhi", "size", "sized", "fill"} /\ ~Closing
    BY DEF IInv, Doing
<1>5. apc = "stream" /\ n # dlen
    BY <1>1, <1>3, <1>4 DEF IInv, TypeOK, Places, Idling, Closing, Opening, Sending, Headed
<1> QED BY <1>2, <1>3, <1>5, Delivered DEF Made, AnswerSize, Streaming

\* What the program has read so far, and whether it is the whole answer.
LEMMA TakeTold ==
    ASSUME IInv, NEW b \in Bytes, HostTake(b)
    PROVE  /\ held # {} /\ todo = <<>> /\ Rest(Served)
           /\ \E f : /\ held = {f} /\ FrameOk(f) /\ Flow(f) /\ f \in Seq(Bytes) /\ Len(f) \in 0..Mod - 1
                     /\ b = AnswerByte(f, Len(got) + 1) /\ Len(got') = Len(got) + 1
                     /\ Len(got') + Len(offer) + Len(out) = Made(f) /\ Len(got') <= AnswerSize(f)
                     /\ \A i \in 1..Len(got') : got'[i] = AnswerByte(f, i)
                     /\ eth' = eth /\ Len(got') # AnswerSize(f) /\ Made(f)' = Made(f) => Flow(f)'
                     /\ hpc' = "idle" <=> Len(got') = AnswerSize(f)
<1>1. /\ hpc = "take" /\ toHost = <<b>> /\ toHost' = <<>> /\ toArd' = toArd /\ offer' = offer
      /\ got' = Append(got, b)
      /\ hpc' = (IF Len(got') = Expected(got)' THEN "idle" ELSE "take")
      /\ ready' = (IF req.op = "init" THEN b = 0 ELSE ready)
      /\ req' = req /\ todo' = todo /\ held' = held
      /\ UNCHANGED <<place, local, regs, rx, tx, waiting>>
    BY DEF HostTake, Port!HostTake, hist, Expected
<1>2. UNCHANGED <<apc, after, out, cmd, eth, len, n, seen, val, dlen>>
    BY <1>1 DEF place, local
<1>4. held # {} /\ todo = <<>> /\ Rest(Served)
    BY <1>1 DEF IInv, Turn, Nothing
<1>5. PICK f : held = {f} /\ FrameOk(f) /\ Flow(f)
    BY <1>1, <1>4 DEF IInv, Turn
<1>6. f \in Seq(Bytes) /\ Len(f) \in 0..Mod - 1
    <2>1. f \in Seq(Bytes) /\ Len(f) < Mod
        BY <1>5 DEF FrameOk
    <2> QED BY <2>1, Sizes
<1>7. /\ b = AnswerByte(f, Len(got) + 1) /\ Len(got') = Len(got) + 1
      /\ Len(got') + Len(offer) + Len(out) = Made(f) /\ Len(got') <= AnswerSize(f)
      /\ \A i \in 1..Len(got') : got'[i] = AnswerByte(f, i)
      /\ eth' = eth /\ Len(got') # AnswerSize(f) /\ Made(f)' = Made(f) => Flow(f)'
    BY <1>1, <1>2, <1>5, <1>6, WholeType, FlowTaken
\* The program knows when it has the whole answer.
<1>9. (hpc' = "idle") <=> (Len(got') = AnswerSize(f))
    <2>1. Len(got') \in Nat /\ Len(got') >= 1
        BY <1>7, WholeType
    <2>2. CASE req.op # "poll"
        BY <1>1, <2>2 DEF Expected, AnswerSize
    <2>3. CASE req.op = "poll" /\ Len(got') < 2
        BY <1>1, <1>6, <2>1, <2>3 DEF Expected, AnswerSize
    <2>4. CASE req.op = "poll" /\ Len(got') >= 2
        <3>1. got'[1] = Lo(Len(f)) /\ got'[2] = Hi(Len(f))
            BY <1>7, <2>1, <2>4 DEF AnswerByte
        <3>2. Lo(Len(f)) + Base * Hi(Len(f)) = Len(f) /\ Base * Hi(Len(f)) \in Nat /\ Lo(Len(f)) \in Nat
            BY <1>6, TwoBytes, Sizes DEF Bytes
        <3>3. Expected(got)' = 2 + got'[1] + Base * got'[2]
            BY <1>1, <2>1, <2>4 DEF Expected
        <3>4. Expected(got)' = 2 + Len(f)
            BY <3>1, <3>2, <3>3
        <3> QED BY <1>1, <2>4, <3>4 DEF AnswerSize
    <2> QED BY <2>1, <2>2, <2>3, <2>4
<1> QED BY <1>4, <1>5, <1>6, <1>7, <1>9

LEMMA TakeKeeps == ASSUME IInv, NEW b \in Bytes, HostTake(b) PROVE IInv'
<1>1. /\ hpc = "take" /\ toHost = <<b>> /\ toHost' = <<>> /\ toArd' = toArd /\ offer' = offer
      /\ got' = Append(got, b)
      /\ hpc' = (IF Len(got') = Expected(got)' THEN "idle" ELSE "take")
      /\ ready' = (IF req.op = "init" THEN b = 0 ELSE ready)
      /\ req' = req /\ todo' = todo /\ held' = held
      /\ UNCHANGED <<place, local, regs, rx, tx, waiting>>
    BY DEF HostTake, Port!HostTake, hist, Expected
<1>2. /\ apc' = apc /\ after' = after /\ out' = out /\ cmd' = cmd /\ eth' = eth /\ len' = len
      /\ n' = n /\ seen' = seen /\ val' = val /\ dlen' = dlen
    BY <1>1 DEF place, local
<1>3. /\ Locals' /\ Ringed' /\ (Idling' <=> Idling)
    BY <1>1, HostOnly
<1>4. held # {} /\ todo = <<>> /\ Rest(Served)
    BY TakeTold
<1>5. PICK f : /\ held = {f} /\ FrameOk(f) /\ Flow(f) /\ f \in Seq(Bytes) /\ Len(f) \in 0..Mod - 1
               /\ b = AnswerByte(f, Len(got) + 1) /\ Len(got') = Len(got) + 1
               /\ Len(got') + Len(offer) + Len(out) = Made(f) /\ Len(got') <= AnswerSize(f)
               /\ \A i \in 1..Len(got') : got'[i] = AnswerByte(f, i)
               /\ eth' = eth /\ Len(got') # AnswerSize(f) /\ Made(f)' = Made(f) => Flow(f)'
               /\ hpc' = "idle" <=> Len(got') = AnswerSize(f)
    BY TakeTold
<1>6. f \in Seq(Bytes) /\ Len(f) \in 0..Mod - 1
    BY <1>5
<1>7. /\ b = AnswerByte(f, Len(got) + 1) /\ Len(got') = Len(got) + 1
      /\ Len(got') + Len(offer) + Len(out) = Made(f) /\ Len(got') <= AnswerSize(f)
      /\ \A i \in 1..Len(got') : got'[i] = AnswerByte(f, i)
      /\ eth' = eth /\ Len(got') # AnswerSize(f) /\ Made(f)' = Made(f) => Flow(f)'
    BY <1>5
<1>8. Made(f)' = Made(f) /\ Whole' = Whole /\ Taken' = Taken /\ Served' = Served
    BY <1>1, <1>2, <1>3 DEF Made, AnswerSize, Opening, Sending, Headed, Streaming, Whole, Taken, Served
<1>9. (hpc' = "idle") <=> (Len(got') = AnswerSize(f))
    BY <1>5
<1>10. hpc' = "idle" => Idling /\ offer = <<>> /\ out = <<>>
    <2> SUFFICES ASSUME hpc' = "idle" PROVE Idling /\ offer = <<>> /\ out = <<>>
        OBVIOUS
    <2>1. Made(f) >= AnswerSize(f) /\ Len(offer) \in Nat /\ Len(out) \in Nat
        BY <1>5, <1>7, <1>9, WholeType
    <2>2. Made(f) <= AnswerSize(f)
        BY <1>5, AnswerBound
    <2>3. Len(offer) = 0 /\ Len(out) = 0
        BY <1>7, <1>9, <2>1, <2>2
    <2>4. offer = <<>> /\ out = <<>>
        BY <2>3, WholeType
    <2>5. Made(f) = AnswerSize(f)
        BY <1>7, <1>9, <2>3, WholeType
    <2> QED BY <1>1, <1>5, <2>4, <2>5, AnswerEnds
<1>11. TypeOK'
    <2>1. got' \in Seq(Bytes)
        BY <1>1, WholeType
    <2>2. ready' \in BOOLEAN
        BY <1>1 DEF IInv, TypeOK
    <2> QED BY <1>1, <2>1, <2>2 DEF IInv, TypeOK, place, local, regs, rx, tx, Data
<1>12. Places'
    <2>1. hpc' = "idle" => (ready' => eth')
        <3>1. CASE req.op = "init"
            <4>1. b = (IF eth THEN 0 ELSE 1)
                BY <1>7, <3>1 DEF AnswerByte
            <4>2. ready' = (b = 0)
                BY <1>1, <3>1
            <4>3. ready' => b = 0
                BY <4>2, Zenon
            <4>4. b = 0 => eth
                BY <4>1
            <4> QED BY <1>2, <4>3, <4>4
        <3>2. CASE req.op # "init"
            BY <1>1, <1>2, <3>2 DEF IInv, Places
        <3> QED BY <3>1, <3>2
    <2>2. hpc' # "idle" => (req'.op # "init" => eth')
        BY <1>1, <1>2 DEF IInv, Places
    <2>3. ~Idling' => hpc' # "idle"
        BY <1>3, <1>10
    <2> QED BY <1>1, <1>2, <1>3, <2>1, <2>2, <2>3 DEF IInv, Places, Opening
<1>13. Doing'
    BY <1>1, <1>2, <1>3 DEF IInv, Doing, Closing, Opening, Body, Headed, Streaming, Dropping, Sending, Wanted
<1>14. Chip'
    BY <1>1 DEF IInv, Chip, Live, Opening, Closing, Sending, OnItsWay, CommandOf, place, regs, tx
<1>15. Filling'
    BY <1>1 DEF IInv, Filling, place, local, tx
<1>16. Rest(Served)'
    <2> DEFINE k == Served
    <2>1. Rest(k) /\ k' = k
        BY <1>4, <1>8
    <2> HIDE DEF k
    <2>2. Rest(k)'
        BY <1>1, <2>1, RestKept
    <2> QED BY <2>2 DEF k
<1>17. Turn'
    <2>1. /\ Len(toArd') <= 1 /\ Len(toHost') <= 1 /\ Len(offer') <= 1
          /\ {toArd', todo'} \subseteq Seq(Data) /\ {toHost', offer', out'} \subseteq Seq(Bytes)
        BY <1>1, <1>2, WholeType
    <2>2. CASE hpc' = "idle"
        <3>1. Served = Whole
            BY <1>4, <1>10, <2>2 DEF Served, Taken, Idling
        <3>2. Len(toArd) = 0
            BY <1>4, <3>1, WholeType DEF Rest
        <3>3. toArd = <<>>
            BY <3>2, WholeType
        <3> QED BY <1>1, <1>4, <2>1, <2>2, <3>3 DEF Turn, Data
    <2>3. CASE hpc' # "idle"
        <3>1. Flow(f)' /\ FrameOk(f)'
            BY <1>1, <1>2, <1>5, <1>7, <1>8, <1>9, <2>3 DEF FrameOk
        <3>2. hpc' = "take" /\ todo' = <<>>
            BY <1>1, <1>4, <2>3
        <3> QED BY <1>1, <1>4, <1>5, <1>16, <2>1, <3>1, <3>2 DEF Turn, Data
    <2> QED BY <2>2, <2>3
<1> QED BY <1>3, <1>11, <1>12, <1>13, <1>14, <1>15, <1>17 DEF IInv

-----------------------------------------------------------------------------
(* The steps of the chip. *)

LEMMA ModMod ==
    ASSUME NEW x \in Nat, NEW k \in Nat
    PROVE  ((x % Mod) + k) % Mod = (x + k) % Mod
<1> DEFINE q == x \div Mod
           y == (x % Mod) + k
           Q == y \div Mod
           r == y % Mod
<1>1. x = Mod * q + (x % Mod) /\ q \in Nat /\ x % Mod \in Nat
    BY Sizes, DivMod
<1>2. y \in Nat
    BY <1>1
<1>3. y = Mod * Q + r /\ Q \in Nat /\ r \in 0..Mod - 1
    BY <1>2, Sizes, DivMod
<1>4. x + k = Mod * q + y
    <2>1. Mod * q \in Nat
        BY <1>1, Sizes
    <2> QED BY <1>1, <2>1
<1> HIDE DEF q, y, Q, r, Mod
<1>5. x + k = Mod * (q + Q) + r /\ q + Q \in Int
    BY <1>1, <1>3, <1>4, Sizes
<1> DEFINE P == q + Q
<1> HIDE DEF P
<1>6. x + k = Mod * P + r /\ P \in Int
    BY <1>5 DEF P
<1>7. (x + k) % Mod = r
    BY <1>3, <1>6, Sizes, UniqueMod
<1> QED BY <1>7 DEF r, y

\* What is kept of the receive buffer is all that lies between the pointers.
LEMMA KeptView ==
    ASSUME NEW b, NEW a \in 0..Mod - 1, NEW l \in 0..Ring, NEW T \in 0..Ring, l <= T,
           NEW j \in Nat, j < T - l
    PROVE  Kept(b, (a + l) % Mod, (a + T) % Mod)[(((a + l) % Mod) + j) % Ring] = b[(a + (l + j)) % Ring]
<1> DEFINE from == (a + l) % Mod
           to   == (a + T) % Mod
           i    == (from + j) % Ring
           m    == T - l
<1>1. a \in Nat /\ l \in Nat /\ T \in Nat /\ m \in Nat /\ m \in 0..Mod - 1 /\ a + l \in Nat /\ a + T \in Nat
    BY Sizes
<1>2. from \in 0..Mod - 1 /\ to \in 0..Mod - 1
    BY <1>1, Sizes, DivMod
<1>3. i = (a + (l + j)) % Ring
    <2>1. i = ((a + l) + j) % Ring
        BY <1>1, RingOfMod
    <2>2. (a + l) + j = a + (l + j)
        BY <1>1
    <2> QED BY <2>1, <2>2
<1>4. j \in 0..Ring - 1
    BY <1>1, Sizes
<1>5. i \in 0..Ring - 1
    <2>1. from + j \in Nat
        BY <1>2
    <2> HIDE DEF from
    <2> QED BY <2>1, Sizes, DivMod
<1>6. (i + Mod - from) % Ring = j
    <2> HIDE DEF from
    <2>1. \A z \in 0..Ring : (((from + j) % Ring) + Mod - ((from + z) % Mod)) % Ring
                               = IF j >= z THEN j - z ELSE j + Ring - z
        BY <1>2, <1>4, RingIndex
    <2>2. 0 \in 0..Ring /\ from + 0 = from /\ from % Mod = from
        BY <1>2, Sizes, SmallMod
    <2>3. (((from + j) % Ring) + Mod - ((from + 0) % Mod)) % Ring = j
        BY <1>4, <2>1, <2>2
    <2> QED BY <2>2, <2>3
<1>7. (to + Mod - from) % Mod = m
    <2>1. to = (from + m) % Mod
        <3>1. (((a + l) % Mod) + m) % Mod = ((a + l) + m) % Mod
            BY <1>1, ModMod
        <3>2. (a + l) + m = a + T
            BY <1>1
        <3> QED BY <3>1, <3>2
    <2> HIDE DEF from, m, to
    <2>2. (((from + m) % Mod) + Mod - from) % Mod = m
        BY <1>1, <1>2, Sizes, Distance
    <2> QED BY <2>1, <2>2
<1>8. Kept(b, from, to)[i] = IF (i + Mod - from) % Ring < (to + Mod - from) % Mod THEN b[i] ELSE 0
    <2> HIDE DEF i, from, to
    <2> QED BY <1>5 DEF Kept
<1>9. j < m
    OBVIOUS
<1> HIDE DEF from, to, i, m
<1>10. Kept(b, from, to)[i] = b[i]
    BY <1>6, <1>7, <1>8, <1>9
<1> QED BY <1>3, <1>10 DEF i, from, to

\* The pointers, as distances from the last one the chip was told.
LEMMA Pointers ==
    ASSUME IInv, NEW lag \in 0..Ring, NEW p \in [1..Len(waiting) + 1 -> 0..Ring], Lies(lag, p)
    PROVE  /\ Len(waiting) \in Nat /\ waiting \in Seq(Arrivals)
           /\ rxat \in 0..Mod - 1 /\ rxrd \in 0..Mod - 1 /\ rxwr \in 0..Mod - 1
           /\ lag \in Nat /\ 1 \in 1..Len(waiting) + 1 /\ Len(waiting) + 1 \in 1..Len(waiting) + 1
           /\ \A i \in 1..Len(waiting) + 1 :
                 /\ p[i] \in 0..Ring /\ p[i] \in Nat /\ lag <= p[1] /\ p[1] <= p[i]
                 /\ p[i] <= p[Len(waiting) + 1]
           /\ \A i \in 1..Len(waiting) :
                 /\ waiting[i] \in Seq(Bytes) /\ Len(waiting[i]) \in Nat
                 /\ Len(waiting[i]) + 2 <= Ring /\ Len(waiting[i]) + 2 <= Mod - 1
                 /\ i + 1 \in 1..Len(waiting) + 1 /\ p[i + 1] = p[i] + Len(waiting[i]) + 2
           /\ Body => dlen \in Nat /\ p[1] = lag + dlen
<1>1. Len(waiting) \in Nat /\ waiting \in Seq(Arrivals)
    BY DEF IInv, Ringed
<1>2. rxat \in 0..Mod - 1 /\ rxrd \in 0..Mod - 1 /\ rxwr \in 0..Mod - 1 /\ dlen \in 0..Mod - 1
    BY DEF IInv, TypeOK
<1>3. p[1] = lag + (IF Body THEN dlen ELSE 0) /\ dlen \in Nat
    BY <1>2, Sizes DEF Lies
<1>7. 1 \in 1..Len(waiting) + 1 /\ Len(waiting) + 1 \in 1..Len(waiting) + 1 /\ lag <= p[1]
    BY <1>1, <1>3, Sizes
<1>4. lag \in Nat /\ \A i \in 1..Len(waiting) + 1 : p[i] \in 0..Ring /\ p[i] \in Nat
    BY Sizes
<1>5. ASSUME NEW i \in 1..Len(waiting) + 1
      PROVE  p[1] <= p[i] /\ p[i] <= p[Len(waiting) + 1]
    <2>1. 1 \in 1..Len(waiting) + 1 /\ Len(waiting) + 1 \in 1..Len(waiting) + 1 /\ 1 <= i /\ i <= Len(waiting) + 1
        BY <1>1
    <2>2. \A k, j \in 1..Len(waiting) + 1 : k <= j => p[k] <= p[j]
        BY DEF Lies
    <2> QED BY <2>1, <2>2
<1>6. ASSUME NEW i \in 1..Len(waiting)
      PROVE  /\ waiting[i] \in Seq(Bytes) /\ Len(waiting[i]) \in Nat
             /\ Len(waiting[i]) + 2 <= Ring /\ Len(waiting[i]) + 2 <= Mod - 1
             /\ i + 1 \in 1..Len(waiting) + 1 /\ p[i + 1] = p[i] + Len(waiting[i]) + 2
    <2>1. waiting[i] \in Arrivals
        BY <1>1
    <2>2. waiting[i] \in Seq(Bytes) /\ Len(waiting[i]) + 2 <= Ring
        BY <2>1, FramesAssumption
    <2>3. i + 1 \in 1..Len(waiting) + 1
        BY <1>1
    <2>4. p[i + 1] = p[i] + Len(waiting[i]) + 2
        BY DEF Lies
    <2>5. Len(waiting[i]) \in Nat
        BY <2>2
    <2>6. Len(waiting[i]) + 2 <= Mod - 1
        BY <2>2, <2>5, Sizes
    <2> QED BY <2>2, <2>3, <2>4, <2>5, <2>6
<1> QED BY <1>1, <1>2, <1>3, <1>4, <1>5, <1>6, <1>7

\* The chip forgets what the driver has read, and nothing else.
LEMMA RunRinged == ASSUME IInv, ChipRuns PROVE Ringed'
<1>1. /\ cr # "none" /\ cr' = "none" /\ rxat' = (IF cr = "RECV" THEN rxrd ELSE rxat)
      /\ rxbuf' = Kept(rxbuf, rxat', rxwr) /\ rxrd' = rxrd /\ rxwr' = rxwr /\ waiting' = waiting
      /\ held' = held /\ UNCHANGED <<place, local>>
    BY DEF ChipRuns, hist
<1>2. (Body' <=> Body) /\ (Live' <=> Live) /\ dlen' = dlen /\ len' = len
    BY <1>1 DEF Body, Live, Headed, Streaming, Dropping, Opening, place, local
<1>3. ASSUME Live PROVE \E lag \in 0..Ring : \E p \in [1..Len(waiting) + 1 -> 0..Ring] : Lies(lag, p)'
    <2>1. PICK lag \in 0..Ring : \E p \in [1..Len(waiting) + 1 -> 0..Ring] : Lies(lag, p)
        BY <1>3 DEF IInv, Ringed
    <2>2. PICK p \in [1..Len(waiting) + 1 -> 0..Ring] : Lies(lag, p)
        BY <2>1
    <2> DEFINE last == Len(waiting) + 1
    <2>3. /\ Len(waiting) \in Nat
          /\ rxat \in 0..Mod - 1 /\ rxrd \in 0..Mod - 1 /\ rxwr \in 0..Mod - 1
          /\ lag \in Nat /\ 1 \in 1..last /\ last \in 1..last
          /\ \A i \in 1..last :
                p[i] \in 0..Ring /\ p[i] \in Nat /\ lag <= p[1] /\ p[1] <= p[i] /\ p[i] <= p[last]
          /\ \A i \in 1..Len(waiting) :
                /\ Len(waiting[i]) \in Nat /\ i + 1 \in 1..last /\ p[i + 1] = p[i] + Len(waiting[i]) + 2
          /\ Body => dlen \in Nat /\ p[1] = lag + dlen
        BY <2>2, Pointers
    <2>16. rxat \in 0..Mod - 1 /\ rxrd \in 0..Mod - 1 /\ lag \in Nat
        BY <2>3
    <2>4. PICK T \in Nat : T = p[last] /\ T \in 0..Ring /\ lag <= T
        BY <2>3
    <2>5. rxat' = (rxat + lag) % Mod /\ rxwr = (rxat + T) % Mod /\ rxrd = (rxat + lag) % Mod
        <3>1. rxwr = (rxat + T) % Mod /\ rxrd = (rxat + lag) % Mod
            BY <2>2, <2>4 DEF Lies
        <3>2. CASE cr = "RECV"
            BY <1>1, <3>1, <3>2
        <3>3. CASE cr # "RECV"
            <4>1. rxat + 0 = rxat /\ rxat % Mod = rxat
                BY <2>3, Sizes, SmallMod
            <4>2. lag = 0 /\ rxat' = rxat
                BY <1>1, <2>2, <3>3 DEF Lies
            <4> QED BY <3>1, <4>1, <4>2
        <3> QED BY <3>1, <3>2, <3>3
    <2>6. ASSUME NEW j \in Nat, j < T - lag PROVE rxbuf'[(rxat' + j) % Ring] = rxbuf[(rxat + (lag + j)) % Ring]
        <3>1. Kept(rxbuf, (rxat + lag) % Mod, (rxat + T) % Mod)[(((rxat + lag) % Mod) + j) % Ring]
                 = rxbuf[(rxat + (lag + j)) % Ring]
            BY <2>4, <2>6, <2>16, KeptView
        <3> QED BY <1>1, <2>5, <3>1
    <2>7. PICK q \in [1..last -> 0..Ring] : \A i \in 1..last : q[i] = p[i] - lag /\ q[i] \in Nat
        <3>1. ASSUME NEW i \in 1..last PROVE p[i] - lag \in 0..Ring /\ p[i] - lag \in Nat
            BY <2>3, Sizes
        <3>2. [i \in 1..last |-> p[i] - lag] \in [1..last -> 0..Ring]
            BY <3>1
        <3> QED BY <3>1, <3>2
    <2>8. rxrd' = (rxat' + 0) % Mod /\ rxwr' = (rxat' + q[last]) % Mod
        <3>1. (((rxat + lag) % Mod) + q[last]) % Mod = ((rxat + lag) + q[last]) % Mod
            <4>1. rxat + lag \in Nat /\ q[last] \in Nat
                BY <2>3, <2>7, Sizes
            <4> QED BY <4>1, ModMod
        <3>2. rxrd + 0 = rxrd /\ rxrd % Mod = rxrd /\ rxrd' = rxrd /\ rxat' = rxrd
            <4>1. rxrd % Mod = rxrd
                BY <2>16, Sizes, SmallMod
            <4>2. rxrd + 0 = rxrd
                BY <2>16
            <4> QED BY <1>1, <2>5, <4>1, <4>2
        <3>3. (rxat + lag) + q[last] = rxat + T
            <4>1. q[last] = T - lag
                BY <2>3, <2>4, <2>7
            <4> QED BY <2>3, <2>4, <4>1
        <3> QED BY <1>1, <2>5, <3>1, <3>2, <3>3
    <2>9. q[1] = 0 + (IF Body THEN dlen ELSE 0)
        <3>1. p[1] = lag + (IF Body THEN dlen ELSE 0)
            BY <2>2 DEF Lies
        <3>2. q[1] = p[1] - lag
            BY <2>3, <2>7
        <3>3. CASE Body
            BY <2>3, <3>2, <3>3
        <3>4. CASE ~Body
            BY <2>3, <3>1, <3>2, <3>4
        <3> QED BY <3>3, <3>4
    <2>10. ASSUME NEW i \in 1..Len(waiting)
           PROVE  /\ q[i + 1] = q[i] + Len(waiting[i]) + 2
                  /\ i \in 1..last /\ q[i] = p[i] - lag /\ p[i] \in Nat /\ lag <= p[i]
                  /\ p[i + 1] = p[i] + Len(waiting[i]) + 2 /\ p[i + 1] <= T /\ Len(waiting[i]) \in Nat
        <3>1. i \in 1..last /\ i + 1 \in 1..last
            BY <2>3
        <3>2. /\ q[i] = p[i] - lag /\ p[i] \in Nat /\ q[i + 1] = p[i + 1] - lag
              /\ p[i + 1] <= T /\ lag <= p[1] /\ p[1] <= p[i] /\ p[1] \in Nat
            BY <2>3, <2>4, <2>7, <3>1
        <3>3. p[i + 1] = p[i] + Len(waiting[i]) + 2 /\ Len(waiting[i]) \in Nat
            BY <2>3
        <3>4. q[i + 1] = q[i] + Len(waiting[i]) + 2
            BY <2>16, <3>2, <3>3
        <3>5. lag <= p[i]
            BY <2>16, <3>2
        <3> QED BY <3>1, <3>2, <3>3, <3>4, <3>5
    <2>11. (\A i, j \in 1..last : i <= j => q[i] <= q[j]) /\ q[last] <= Ring
        <3>1. \A i, j \in 1..last : i <= j => p[i] <= p[j]
            BY <2>2 DEF Lies
        <3>2. ASSUME NEW i \in 1..last, NEW j \in 1..last, i <= j PROVE q[i] <= q[j]
            <4>1. p[i] <= p[j] /\ p[i] \in Nat /\ p[j] \in Nat /\ q[i] = p[i] - lag /\ q[j] = p[j] - lag
                BY <2>3, <2>7, <3>1, <3>2
            <4> QED BY <2>3, <4>1
        <3>3. q[last] \in 0..Ring
            BY <2>3, <2>7
        <3> QED BY <3>2, <3>3, Sizes
    <2>12. ASSUME NEW i \in 1..Len(waiting), NEW k \in 1..Len(waiting[i]) + 2
           PROVE  rxbuf'[(rxat' + (q[i] + k - 1)) % Ring] = Stored(waiting[i])[k]
        <3>1. k \in Nat /\ k >= 1 /\ k <= Len(waiting[i]) + 2
            BY <2>10
        <3>2. /\ q[i] = p[i] - lag /\ p[i] \in Nat /\ lag <= p[i] /\ Len(waiting[i]) \in Nat
              /\ p[i + 1] = p[i] + Len(waiting[i]) + 2 /\ p[i + 1] <= T
            BY <2>10
        <3>3. PICK j \in Nat : j = q[i] + k - 1 /\ j < T - lag /\ lag + j = p[i] + k - 1
            <4> DEFINE j == q[i] + k - 1
            <4>1. p[i] + Len(waiting[i]) + 2 <= T
                BY <3>2
            <4>2. lag + j = p[i] + k - 1
                BY <2>16, <3>1, <3>2
            <4>3. j \in Nat
                BY <2>16, <3>1, <3>2
            <4>5. p[i] \in Nat /\ Len(waiting[i]) \in Nat /\ T \in Nat
                BY <2>4, <3>2
            <4>6. p[i] + k - 1 < T
                BY <3>1, <4>1, <4>5
            <4> HIDE DEF j
            <4>4. j < T - lag
                BY <2>16, <4>2, <4>3, <4>5, <4>6
            <4> QED BY <4>2, <4>3, <4>4 DEF j
        <3>4. rxbuf[(rxat + (p[i] + k - 1)) % Ring] = Stored(waiting[i])[k]
            BY <2>2 DEF Lies, View
        <3>5. rxbuf'[(rxat' + j) % Ring] = rxbuf[(rxat + (lag + j)) % Ring]
            BY <2>6, <3>3
        <3> QED BY <3>3, <3>4, <3>5
    <2>13. ASSUME Body, NEW f \in held
           PROVE  IF dlen <= len
                  THEN Len(f) = dlen /\ \A k \in 1..dlen : rxbuf'[(rxat' + (0 + k - 1)) % Ring] = f[k]
                  ELSE f = <<>>
        <3>1. IF dlen <= len
              THEN Len(f) = dlen /\ \A k \in 1..dlen : rxbuf[(rxat + (lag + k - 1)) % Ring] = f[k]
              ELSE f = <<>>
            BY <2>2, <2>13 DEF Lies, View
        <3>2. ASSUME NEW k \in 1..dlen
              PROVE  rxbuf'[(rxat' + (0 + k - 1)) % Ring] = rxbuf[(rxat + (lag + k - 1)) % Ring]
            <4>1. p[1] = lag + dlen /\ p[1] <= T /\ dlen \in Nat /\ k \in Nat /\ k >= 1 /\ k <= dlen
                BY <2>3, <2>4, <2>13
            <4>2. PICK j \in Nat : j = 0 + k - 1 /\ j < T - lag /\ lag + j = lag + k - 1
                BY <2>3, <2>4, <4>1
            <4>3. rxbuf'[(rxat' + j) % Ring] = rxbuf[(rxat + (lag + j)) % Ring]
                BY <2>6, <4>2
            <4> QED BY <4>2, <4>3
        <3> QED BY <3>1, <3>2
    <2>14. Lies(0, q)'
        BY <1>1, <1>2, <2>8, <2>9, <2>10, <2>11, <2>12, <2>13 DEF Lies, View
    <2>15. 0 \in 0..Ring
        BY Sizes
    <2> QED BY <2>7, <2>14, <2>15
<1>4. waiting \in Seq(Arrivals) /\ (Body' => dlen' + 2 <= Ring)
    BY <1>2 DEF IInv, Ringed
<1> QED BY <1>1, <1>2, <1>3, <1>4 DEF Ringed

\* What the chip does is nothing to the port and to the two programs.
LEMMA ChipOnly ==
    ASSUME IInv, UNCHANGED <<port, host, place, local, held>>
    PROVE  Places' /\ Locals' /\ Turn' /\ Doing'
<1>1. /\ apc' = apc /\ after' = after /\ out' = out /\ cmd' = cmd /\ eth' = eth /\ len' = len
      /\ n' = n /\ seen' = seen /\ val' = val /\ dlen' = dlen /\ held' = held
      /\ hpc' = hpc /\ req' = req /\ todo' = todo /\ got' = got /\ ready' = ready
      /\ toArd' = toArd /\ toHost' = toHost /\ offer' = offer
    BY DEF port, host, place, local
<1>2. Places'
    BY <1>1 DEF IInv, Places, Idling, Opening
<1>3. Locals'
    BY <1>1 DEF IInv, Locals, Streaming, Sending, Body, Headed, Dropping
<1>4. Doing'
    BY <1>1 DEF IInv, Doing, Idling, Closing, Opening, Body, Headed, Streaming, Dropping, Sending, Wanted
<1>5. Served' = Served /\ \A f : Made(f)' = Made(f)
    BY <1>1 DEF Served, Taken, Whole, Made, AnswerSize, Idling, Opening, Sending, Headed, Streaming
<1>6. Turn'
    <2>1. CASE hpc = "idle"
        BY <1>1, <2>1 DEF IInv, Turn
    <2>2. CASE hpc # "idle"
        <3>1. Rest(Served)'
            <4> DEFINE k == Served
            <4>1. Rest(k) /\ k' = k
                BY <1>5, <2>2 DEF IInv, Turn
            <4> HIDE DEF k
            <4>2. Rest(k)'
                BY <1>1, <4>1, RestKept
            <4> QED BY <4>2 DEF k
        <3>2. IF held' = {} THEN Nothing' ELSE \E f : held' = {f} /\ FrameOk(f)' /\ Flow(f)'
            <4>1. CASE held = {}
                BY <1>1, <2>2, <4>1 DEF IInv, Turn, Nothing
            <4>2. CASE held # {}
                <5>1. PICK f : held = {f} /\ FrameOk(f) /\ Flow(f)
                    BY <2>2, <4>2 DEF IInv, Turn
                <5>2. Flow(f)' /\ FrameOk(f)'
                    BY <1>1, <1>5, <5>1, FlowKept DEF FrameOk
                <5> QED BY <1>1, <4>2, <5>1, <5>2
            <4> QED BY <4>1, <4>2
        <3> QED BY <1>1, <2>2, <3>1, <3>2 DEF IInv, Turn
    <2> QED BY <2>1, <2>2
<1> QED BY <1>2, <1>3, <1>4, <1>6

LEMMA RunKeeps == ASSUME IInv, ChipRuns PROVE IInv'
<1>1. /\ cr # "none" /\ cr' = "none"
      /\ sr' \in (CASE cr = "OPEN" -> {"macraw", sr} [] cr = "CLOSE" -> {"closed"} [] OTHER -> {sr})
      /\ rxat' = (IF cr = "RECV" THEN rxrd ELSE rxat)
      /\ rxbuf' = Kept(rxbuf, rxat', rxwr) /\ sending' = (cr = "SEND" \/ sending)
      /\ UNCHANGED <<port, host, place, local, held>>
      /\ chip' = chip /\ ir' = ir /\ rxrd' = rxrd /\ rxwr' = rxwr /\ UNCHANGED tx /\ waiting' = waiting
    BY DEF ChipRuns, hist
<1>2. /\ apc' = apc /\ after' = after /\ eth' = eth /\ held' = held /\ cmd' = cmd
    BY <1>1 DEF place
<1>3. sr' \in {"closed", "macraw"} /\ sending' \in BOOLEAN /\ rxat' \in 0..Mod - 1
    BY <1>1 DEF IInv, TypeOK
<1>4. rxbuf' \in [0..Ring - 1 -> Bytes]
    <2>1. rxbuf \in [0..Ring - 1 -> Bytes]
        BY DEF IInv, TypeOK
    <2> QED BY <1>1, <2>1, Codes DEF Kept
<1>5. TypeOK'
    BY <1>1, <1>3, <1>4 DEF IInv, TypeOK, host, place, local, tx, Data
<1>6. Chip'
    <2>1. (OnItsWay' <=> OnItsWay) /\ (sending' => cr' # "SEND")
        BY <1>1 DEF OnItsWay
    <2>2. txwr' = txwr /\ txrd' = txrd
        BY <1>1 DEF tx
    <2>3. eth' /\ ~Opening' /\ ~Closing' => sr' = "macraw"
        BY <1>1, <1>2 DEF IInv, Chip, Live, Opening, Closing, CommandOf
    <2> QED BY <1>1, <1>2, <2>1, <2>2, <2>3 DEF IInv, Chip, Live, Opening, Sending
<1>7. Filling'
    BY <1>1 DEF IInv, Filling, host, place, local, tx
<1> QED BY <1>1, <1>5, <1>6, <1>7, ChipOnly, RunRinged DEF IInv

LEMMA TransmitKeeps == ASSUME IInv, Transmit PROVE IInv'
<1>1. /\ sending /\ sending' = FALSE /\ txrd' = txwr /\ txbuf' = Blank /\ txwr' = txwr
      /\ (ir' = ir \cup {"sendok"} \/ ir' = ir \cup {"timeout"})
      /\ held' = (IF hpc # "idle" /\ req.op = "send" THEN {<<>>} ELSE held)
      /\ UNCHANGED <<port, host, place, local, chip, cr, sr, rx, waiting>>
    BY DEF Transmit
<1>2. /\ apc' = apc /\ after' = after /\ out' = out /\ cmd' = cmd /\ eth' = eth /\ len' = len
      /\ n' = n /\ seen' = seen /\ val' = val /\ dlen' = dlen
      /\ hpc' = hpc /\ req' = req /\ todo' = todo /\ got' = got /\ ready' = ready
      /\ toArd' = toArd /\ toHost' = toHost /\ offer' = offer
    BY <1>1 DEF port, host, place, local
<1>3. Blank \in [0..Ring - 1 -> Bytes]
    BY Codes DEF Blank
<1>4. TypeOK'
    BY <1>1, <1>3 DEF IInv, TypeOK, host, place, local, rx, Data
\* When it is this call's frame that goes out, the sketch is waiting for it.
<1>5. Live => Sending /\ ir = {} /\ held = {}
    BY <1>1 DEF IInv, Chip, OnItsWay
<1>6. Live => hpc # "idle" /\ req.op = "send" /\ held' = {<<>>}
    <2> SUFFICES ASSUME Live PROVE hpc # "idle" /\ req.op = "send" /\ held' = {<<>>}
        OBVIOUS
    <2>1. ~Idling
        BY <1>5 DEF Sending, Idling
    <2> QED BY <1>1, <1>5, <2>1 DEF IInv, Places, Doing
<1>7. ~Live => held' = held
    <2> SUFFICES ASSUME ~Live, hpc # "idle" PROVE req.op # "send"
        BY <1>1
    <2> QED BY DEF Live, IInv, Places
<1>8. apc # "fill" /\ (apc \in {"size", "sized"} => ~Live)
    <2>1. CASE Live
        BY <1>5, <2>1 DEF Sending
    <2>2. CASE ~Live
        BY <2>2 DEF IInv, Places, Live
    <2> QED BY <2>1, <2>2
<1>9. Filling'
    BY <1>1, <1>2, <1>8 DEF IInv, Filling
<1>10. Chip'
    <2>1. (txwr' + Mod - txrd') % Mod <= Ring
        <3>1. txwr \in 0..Mod - 1
            BY DEF IInv, TypeOK
        <3>2. (txwr + Mod - txwr) % Mod = 0
            <4>1. txwr + Mod - txwr = Mod
                BY <3>1, Sizes
            <4>2. Mod % Mod = 0
                BY Sizes, OverMod
            <4> QED BY <4>1, <4>2
        <3> QED BY <1>1, <3>2, Sizes
    <2>2. ~OnItsWay'
        BY <1>1 DEF IInv, Chip, OnItsWay
    <2>3. Live => ir' \in {{"sendok"}, {"timeout"}}
        BY <1>1, <1>5
    <2> QED BY <1>1, <1>2, <1>5, <1>6, <2>1, <2>2, <2>3 DEF IInv, Chip, Live, Opening, Closing, Sending, CommandOf
<1>11. CASE held' = held
    <2>1. Ringed'
        BY <1>1, <1>2, <1>11, RingKept DEF IInv, Body, Live, Headed, Streaming, Dropping, Opening
    <2>2. Places' /\ Locals' /\ Turn' /\ Doing'
        BY <1>1, <1>11, ChipOnly
    <2> QED BY <1>4, <1>9, <1>10, <2>1, <2>2 DEF IInv
<1>12. CASE held' # held
    <2>1. Live /\ Sending /\ ~Body /\ ~Idling /\ ir = {} /\ held = {} /\ held' = {<<>>} /\ hpc # "idle" /\ req.op = "send"
        BY <1>5, <1>6, <1>7, <1>12 DEF Sending, Body, Headed, Streaming, Dropping, Idling
    <2>2. Ringed'
        BY <1>1, <1>2, <2>1, RingKept DEF IInv, Body, Live, Headed, Streaming, Dropping, Opening
    <2>3. Places'
        BY <1>2 DEF IInv, Places, Idling, Opening
    <2>4. Locals'
        BY <1>2 DEF IInv, Locals, Streaming, Sending, Body, Headed, Dropping
    <2>5. Doing'
        BY <1>2, <2>1 DEF IInv, Doing, Idling, Closing, Opening, Body, Headed, Streaming, Dropping, Sending, Wanted
    <2>6. Rest(Served)'
        <3> DEFINE k == Served
        <3>1. Rest(k) /\ k' = k
            BY <1>2, <2>1 DEF IInv, Turn, Served, Taken, Whole, Idling
        <3> HIDE DEF k
        <3>2. Rest(k)'
            BY <1>2, <3>1, RestKept
        <3> QED BY <3>2 DEF k
    <2>7. Nothing
        BY <2>1 DEF IInv, Turn
    <2>8. FrameOk(<<>>)' /\ Flow(<<>>)'
        <3>1. FrameOk(<<>>)'
            BY Sizes DEF FrameOk
        <3>2. Made(<<>>)' = 0 /\ AnswerSize(<<>>)' = 1
            BY <1>2, <2>1 DEF Made, AnswerSize, Sending
        <3> QED BY <1>2, <2>7, <3>1, <3>2 DEF Flow, Nothing
    <2>9. Turn'
        BY <1>2, <2>1, <2>6, <2>8 DEF IInv, Turn
    <2> QED BY <1>4, <1>9, <1>10, <2>2, <2>3, <2>4, <2>5, <2>9 DEF IInv
<1> QED BY <1>11, <1>12

WithFrame(b, to, f) == [i \in 0..Ring - 1 |->
                          LET k == (i + Mod - to) % Ring
                          IN  IF k < Len(f) + 2 THEN Stored(f)[k + 1] ELSE b[i]]

StoredHere(f, b, a, T, j) ==
    /\ j < T => WithFrame(b, (a + T) % Mod, f)[(a + j) % Ring] = b[(a + j) % Ring]
    /\ T <= j /\ j < T + Len(f) + 2 =>
          WithFrame(b, (a + T) % Mod, f)[(a + j) % Ring] = Stored(f)[j - T + 1]

\* A frame is stored behind the others, and they are left alone.
LEMMA StoredAt ==
    ASSUME NEW f \in Arrivals, NEW b, NEW a \in 0..Mod - 1, NEW T \in 0..Ring, T + Len(f) + 2 <= Ring,
           NEW j \in Nat, j < Ring
    PROVE  StoredHere(f, b, a, T, j)
<1> DEFINE i == (a + j) % Ring
           w == (a + T) % Mod
           k == (i + Mod - w) % Ring
           c == WithFrame(b, w, f)
<1>1. Len(f) \in Nat /\ T \in Nat /\ a \in Nat /\ j \in 0..Ring - 1
    BY FramesAssumption, Sizes
<1>2. i \in 0..Ring - 1
    <2>1. a + j \in Nat
        BY <1>1
    <2> QED BY <2>1, Sizes, DivMod
<1>3. k = IF j >= T THEN j - T ELSE j + Ring - T
    BY <1>1, RingIndex
<1>4. c[i] = IF k < Len(f) + 2 THEN Stored(f)[k + 1] ELSE b[i]
    <2> HIDE DEF i, w
    <2> QED BY <1>2 DEF WithFrame
<1> HIDE DEF i, w, k, c
<1>5. CASE j < T
    <2>1. k = j + Ring - T
        BY <1>1, <1>3, <1>5
    <2>2. ~(k < Len(f) + 2)
        BY <1>1, <2>1, Sizes
    <2>3. c[i] = b[i]
        BY <1>4, <2>2
    <2> QED BY <1>1, <1>5, <2>3 DEF i, c, w, StoredHere
<1>6. CASE T <= j
    <2>1. k = j - T
        BY <1>1, <1>3, <1>6
    <2>2. j < T + Len(f) + 2 => k < Len(f) + 2
        BY <1>1, <2>1
    <2>3. j < T + Len(f) + 2 => c[i] = Stored(f)[k + 1]
        BY <1>4, <2>2
    <2>4. ~(j < T)
        BY <1>1, <1>6
    <2> QED BY <2>1, <2>3, <2>4 DEF i, c, w, StoredHere
<1> QED BY <1>1, <1>5, <1>6 DEF StoredHere

LEMMA ArriveRinged == ASSUME IInv, NEW f \in Arrivals, Arrive(f) PROVE Ringed'
<1>1. /\ Rsr + Len(f) + 2 <= Ring
      /\ rxbuf' = [i \in 0..Ring - 1 |->
                      LET k == (i + Mod - rxwr) % Ring
                      IN  IF k < Len(f) + 2 THEN Stored(f)[k + 1] ELSE rxbuf[i]]
      /\ rxwr' = (rxwr + Len(f) + 2) % Mod /\ waiting' = Append(waiting, f)
      /\ rxrd' = rxrd /\ rxat' = rxat /\ cr' = cr /\ held' = held /\ UNCHANGED <<place, local>>
    BY DEF Arrive, regs
<1>2. (Body' <=> Body) /\ (Live' <=> Live) /\ dlen' = dlen /\ len' = len
    BY <1>1 DEF Body, Live, Headed, Streaming, Dropping, Opening, place, local
<1>3. ASSUME Live PROVE \E lag \in 0..Ring : \E p \in [1..Len(waiting') + 1 -> 0..Ring] : Lies(lag, p)'
    <2>1. PICK lag \in 0..Ring : \E p \in [1..Len(waiting) + 1 -> 0..Ring] : Lies(lag, p)
        BY <1>3 DEF IInv, Ringed
    <2>2. PICK p \in [1..Len(waiting) + 1 -> 0..Ring] : Lies(lag, p)
        BY <2>1
    <2>3. PICK last \in Nat \ {0} : last = Len(waiting) + 1
        BY <2>2, Pointers
    <2>4. /\ Len(waiting) \in Nat
          /\ rxat \in 0..Mod - 1 /\ rxrd \in 0..Mod - 1 /\ rxwr \in 0..Mod - 1
          /\ lag \in Nat /\ 1 \in 1..last /\ last \in 1..last
          /\ \A i \in 1..last :
                p[i] \in 0..Ring /\ p[i] \in Nat /\ lag <= p[1] /\ p[1] <= p[i] /\ p[i] <= p[last]
          /\ \A i \in 1..Len(waiting) :
                /\ Len(waiting[i]) \in Nat /\ i + 1 \in 1..last /\ p[i + 1] = p[i] + Len(waiting[i]) + 2
          /\ Body => dlen \in Nat /\ p[1] = lag + dlen
        BY <2>2, <2>3, Pointers
    <2>5. PICK T \in Nat : T = p[last] /\ T \in 0..Ring
        BY <2>4
    <2>6. PICK L \in Nat : L = Len(f) + 2 /\ Len(f) \in Nat
        BY FramesAssumption
    <2>7. rxwr = (rxat + T) % Mod
        BY <2>2, <2>3, <2>5 DEF Lies
    <2>8. T + L <= Ring /\ T + Len(f) + 2 <= Ring
        <3>1. rxat \in 0..Mod - 1 /\ T \in 0..Mod - 1
            BY <2>4, <2>5, Sizes
        <3>2. (((rxat + T) % Mod) + Mod - rxat) % Mod = T
            BY <3>1, Sizes, Distance
        <3>3. Rsr = T
            BY <2>7, <3>2 DEF Rsr
        <3> QED BY <1>1, <2>6, <3>3
    <2>9. PICK q \in [1..last + 1 -> 0..Ring] :
              q[last + 1] = T + L /\ \A i \in 1..last : q[i] = p[i]
        <3> DEFINE q == [i \in 1..last + 1 |-> IF i <= last THEN p[i] ELSE T + L]
        <3>1. ASSUME NEW i \in 1..last + 1 PROVE (IF i <= last THEN p[i] ELSE T + L) \in 0..Ring
            <4>1. T + L \in 0..Ring
                BY <2>5, <2>6, <2>8, Sizes
            <4>2. i <= last => p[i] \in 0..Ring
                BY <2>4
            <4> QED BY <4>1, <4>2
        <3>2. q \in [1..last + 1 -> 0..Ring]
            BY <3>1
        <3>3. q[last + 1] = T + L
            OBVIOUS
        <3>4. \A i \in 1..last : q[i] = p[i]
            OBVIOUS
        <3> QED BY <3>2, <3>3, <3>4
    <2>10. ASSUME NEW j \in Nat, j < Ring
           PROVE  /\ j < T => rxbuf'[(rxat' + j) % Ring] = rxbuf[(rxat + j) % Ring]
                  /\ T <= j /\ j < T + Len(f) + 2 => rxbuf'[(rxat' + j) % Ring] = Stored(f)[j - T + 1]
        <3>1. rxbuf' = WithFrame(rxbuf, (rxat + T) % Mod, f)
            BY <1>1, <2>7 DEF WithFrame
        <3>2. rxat \in 0..Mod - 1
            BY <2>4
        <3>3. /\ j < T => WithFrame(rxbuf, (rxat + T) % Mod, f)[(rxat + j) % Ring] = rxbuf[(rxat + j) % Ring]
              /\ T <= j /\ j < T + Len(f) + 2 =>
                    WithFrame(rxbuf, (rxat + T) % Mod, f)[(rxat + j) % Ring] = Stored(f)[j - T + 1]
            <4>1. T \in 0..Ring /\ T + Len(f) + 2 <= Ring /\ j \in Nat /\ j < Ring /\ f \in Arrivals
                BY <2>5, <2>8, <2>10
            <4>3. StoredHere(f, rxbuf, rxat, T, j)
                BY <3>2, <4>1, StoredAt
            <4> QED BY <4>3 DEF StoredHere
        <3> QED BY <1>1, <3>1, <3>3
    <2>11. /\ Len(waiting') = last /\ waiting'[last] = f
           /\ \A i \in 1..Len(waiting) : waiting'[i] = waiting[i] /\ i \in 1..last
        <3>1. waiting \in Seq(Arrivals)
            BY DEF IInv, Ringed
        <3> QED BY <1>1, <2>3, <3>1
    <2>12. rxwr' = (rxat' + q[last + 1]) % Mod /\ q[last + 1] <= Ring
        <3>1. (((rxat + T) % Mod) + L) % Mod = ((rxat + T) + L) % Mod
            <4>1. rxat + T \in Nat
                BY <2>4, Sizes
            <4> QED BY <4>1, ModMod
        <3>2. (rxat + T) + L = rxat + (T + L)
            BY <2>4
        <3>3. rxwr \in Nat /\ rxwr + Len(f) + 2 = rxwr + L
            BY <2>4, <2>6, Sizes
        <3> QED BY <1>1, <2>7, <2>8, <2>9, <3>1, <3>2, <3>3
    <2>13. rxrd' = (rxat' + lag) % Mod /\ q[1] = lag + (IF Body THEN dlen ELSE 0) /\ (lag # 0 => cr' = "RECV")
        <3>1. q[1] = p[1]
            BY <2>4, <2>9
        <3> QED BY <1>1, <2>2, <3>1 DEF Lies
    <2>14. ASSUME NEW i \in 1..last PROVE q[i + 1] = q[i] + Len(waiting'[i]) + 2
        <3>1. CASE i = last
            <4>1. q[i + 1] = T + L /\ waiting'[i] = f
                BY <2>9, <2>11, <3>1
            <4>2. q[i] = T
                BY <2>4, <2>5, <2>9, <3>1
            <4> QED BY <2>6, <4>1, <4>2
        <3>2. CASE i # last
            <4>1. i \in 1..Len(waiting) /\ i + 1 \in 1..last
                BY <2>3, <3>2
            <4>2. q[i + 1] = p[i + 1] /\ q[i] = p[i] /\ waiting'[i] = waiting[i]
                BY <2>9, <2>11, <4>1
            <4>3. p[i + 1] = p[i] + Len(waiting[i]) + 2
                BY <2>4, <4>1
            <4> QED BY <4>2, <4>3
        <3> QED BY <3>1, <3>2
    <2>15. ASSUME NEW i \in 1..last + 1, NEW j \in 1..last + 1, i <= j PROVE q[i] <= q[j]
        <3>1. \A x, y \in 1..last : x <= y => p[x] <= p[y]
            BY <2>2, <2>3 DEF Lies
        <3>2. CASE j \in 1..last
            <4>1. i \in 1..last
                BY <2>15, <3>2
            <4> QED BY <2>9, <2>15, <3>1, <3>2, <4>1
        <3>3. CASE j = last + 1 /\ i \in 1..last
            <4>1. q[i] = p[i] /\ p[i] \in Nat /\ p[i] <= T
                BY <2>4, <2>5, <2>9, <3>3
            <4>2. q[j] = T + L
                BY <2>9, <3>3
            <4> QED BY <4>1, <4>2
        <3>4. CASE j = last + 1 /\ i = last + 1
            BY <2>9, <3>4
        <3>5. (j \in 1..last \/ j = last + 1) /\ (i \in 1..last \/ i = last + 1)
            OBVIOUS
        <3> QED BY <3>2, <3>3, <3>4, <3>5
    <2>16. ASSUME NEW i \in 1..last, NEW k \in 1..Len(waiting'[i]) + 2
           PROVE  rxbuf'[(rxat' + (q[i] + k - 1)) % Ring] = Stored(waiting'[i])[k]
        <3>1. CASE i = last
            <4>1. waiting'[i] = f /\ q[i] = T /\ k \in Nat /\ 1 <= k /\ k <= Len(f) + 2
                BY <2>4, <2>5, <2>6, <2>9, <2>11, <3>1
            <4>2. PICK j \in Nat : j = T + k - 1
                BY <4>1
            <4>3. T <= j /\ j < T + Len(f) + 2 /\ j - T + 1 = k /\ j < Ring
                BY <2>6, <2>8, <4>1, <4>2, Sizes
            <4>4. rxbuf'[(rxat' + j) % Ring] = Stored(f)[j - T + 1]
                BY <2>10, <4>3
            <4> QED BY <4>1, <4>2, <4>3, <4>4
        <3>2. CASE i # last
            <4>1. i \in 1..Len(waiting) /\ i + 1 \in 1..last /\ i \in 1..last
                BY <2>3, <3>2
            <4>2. q[i] = p[i] /\ waiting'[i] = waiting[i] /\ p[i] \in Nat /\ Len(waiting[i]) \in Nat
                BY <2>4, <2>9, <2>11, <4>1
            <4>3. p[i] + Len(waiting[i]) + 2 <= T
                BY <2>4, <2>5, <4>1
            <4>4. k \in Nat /\ 1 <= k /\ k <= Len(waiting[i]) + 2
                BY <4>2
            <4>5. PICK j \in Nat : j = p[i] + k - 1
                BY <4>2, <4>4
            <4>9. p[i] + k - 1 < T
                <5>1. PICK m \in Nat, P \in Nat : m = Len(waiting[i]) /\ P = p[i]
                    BY <4>2
                <5>2. P + m + 2 <= T /\ k <= m + 2
                    BY <4>3, <4>4, <5>1
                <5>3. P + k - 1 < T
                    BY <4>4, <5>2
                <5> QED BY <5>1, <5>3
            <4>6. j < T /\ j < Ring
                BY <2>5, <4>5, <4>9, Sizes
            <4>7. rxbuf'[(rxat' + j) % Ring] = rxbuf[(rxat + j) % Ring]
                BY <2>10, <4>6
            <4>8. rxbuf[(rxat + (p[i] + k - 1)) % Ring] = Stored(waiting[i])[k]
                BY <2>2, <4>1, <4>2 DEF Lies, View
            <4> QED BY <4>2, <4>5, <4>7, <4>8
        <3> QED BY <3>1, <3>2
    <2>17. ASSUME Body, NEW g \in held
           PROVE  IF dlen <= len
                  THEN Len(g) = dlen /\ \A k \in 1..dlen : rxbuf'[(rxat' + (lag + k - 1)) % Ring] = g[k]
                  ELSE g = <<>>
        <3>1. IF dlen <= len
              THEN Len(g) = dlen /\ \A k \in 1..dlen : rxbuf[(rxat + (lag + k - 1)) % Ring] = g[k]
              ELSE g = <<>>
            BY <2>2, <2>17 DEF Lies, View
        <3>2. ASSUME NEW k \in 1..dlen
              PROVE  rxbuf'[(rxat' + (lag + k - 1)) % Ring] = rxbuf[(rxat + (lag + k - 1)) % Ring]
            <4>1. p[1] = lag + dlen /\ p[1] <= T /\ dlen \in Nat /\ k \in Nat /\ k >= 1 /\ k <= dlen /\ lag \in Nat
                BY <2>4, <2>5, <2>17
            <4>2. PICK j \in Nat : j = lag + k - 1
                BY <4>1
            <4>3. j < T /\ j < Ring
                BY <2>5, <4>1, <4>2, Sizes
            <4>4. rxbuf'[(rxat' + j) % Ring] = rxbuf[(rxat + j) % Ring]
                BY <2>10, <4>3
            <4> QED BY <4>2, <4>4
        <3> QED BY <3>1, <3>2
    <2>18. Lies(lag, q)'
        BY <1>1, <1>2, <2>11, <2>12, <2>13, <2>14, <2>15, <2>16, <2>17 DEF Lies, View
    <2> QED BY <2>9, <2>11, <2>18
<1>4. waiting \in Seq(Arrivals) /\ (Body' => dlen' + 2 <= Ring)
    BY <1>2 DEF IInv, Ringed
<1>5. waiting' \in Seq(Arrivals)
    BY <1>1, <1>4
<1> QED BY <1>1, <1>2, <1>3, <1>4, <1>5 DEF Ringed

LEMMA ArriveKeeps == ASSUME IInv, NEW f \in Arrivals, Arrive(f) PROVE IInv'
<1>1. /\ rxbuf' = WithFrame(rxbuf, rxwr, f)
      /\ rxwr' = (rxwr + Len(f) + 2) % Mod /\ waiting' = Append(waiting, f)
      /\ UNCHANGED <<port, host, place, local, held, regs, tx>> /\ rxrd' = rxrd /\ rxat' = rxat
    BY DEF Arrive, WithFrame
<1>2. f \in Seq(Bytes) /\ Len(f) \in Nat /\ Len(f) + 2 \in 0..Mod - 1
    <2>1. f \in Seq(Bytes) /\ Len(f) + 2 <= Ring
        BY FramesAssumption
    <2> QED BY <2>1, Sizes
<1>3. rxbuf' \in [0..Ring - 1 -> Bytes]
    <2>1. rxbuf \in [0..Ring - 1 -> Bytes]
        BY DEF IInv, TypeOK
    <2>2. ASSUME NEW k \in Nat, k < Len(f) + 2 PROVE Stored(f)[k + 1] \in Bytes
        <3> DEFINE h == Hi(Len(f) + 2)
                   l == Lo(Len(f) + 2)
        <3>1. h \in Bytes /\ l \in Bytes
            BY <1>2, TwoBytes
        <3>2. Stored(f) = <<h, l>> \o f
            BY DEF Stored
        <3> HIDE DEF h, l
        <3>3. <<h, l>> \in Seq(Bytes) /\ Len(<<h, l>>) = 2
            BY <3>1
        <3>4. Stored(f) \in Seq(Bytes) /\ Len(Stored(f)) = 2 + Len(f)
            BY <1>2, <3>2, <3>3, Concats
        <3>5. k + 1 \in 1..Len(Stored(f))
            BY <1>2, <2>2, <3>4
        <3> QED BY <3>4, <3>5
    <2>3. ASSUME NEW i \in 0..Ring - 1 PROVE (i + Mod - rxwr) % Ring \in Nat
        <3>1. rxwr \in 0..Mod - 1
            BY DEF IInv, TypeOK
        <3>2. i + Mod - rxwr \in Nat
            BY <3>1, Sizes
        <3> QED BY <3>2, Sizes, DivMod
    <2>4. \A i \in 0..Ring - 1 :
             (IF (i + Mod - rxwr) % Ring < Len(f) + 2 THEN Stored(f)[((i + Mod - rxwr) % Ring) + 1] ELSE rxbuf[i]) \in Bytes
        BY <2>1, <2>2, <2>3
    <2> QED BY <1>1, <2>4 DEF WithFrame
<1>4. rxwr' \in 0..Mod - 1
    <2>1. rxwr \in 0..Mod - 1
        BY DEF IInv, TypeOK
    <2>2. rxwr + Len(f) + 2 \in Nat
        BY <1>2, <2>1, Sizes
    <2> QED BY <1>1, <2>2, Sizes, DivMod
<1>5. TypeOK'
    BY <1>1, <1>3, <1>4 DEF IInv, TypeOK, host, place, local, regs, tx, Data
<1>6. Chip'
    BY <1>1 DEF IInv, Chip, Live, Opening, Closing, Sending, OnItsWay, CommandOf, place, regs, tx
<1>7. Filling'
    <2>1. waiting' # <<>>
        <3>1. waiting \in Seq(Arrivals)
            BY DEF IInv, Ringed
        <3> QED BY <1>1, <3>1
    <2> QED BY <1>1, <2>1 DEF IInv, Filling, host, place, local, tx
<1> QED BY <1>1, <1>5, <1>6, <1>7, ChipOnly, ArriveRinged DEF IInv

-----------------------------------------------------------------------------
(* The steps of the sketch. *)

\* While nothing is held, or the answer has not begun, there is nothing on the way.
LEMMA Silent ==
    ASSUME IInv, hpc # "idle", held = {} \/ Opening \/ Sending \/ Headed
    PROVE  Nothing
<1>1. CASE held = {}
    BY <1>1 DEF IInv, Turn
<1>2. CASE held # {}
    <2>1. PICK f : held = {f} /\ FrameOk(f) /\ Flow(f)
        BY <1>2 DEF IInv, Turn
    <2>2. Len(got) + Len(toHost) + Len(offer) + Len(out) = 0
        BY <1>2, <2>1 DEF Flow, Made
    <2>3. Len(got) = 0 /\ Len(toHost) = 0 /\ Len(offer) = 0 /\ Len(out) = 0
        BY <2>2, WholeType
    <2> QED BY <2>3, WholeType DEF Nothing
<1> QED BY <1>1, <1>2

LEMMA RestSame ==
    ASSUME IInv, hpc # "idle", UNCHANGED <<toArd, todo, req>>, Served' = Served
    PROVE  Rest(Served)'
<1> DEFINE k == Served
<1>1. Rest(k) /\ k' = k
    BY DEF IInv, Turn
<1> HIDE DEF k
<1>2. Rest(k)'
    BY <1>1, RestKept
<1> QED BY <1>2 DEF k

\* A step with no byte in it.
LEMMA TurnSame ==
    ASSUME IInv, UNCHANGED <<port, hpc, req, todo, got, out, held, eth>>,
           hpc # "idle" => Served' = Served /\ \A f : held = {f} => Made(f)' = Made(f)
    PROVE  Turn'
<1>1. UNCHANGED <<toArd, toHost, offer, hpc, req, todo, got, out, held, eth>>
    BY DEF port
<1>2. CASE hpc = "idle"
    BY <1>1, <1>2 DEF IInv, Turn
<1>3. CASE hpc # "idle"
    <2>1. Rest(Served)'
        BY <1>1, <1>3, RestSame
    <2>2. IF held' = {} THEN Nothing' ELSE \E f : held' = {f} /\ FrameOk(f)' /\ Flow(f)'
        <3>1. CASE held = {}
            BY <1>1, <1>3, <3>1 DEF IInv, Turn, Nothing
        <3>2. CASE held # {}
            <4>1. PICK f : held = {f} /\ FrameOk(f) /\ Flow(f)
                BY <1>3, <3>2 DEF IInv, Turn
            <4>2. Flow(f)' /\ FrameOk(f)'
                BY <1>1, <1>3, <4>1, FlowKept DEF FrameOk
            <4> QED BY <1>1, <3>2, <4>1, <4>2
        <3> QED BY <3>1, <3>2
    <2> QED BY <1>1, <1>3, <2>1, <2>2 DEF IInv, Turn
<1> QED BY <1>2, <1>3

\* A step that takes a byte of the request.
LEMMA TurnTaken ==
    ASSUME IInv, NEW b, toArd = <<b>>, toArd' = <<>>, held = {},
           UNCHANGED <<toHost, offer, hpc, req, todo, got, out, held>>,
           Served' = Served + 1
    PROVE  Turn'
<1>1. hpc # "idle"
    <2>1. toArd # <<>>
        OBVIOUS
    <2> QED BY <2>1 DEF IInv, Turn
<1>2. Rest(Served)'
    <2>1. PICK k \in Nat : k = Served /\ Rest(k) /\ todo \in Seq(Data)
        BY <1>1, WholeType DEF IInv, Turn
    <2>2. Rest(k + 1)'
        BY <2>1, RestTaken
    <2>3. Served' = k + 1
        BY <2>1
    <2> HIDE DEF Served
    <2> QED BY <2>2, <2>3 DEF Rest
<1>3. toArd' \in Seq(Bytes \cup {InitCmd, PollCmd, SendCmd}) /\ Len(toArd') <= 1
    OBVIOUS
<1>4. Nothing'
    BY <1>1 DEF IInv, Turn, Nothing
<1> QED BY <1>1, <1>2, <1>3, <1>4 DEF IInv, Turn

\* A step that decides the answer, or begins it.
LEMMA TurnAnswer ==
    ASSUME IInv, hpc # "idle", Nothing, UNCHANGED <<port, hpc, req, todo, got>>,
           NEW f, held' = {f}, FrameOk(f), Served' = Served,
           out' \in Seq(Bytes), Len(out') = Made(f)', \A i \in 1..Len(out') : out'[i] = AnswerByte(f, i)'
    PROVE  Turn'
<1>1. UNCHANGED <<toArd, toHost, offer, hpc, req, todo, got>>
    BY DEF port
<1>2. Rest(Served)'
    BY <1>1, RestSame
<1>3. Len(got') = 0 /\ Len(toHost') = 0 /\ Len(offer') = 0 /\ got' = <<>> /\ toHost' = <<>> /\ offer' = <<>>
    BY <1>1 DEF Nothing
<1>4. FrameOk(f)'
    BY <1>1 DEF FrameOk
<1>5. AnswerSize(f)' \in Nat /\ AnswerSize(f)' > 0
    BY <1>4 DEF FrameOk, AnswerSize
<1>6. Flow(f)'
    <2>1. Len(out') \in Nat
        OBVIOUS
    <2>2. \A i \in 1..Len(out') : 0 + 0 + 0 + i = i
        OBVIOUS
    <2>3. 0 + 0 + 0 + Len(out') = Made(f)'
        BY <2>1
    <2> QED BY <1>3, <1>5, <2>2, <2>3 DEF Flow
<1> QED BY <1>1, <1>2, <1>4, <1>6 DEF IInv, Turn

LEMMA OfferKeeps == ASSUME IInv, Offer PROVE IInv'
<1>1. /\ apc = "put" /\ offer = <<>> /\ offer' = <<Head(out)>> /\ out' = Tail(out)
      /\ toArd' = toArd /\ toHost' = toHost /\ apc' = apc /\ after' = after /\ cmd' = cmd /\ eth' = eth
      /\ hpc' = hpc /\ req' = req /\ todo' = todo /\ got' = got /\ ready' = ready
      /\ len' = len /\ n' = n /\ seen' = seen /\ val' = val /\ dlen' = dlen
      /\ held' = held /\ waiting' = waiting /\ UNCHANGED <<regs, rx, tx>>
    BY DEF Offer, Port!ArdOffer, host, local, hist
<1>2. hpc # "idle" /\ out # <<>> /\ ~Idling
    BY <1>1 DEF IInv, Places, Idling
<1>3. out \in Seq(Bytes) /\ Head(out) \in Bytes /\ out' \in Seq(Bytes) /\ Len(out') <= 2
    <2>1. out \in Seq(Bytes) /\ Len(out) <= 2
        BY WholeType DEF IInv, TypeOK
    <2> QED BY <1>1, <1>2, <2>1
<1>4. offer' \in Seq(Bytes) /\ Len(offer') <= 1 /\ offer' # <<>>
    BY <1>1, <1>3
<1>5. TypeOK'
    BY <1>1, <1>3 DEF IInv, TypeOK, regs, rx, tx, Data
<1>6. Places'
    BY <1>1, <1>2, <1>4 DEF IInv, Places, Idling, Opening
<1>7. Locals'
    BY <1>1 DEF IInv, Locals, Streaming, Sending, Body, Headed, Dropping
<1>8. Doing'
    BY <1>1 DEF IInv, Doing, Idling, Closing, Opening, Body, Headed, Streaming, Dropping, Sending, Wanted
<1>9. Chip'
    BY <1>1 DEF IInv, Chip, Live, Opening, Closing, Sending, OnItsWay, CommandOf, regs, tx
<1>10. Filling'
    BY <1>1 DEF IInv, Filling, tx
<1>11. Ringed'
    BY <1>1, RingKept DEF IInv, Live, Opening, Body, Headed, Streaming, Dropping, regs
<1>12. Turn'
    <2>1. held # {}
        BY <1>1, <1>2 DEF IInv, Doing
    <2>2. PICK f : held = {f} /\ FrameOk(f) /\ Flow(f)
        BY <1>2, <2>1 DEF IInv, Turn
    <2>3. Made(f)' = Made(f) /\ Served' = Served
        BY <1>1 DEF Made, AnswerSize, Opening, Sending, Headed, Streaming, Served, Taken, Whole, Idling
    <2>4. Flow(f)'
        BY <1>1, <1>2, <1>3, <2>2, <2>3, WholeType, FlowOffer
    <2>5. FrameOk(f)'
        BY <1>1, <2>2 DEF FrameOk
    <2>6. Rest(Served)'
        BY <1>1, <1>2, <2>3, RestSame
    <2> QED BY <1>1, <1>2, <1>3, <1>4, <2>2, <2>4, <2>5, <2>6 DEF IInv, Turn
<1> QED BY <1>5, <1>6, <1>7, <1>8, <1>9, <1>10, <1>11, <1>12 DEF IInv

LEMMA StrobeKeeps == ASSUME IInv, Put PROVE IInv'
<1>1. /\ apc = "put" /\ offer # <<>> /\ toHost = <<>> /\ toHost' = offer /\ offer' = <<>> /\ toArd' = toArd
      /\ apc' = (IF out = <<>> THEN after ELSE "put") /\ after' = (IF out = <<>> THEN "loop" ELSE after)
      /\ out' = out /\ cmd' = cmd /\ eth' = eth
      /\ hpc' = hpc /\ req' = req /\ todo' = todo /\ got' = got /\ ready' = ready
      /\ len' = len /\ n' = n /\ seen' = seen /\ val' = val /\ dlen' = dlen
      /\ held' = held /\ waiting' = waiting /\ UNCHANGED <<regs, rx, tx>>
    BY DEF Put, Port!ArdPut, host, local, hist
<1>2. hpc # "idle" /\ ~Idling /\ after \in {"loop", "ignore", "stream"} /\ held # {}
    BY <1>1 DEF IInv, Places, Idling, Doing
<1>3. (Body' <=> Body) /\ (Streaming' <=> Streaming) /\ (Dropping' <=> Dropping)
      /\ (Headed' <=> Headed) /\ (Sending' <=> Sending) /\ ~Opening' /\ ~Opening /\ ~Closing' /\ ~Closing
    BY <1>1, <1>2 DEF Body, Headed, Streaming, Dropping, Opening, Closing, Sending
<1>4. ~Sending /\ ~Headed
    BY <1>1 DEF Sending, Headed
<1>5. TypeOK'
    BY <1>1, <1>2 DEF IInv, TypeOK, regs, rx, tx, Data
<1>6. Places'
    BY <1>1, <1>2, <1>3 DEF IInv, Places
<1>7. Locals'
    BY <1>1, <1>2, <1>3, <1>4 DEF IInv, Locals, Streaming, Dropping, Body
<1>8. Doing'
    BY <1>1, <1>2, <1>3, <1>4 DEF IInv, Doing, Wanted
<1>9. Chip'
    BY <1>1, <1>2, <1>3 DEF IInv, Chip, Live, OnItsWay, CommandOf, regs, tx
<1>10. Filling'
    BY <1>1, <1>2 DEF IInv, Filling
<1>11. Ringed'
    BY <1>1, <1>3, RingKept DEF IInv, Live, regs
<1>12. Turn'
    <2>1. PICK f : held = {f} /\ FrameOk(f) /\ Flow(f)
        BY <1>2 DEF IInv, Turn
    <2>2. Made(f)' = Made(f)
        BY <1>1, <1>3 DEF Made, AnswerSize
    <2>3. Served' = Served
        BY <1>1, <1>2 DEF Served, Taken, Whole, Idling
    <2>4. Flow(f)'
        BY <1>1, <2>1, <2>2, WholeType, FlowPut
    <2>5. FrameOk(f)'
        BY <1>1, <2>1 DEF FrameOk
    <2>6. Rest(Served)'
        BY <1>1, <1>2, <2>3, RestSame
    <2>7. Len(toHost') <= 1 /\ toHost' \in Seq(Bytes) /\ Len(offer') <= 1 /\ offer' \in Seq(Bytes)
        BY <1>1, WholeType
    <2> QED BY <1>1, <1>2, <2>1, <2>4, <2>5, <2>6, <2>7 DEF IInv, Turn
<1> QED BY <1>5, <1>6, <1>7, <1>8, <1>9, <1>10, <1>11, <1>12 DEF IInv

LEMMA DoneKeeps == ASSUME IInv, CommandDone PROVE IInv'
<1>1. /\ apc = "cr" /\ cr = "none" /\ apc' = after /\ after' = "loop"
      /\ UNCHANGED port /\ out' = out /\ cmd' = cmd /\ eth' = eth
      /\ hpc' = hpc /\ req' = req /\ todo' = todo /\ got' = got /\ ready' = ready
      /\ len' = len /\ n' = n /\ seen' = seen /\ val' = val /\ dlen' = dlen
      /\ held' = held /\ waiting' = waiting /\ UNCHANGED <<regs, rx, tx>>
    BY DEF CommandDone, host, local, hist
<1>2. after \in {"end", "opened", "length", "loop", "sent"} /\ out = <<>> /\ offer = <<>> /\ offer' = offer
    BY <1>1 DEF IInv, Places, port
<1>3. /\ (Body' <=> Body) /\ (Streaming' <=> Streaming) /\ (Dropping' <=> Dropping)
      /\ (Headed' <=> Headed) /\ (Sending' <=> Sending) /\ (Opening' <=> Opening) /\ (Closing' <=> Closing)
      /\ (Idling' <=> Idling) /\ ~Streaming /\ ~Dropping
    BY <1>1, <1>2 DEF Body, Headed, Streaming, Dropping, Opening, Closing, Sending, Idling
<1>5. TypeOK'
    BY <1>1, <1>2 DEF IInv, TypeOK, regs, rx, tx, Data
<1>6. Places'
    BY <1>1, <1>2, <1>3 DEF IInv, Places
<1>7. Locals'
    BY <1>1, <1>2, <1>3 DEF IInv, Locals
<1>8. Doing'
    BY <1>1, <1>2, <1>3 DEF IInv, Doing, Wanted
<1>9. Chip'
    BY <1>1, <1>2, <1>3 DEF IInv, Chip, Live, OnItsWay, CommandOf, regs, tx
<1>10. Filling'
    BY <1>1, <1>2 DEF IInv, Filling
<1>11. Ringed'
    BY <1>1, <1>3, RingKept DEF IInv, Live, regs
<1>12. Turn'
    <2>1. Served' = Served
        BY <1>1, <1>2, <1>3 DEF Served, Taken, Whole
    <2>2. \A f : Made(f)' = Made(f)
        BY <1>1, <1>3 DEF Made, AnswerSize
    <2> QED BY <1>1, <2>1, <2>2, TurnSame
<1> QED BY <1>5, <1>6, <1>7, <1>8, <1>9, <1>10, <1>11, <1>12 DEF IInv

\* The sketch takes the bytes of a request one by one, and takes them for what they are.
LEMMA Reading ==
    ASSUME IInv, NEW b, toArd = <<b>>,
           apc \in {"loop", "mac", "lenlo", "lenhi", "fill"}
    PROVE  /\ hpc # "idle" /\ held = {} /\ Nothing /\ b = Asked(req)[Served + 1] /\ Served < Whole
           /\ Served = (IF apc = "loop" THEN 0 ELSE Taken)
<1>1. toArd # <<>> /\ Len(toArd) = 1 /\ toArd[1] = b
    OBVIOUS
<1>2. hpc # "idle" /\ Rest(Served)
    BY <1>1 DEF IInv, Turn
<1>3. Served + 1 + Len(todo) = Whole /\ Len(todo) \in Nat
    BY <1>1, <1>2, WholeType DEF Rest
<1>4. b = Asked(req)[Served + 1]
    BY <1>1, <1>2 DEF Rest
<1>5. held = {}
    <2>1. CASE apc = "loop"
        <3>1. held # {} => Served = Whole
            BY <2>1 DEF Served, Taken
        <3> QED BY <1>3, <3>1, WholeType
    <2>2. CASE apc # "loop"
        BY <2>2 DEF IInv, Doing, Idling
    <2> QED BY <2>1, <2>2
<1>6. Served = (IF apc = "loop" THEN 0 ELSE Taken)
    BY <1>5 DEF Served, Idling
<1>7. Nothing
    BY <1>2, <1>5, Silent
<1> QED BY <1>2, <1>3, <1>4, <1>5, <1>6, <1>7, WholeType

LEMMA LoopKeeps == ASSUME IInv, NEW b \in Data, LoopByte(b) PROVE IInv'
<1>1. /\ apc = "loop" /\ toArd = <<b>> /\ toArd' = <<>> /\ toHost' = toHost /\ offer' = offer /\ cmd' = b
      /\ eth' = eth /\ hpc' = hpc /\ req' = req /\ todo' = todo /\ got' = got /\ ready' = ready
      /\ len' = len /\ n' = n /\ seen' = seen /\ val' = val /\ dlen' = dlen
      /\ held' = held /\ waiting' = waiting /\ UNCHANGED <<regs, rx, tx>>
    BY DEF LoopByte, Port!ArdTake, host, local, hist
<1>2. hpc # "idle" /\ held = {} /\ Nothing /\ b = Asked(req)[1] /\ Served = 0 /\ req \in Requests
    BY <1>1, Reading, WholeType
<1>3. b = CmdOf(req.op) /\ req.op \in {"init", "poll", "send"}
    BY <1>2, AskedInit, AskedWord, RequestType DEF CmdOf
<1>4. req.op # "init" => eth
    BY <1>2 DEF IInv, Places
<1>5. apc' = (IF req.op = "init" THEN "mac" ELSE "lenlo") /\ after' = after /\ out' = out
    <2>1. CASE req.op = "init"
        BY <1>3, <2>1, Codes DEF LoopByte, CmdOf
    <2>2. CASE req.op = "poll"
        BY <1>3, <1>4, <2>2, Codes DEF LoopByte, CmdOf, PollEthernet
    <2>3. CASE req.op = "send"
        BY <1>3, <1>4, <2>3, Codes DEF LoopByte, CmdOf, SendEthernet
    <2> QED BY <1>3, <2>1, <2>2, <2>3
<1>6. /\ ~Body /\ ~Body' /\ ~Streaming' /\ ~Dropping' /\ ~Headed' /\ ~Sending /\ ~Sending' /\ ~Opening /\ ~Opening'
      /\ ~Closing' /\ ~Closing /\ ~Idling'
    BY <1>1, <1>5 DEF Body, Headed, Streaming, Dropping, Opening, Closing, Sending, Idling
<1>7. n = 0 /\ seen = <<>> /\ val = 0 /\ dlen = 0 /\ len = 0
    BY <1>1, <1>6 DEF IInv, Locals, Body
<1>8. TypeOK'
    BY <1>1, <1>5 DEF IInv, TypeOK, regs, rx, tx
<1>9. Places'
    BY <1>1, <1>2, <1>4, <1>5, <1>6 DEF IInv, Places
<1>10. Locals'
    <2>1. 0 < MacBytes
        BY SizesAssumption
    <2> QED BY <1>1, <1>5, <1>6, <1>7, <2>1 DEF Locals
<1>11. Doing'
    BY <1>1, <1>2, <1>3, <1>5, <1>6 DEF Doing, CmdOf
<1>12. Chip'
    BY <1>1, <1>5, <1>6 DEF IInv, Chip, Live, OnItsWay, CommandOf, regs, tx
<1>13. Filling'
    BY <1>1, <1>5 DEF IInv, Filling
<1>14. Ringed'
    BY <1>1, <1>6, RingKept DEF IInv, Live, regs
<1>15. Turn'
    <2>1. Served' = Served + 1
        BY <1>1, <1>2, <1>5, <1>6, <1>7 DEF Served, Taken
    <2> QED BY <1>1, <1>2, <1>5, <2>1, TurnTaken
<1> QED BY <1>8, <1>9, <1>10, <1>11, <1>12, <1>13, <1>14, <1>15 DEF IInv

LEMMA LenLoKeeps == ASSUME IInv, NEW b \in Data, LenLo(b) PROVE IInv'
<1>1. /\ apc = "lenlo" /\ toArd = <<b>> /\ toArd' = <<>> /\ toHost' = toHost /\ offer' = offer
      /\ apc' = "lenhi" /\ len' = b /\ after' = after /\ out' = out /\ cmd' = cmd /\ eth' = eth
      /\ hpc' = hpc /\ req' = req /\ todo' = todo /\ got' = got /\ ready' = ready
      /\ n' = n /\ seen' = seen /\ val' = val /\ dlen' = dlen
      /\ held' = held /\ waiting' = waiting /\ UNCHANGED <<regs, rx, tx>>
    BY DEF LenLo, Port!ArdTake, host, hist
<1>2. hpc # "idle" /\ held = {} /\ Nothing /\ b = Asked(req)[Served + 1] /\ Served = 1 /\ req \in Requests
    BY <1>1, Reading, WholeType DEF Taken
<1>3. /\ ~Body /\ ~Body' /\ ~Streaming' /\ ~Dropping' /\ ~Headed' /\ ~Sending /\ ~Sending' /\ ~Opening /\ ~Opening'
      /\ ~Closing' /\ ~Closing /\ ~Idling' /\ ~Idling
    BY <1>1 DEF Body, Headed, Streaming, Dropping, Opening, Closing, Sending, Idling
<1>4. req.op # "init" /\ cmd = CmdOf(req.op)
    BY <1>1, <1>3 DEF IInv, Doing
<1>5. b = Lo(Wanted) /\ b \in 0..Mod - 1
    <2>1. Asked(req)[2] = Lo(WantedBy(req)) /\ WantedBy(req) \in 0..Mod - 1 /\ WantedBy(req) = Wanted
        BY <1>2, <1>4, AskedWord DEF WantedBy, Wanted
    <2>2. Lo(Wanted) \in Bytes
        BY <2>1, TwoBytes
    <2>3. b = Asked(req)[2]
        <3>1. Served + 1 = 2
            BY <1>2
        <3> QED BY <1>2, <3>1, Zenon
    <2>4. b \in Bytes /\ b = Lo(Wanted)
        BY <2>1, <2>2, <2>3, Zenon
    <2>5. \A x \in Bytes : x \in 0..Mod - 1
        BY Sizes DEF Bytes
    <2> QED BY <2>4, <2>5
<1>6. n = 0 /\ seen = <<>> /\ val = 0 /\ dlen = 0 /\ len = 0
    BY <1>1, <1>3 DEF IInv, Locals, Body
<1>7. TypeOK'
    BY <1>1, <1>5 DEF IInv, TypeOK, regs, rx, tx
<1>8. Places'
    BY <1>1, <1>2, <1>3 DEF IInv, Places
<1>9. Locals'
    BY <1>1, <1>3, <1>6 DEF Locals
<1>10. Doing'
    BY <1>1, <1>2, <1>3, <1>4, <1>5 DEF Doing, Wanted
<1>11. Chip'
    BY <1>1, <1>3 DEF IInv, Chip, Live, OnItsWay, CommandOf, regs, tx
<1>12. Filling'
    BY <1>1 DEF IInv, Filling
<1>13. Ringed'
    BY <1>1, <1>3, RingKept DEF IInv, Live, regs
<1>14. Turn'
    <2>1. Served' = Served + 1
        BY <1>1, <1>2, <1>3 DEF Served, Taken
    <2> QED BY <1>1, <1>2, <2>1, TurnTaken
<1> QED BY <1>7, <1>8, <1>9, <1>10, <1>11, <1>12, <1>13, <1>14 DEF IInv

LEMMA LenHiKeeps == ASSUME IInv, NEW b \in Data, LenHi(b) PROVE IInv'
<1>1. /\ apc = "lenhi" /\ toArd = <<b>> /\ toArd' = <<>> /\ toHost' = toHost /\ offer' = offer
      /\ apc' = "size" /\ len' = len + Base * b /\ after' = after /\ out' = out /\ cmd' = cmd /\ eth' = eth
      /\ hpc' = hpc /\ req' = req /\ todo' = todo /\ got' = got /\ ready' = ready
      /\ n' = n /\ seen' = seen /\ val' = val /\ dlen' = dlen
      /\ held' = held /\ waiting' = waiting /\ UNCHANGED <<regs, rx, tx>>
    BY DEF LenHi, Port!ArdTake, host, hist
<1>2. hpc # "idle" /\ held = {} /\ Nothing /\ b = Asked(req)[Served + 1] /\ Served = 2 /\ req \in Requests
    BY <1>1, Reading, WholeType DEF Taken
<1>3. /\ ~Body /\ ~Body' /\ ~Streaming' /\ ~Dropping' /\ ~Headed' /\ ~Sending /\ ~Sending' /\ ~Opening /\ ~Opening'
      /\ ~Closing' /\ ~Closing /\ ~Idling' /\ ~Idling
    BY <1>1 DEF Body, Headed, Streaming, Dropping, Opening, Closing, Sending, Idling
<1>4. req.op # "init" /\ cmd = CmdOf(req.op) /\ len = Lo(Wanted)
    BY <1>1, <1>3 DEF IInv, Doing
<1>5. len' = Wanted /\ Wanted \in 0..Mod - 1
    <2>1. Asked(req)[3] = Hi(WantedBy(req)) /\ WantedBy(req) \in 0..Mod - 1 /\ WantedBy(req) = Wanted
        BY <1>2, <1>4, AskedWord DEF WantedBy, Wanted
    <2>2. Lo(Wanted) + Base * Hi(Wanted) = Wanted
        BY <2>1, TwoBytes
    <2>3. b = Asked(req)[3]
        <3>1. Served + 1 = 3
            BY <1>2
        <3> QED BY <1>2, <3>1, Zenon
    <2>4. b = Hi(Wanted)
        BY <2>1, <2>3, Zenon
    <2>5. len' = Lo(Wanted) + Base * Hi(Wanted)
        BY <1>1, <1>4, <2>4, Zenon
    <2> QED BY <2>1, <2>2, <2>5, Zenon
<1>6. n = 0 /\ seen = <<>> /\ val = 0 /\ dlen = 0
    BY <1>1, <1>3 DEF IInv, Locals, Body
<1>7. TypeOK'
    BY <1>1, <1>5 DEF IInv, TypeOK, regs, rx, tx
<1>8. Places'
    BY <1>1, <1>2, <1>3 DEF IInv, Places
<1>9. Locals'
    BY <1>1, <1>3, <1>6 DEF Locals
<1>10. Doing'
    BY <1>1, <1>2, <1>3, <1>4, <1>5 DEF Doing, Wanted
<1>11. Chip'
    BY <1>1, <1>3 DEF IInv, Chip, Live, OnItsWay, CommandOf, regs, tx
<1>12. Filling'
    <2>1. seen' = <<>> /\ val' = 0 /\ apc' = "size" /\ Len(seen') = 0 /\ seen' \in Seq(Bytes)
        BY <1>1, <1>6
    <2> QED BY <2>1 DEF Filling
<1>13. Ringed'
    BY <1>1, <1>3, RingKept DEF IInv, Live, regs
<1>14. Turn'
    <2>1. Served' = Served + 1
        BY <1>1, <1>2, <1>3 DEF Served, Taken
    <2> QED BY <1>1, <1>2, <2>1, TurnTaken
<1> QED BY <1>7, <1>8, <1>9, <1>10, <1>11, <1>12, <1>13, <1>14 DEF IInv

LEMMA MacKeeps == ASSUME IInv, NEW b \in Data, MacByte(b) PROVE IInv'
<1>1. /\ apc = "mac" /\ toArd = <<b>> /\ toArd' = <<>> /\ toHost' = toHost /\ offer' = offer
      /\ len' = len /\ out' = out /\ cmd' = cmd /\ eth' = eth
      /\ hpc' = hpc /\ req' = req /\ todo' = todo /\ got' = got /\ ready' = ready
      /\ seen' = seen /\ val' = val /\ dlen' = dlen
      /\ held' = held /\ waiting' = waiting /\ UNCHANGED <<rx, tx>>
    BY DEF MacByte, Port!ArdTake, host, hist
<1>2. \/ n + 1 < MacBytes /\ n' = n + 1 /\ apc' = "mac" /\ after' = after /\ UNCHANGED regs
      \/ ~(n + 1 < MacBytes) /\ n' = 0 /\ eth /\ cr' = "CLOSE" /\ apc' = "cr" /\ after' = "end"
         /\ UNCHANGED <<chip, sr, ir, sending>>
      \/ ~(n + 1 < MacBytes) /\ n' = 0 /\ ~eth /\ apc' = "begin" /\ after' = after /\ UNCHANGED regs
    BY <1>1 DEF MacByte, Command
<1>3. hpc # "idle" /\ held = {} /\ Nothing /\ Served = 1 + n /\ req \in Requests
    BY <1>1, Reading, WholeType DEF Taken
<1>4. /\ ~Body /\ ~Body' /\ ~Streaming' /\ ~Dropping' /\ ~Headed' /\ ~Sending /\ ~Sending' /\ ~Opening /\ ~Opening'
      /\ ~Closing /\ ~Idling' /\ ~Idling /\ (Closing' <=> apc' # "mac")
    BY <1>1, <1>2 DEF Body, Headed, Streaming, Dropping, Opening, Closing, Sending, Idling
<1>5. req.op = "init" /\ after = "loop" /\ out = <<>> /\ offer = <<>>
    BY <1>1, <1>4 DEF IInv, Doing, Places
<1>6. n \in Nat /\ n < MacBytes /\ MacBytes \in Nat /\ MacBytes <= Mod
    <2>1. n \in 0..Mod - 1 /\ n < MacBytes
        BY <1>1 DEF IInv, TypeOK, Locals
    <2> QED BY <2>1, Sizes, SizesAssumption
<1>7. seen = <<>> /\ val = 0 /\ dlen = 0 /\ len = 0
    BY <1>1, <1>4 DEF IInv, Locals
<1>8. TypeOK'
    <2>1. n' \in 0..Mod - 1
        BY <1>2, <1>6, Sizes
    <2>2. /\ hpc' \in {"idle", "put", "take"} /\ req' \in Requests
          /\ apc' \in {"mac", "cr", "begin"}
          /\ got' \in Seq(Bytes) /\ todo' \in Seq(Bytes \cup {InitCmd, PollCmd, SendCmd})
          /\ Len(seen') <= 3 /\ Len(out') <= 2 /\ {eth', ready'} \subseteq BOOLEAN
        BY <1>1, <1>2 DEF IInv, TypeOK
    <2>3. /\ {chip', sending'} \subseteq BOOLEAN
          /\ cr' \in {"none", "OPEN", "CLOSE", "SEND", "RECV"} /\ sr' \in {"closed", "macraw"}
          /\ ir' \subseteq {"sendok", "timeout"}
        BY <1>2 DEF IInv, TypeOK, regs
    <2>4. /\ {len', val', dlen', rxrd', rxat', rxwr', txwr', txrd'} \subseteq 0..Mod - 1
          /\ rxbuf' \in [0..Ring - 1 -> Bytes] /\ txbuf' \in [0..Ring - 1 -> Bytes]
        BY <1>1 DEF IInv, TypeOK, rx, tx
    <2> QED BY <2>1, <2>2, <2>3, <2>4 DEF TypeOK
<1>9. Places'
    BY <1>1, <1>2, <1>3, <1>4, <1>5 DEF IInv, Places
<1>10. Locals'
    BY <1>1, <1>2, <1>4, <1>7 DEF Locals
<1>11. Doing'
    BY <1>1, <1>2, <1>3, <1>4, <1>5 DEF Doing
<1>12. Chip'
    <2>1. Live' <=> eth
        BY <1>1, <1>4 DEF Live
    <2>2. eth => ~OnItsWay /\ ir = {} /\ txrd = txwr /\ sr = "macraw" /\ (cr # "none" => FALSE)
        BY <1>1, <1>4 DEF IInv, Chip, Live
    <2>3. OnItsWay' => OnItsWay
        BY <1>2 DEF OnItsWay, regs
    <2>4. txwr' = txwr /\ txrd' = txrd /\ sr' = sr /\ ir' = ir /\ sending' = sending
        BY <1>1, <1>2 DEF regs, tx
    <2>5. eth => cr' = (IF apc' = "cr" THEN "CLOSE" ELSE "none") /\ (apc' = "cr" => after' = "end")
        BY <1>2, <2>2 DEF regs
    <2>6. sending' => cr' # "SEND"
        BY <1>2 DEF IInv, Chip, regs
    <2>7. (txwr + Mod - txrd) % Mod <= Ring
        BY DEF IInv, Chip
    <2> QED BY <1>1, <1>4, <2>1, <2>2, <2>3, <2>4, <2>5, <2>6, <2>7 DEF Chip, CommandOf
<1>13. Filling'
    BY <1>1, <1>2 DEF IInv, Filling
<1>14. Ringed'
    <2>1. cr' = cr \/ cr # "RECV"
        BY <1>1, <1>2, <1>4 DEF IInv, Chip, Live, regs
    <2> QED BY <1>1, <1>4, <2>1, RingKept DEF IInv, Live
<1>15. Turn'
    <2>1. Whole' = Whole /\ Whole = 1 + MacBytes
        BY <1>1, <1>3, <1>5, AskedInit DEF Whole
    <2>2. Served' = Served + 1
        <3>1. CASE apc' = "mac"
            BY <1>2, <1>3, <1>4, <1>6, <3>1 DEF Served, Taken
        <3>2. CASE apc' # "mac"
            <4>1. n + 1 = MacBytes
                BY <1>2, <1>6, <3>2
            <4>2. Served' = Whole'
                BY <1>2, <1>4, <3>2 DEF Served, Taken
            <4> QED BY <1>3, <1>6, <2>1, <4>1, <4>2
        <3> QED BY <3>1, <3>2
    <2> QED BY <1>1, <1>3, <2>2, TurnTaken
<1> QED BY <1>8, <1>9, <1>10, <1>11, <1>12, <1>13, <1>14, <1>15 DEF IInv

LEMMA FillKeeps == ASSUME IInv, NEW b \in Data, Fill(b) PROVE IInv'
<1>1. /\ apc = "fill" /\ n < len /\ toArd = <<b>> /\ toArd' = <<>> /\ toHost' = toHost /\ offer' = offer
      /\ txbuf' = [txbuf EXCEPT ![(txwr + n) % Ring] = b] /\ n' = n + 1
      /\ UNCHANGED <<apc, after, out, cmd, eth>> /\ UNCHANGED <<hpc, req, todo, got, ready>>
      /\ len' = len /\ seen' = seen /\ val' = val /\ dlen' = dlen /\ txwr' = txwr /\ txrd' = txrd
      /\ held' = held /\ waiting' = waiting /\ UNCHANGED <<regs, rx>>
    BY DEF Fill, Port!ArdTake, host, place, hist
<1>2. hpc # "idle" /\ held = {} /\ Nothing /\ b = Asked(req)[Served + 1] /\ Served = 3 + n /\ req \in Requests
    BY <1>1, Reading, WholeType DEF Taken
<1>3. /\ ~Body /\ ~Body' /\ ~Streaming /\ ~Streaming' /\ ~Dropping' /\ ~Headed' /\ ~Sending /\ ~Sending' /\ ~Opening /\ ~Opening'
      /\ ~Closing /\ ~Closing' /\ ~Idling' /\ ~Idling
    BY <1>1 DEF Body, Headed, Streaming, Dropping, Opening, Closing, Sending, Idling
<1>4. req.op = "send" /\ len = Wanted
    BY <1>1, <1>3 DEF IInv, Doing
<1>5. len = Len(req.frame) /\ n \in Nat /\ len \in Nat /\ len <= Ring /\ n + 1 <= len /\ len \in 0..Mod - 1
    <2>1. n \in 0..Mod - 1 /\ len \in 0..Mod - 1
        BY DEF IInv, TypeOK
    <2>2. n \in Nat /\ len \in Nat
        BY <2>1, Sizes
    <2> QED BY <1>1, <1>4, <2>1, <2>2 DEF IInv, Filling, Wanted
<1>6. b = req.frame[n + 1] /\ b \in Bytes
    <2>1. \A i \in 1..Len(req.frame) : Asked(req)[3 + i] = req.frame[i]
        BY <1>2, <1>4, AskedWord
    <2>2. n + 1 \in 1..Len(req.frame) /\ Served + 1 = 3 + (n + 1)
        BY <1>2, <1>5
    <2>3. Asked(req)[3 + (n + 1)] = req.frame[n + 1]
        BY <2>1, <2>2
    <2>4. b = req.frame[n + 1]
        BY <1>2, <2>2, <2>3, Zenon
    <2>5. req.frame \in Seq(Bytes)
        BY <1>2, RequestType
    <2>6. req.frame[n + 1] \in Bytes
        BY <2>2, <2>5
    <2> QED BY <2>4, <2>6
<1>7. txbuf \in [0..Ring - 1 -> Bytes] /\ txwr \in Nat
    BY Sizes DEF IInv, TypeOK
<1>8. TypeOK'
    <2>1. txbuf' \in [0..Ring - 1 -> Bytes]
        BY <1>1, <1>6, <1>7
    <2>2. n' \in 0..Mod - 1
        BY <1>1, <1>5, Sizes
    <2> QED BY <1>1, <2>1, <2>2 DEF IInv, TypeOK, regs, rx
<1>9. Places'
    BY <1>1, <1>2, <1>3 DEF IInv, Places
<1>10. Locals'
    BY <1>1, <1>3 DEF IInv, Locals
<1>11. Doing'
    BY <1>1, <1>2, <1>3, <1>4 DEF IInv, Doing, Wanted
<1>12. Chip'
    BY <1>1, <1>3 DEF IInv, Chip, Live, OnItsWay, CommandOf, regs
<1>13. Filling'
    <2>1. ASSUME NEW i \in 1..n + 1 PROVE txbuf'[(txwr + i - 1) % Ring] = req.frame[i]
        <3>1. i - 1 \in 0..Ring - 1 /\ n \in 0..Ring - 1 /\ txwr + i - 1 = txwr + (i - 1) /\ i - 1 \in Nat
            BY <1>5, <1>7, Sizes
        <3>2. (txwr + (i - 1)) % Ring \in 0..Ring - 1
            <4>1. txwr + (i - 1) \in Nat
                BY <1>7, <3>1
            <4> QED BY <4>1, Sizes, DivMod
        <3>3. CASE i = n + 1
            <4>1. txwr + i - 1 = txwr + n
                BY <1>5, <1>7, <3>3
            <4>2. (txwr + n) % Ring \in 0..Ring - 1
                <5>1. i - 1 = n
                    BY <1>5, <3>3
                <5> QED BY <3>2, <5>1
            <4> QED BY <1>1, <1>6, <1>7, <3>3, <4>1, <4>2
        <3>4. CASE i # n + 1
            <4>1. i \in 1..n
                BY <1>5, <3>4
            <4>2. txbuf[(txwr + i - 1) % Ring] = req.frame[i]
                BY <1>1, <4>1 DEF IInv, Filling
            <4>3. (txwr + (i - 1)) % Ring # (txwr + n) % Ring
                <5>1. i - 1 # n
                    BY <1>5, <3>4
                <5> QED BY <1>7, <3>1, <5>1, RingApart
            <4>4. txbuf'[(txwr + (i - 1)) % Ring] = txbuf[(txwr + (i - 1)) % Ring]
                BY <1>1, <1>7, <3>2, <4>3
            <4> QED BY <3>1, <4>2, <4>4
        <3> QED BY <3>3, <3>4
    <2>2. apc' = "fill" /\ n' <= len' /\ len' <= Ring /\ seen' \in Seq(Bytes)
        BY <1>1, <1>5 DEF IInv, Filling
    <2>3. \A i \in 1..n' : txbuf'[(txwr' + i - 1) % Ring] = req'.frame[i]
        BY <1>1, <2>1
    <2> QED BY <2>2, <2>3 DEF Filling
<1>14. Ringed'
    BY <1>1, <1>3, RingKept DEF IInv, Live, regs
<1>15. Turn'
    <2>1. Served' = Served + 1
        BY <1>1, <1>2, <1>3, <1>5 DEF Served, Taken
    <2> QED BY <1>1, <1>2, <2>1, TurnTaken
<1> QED BY <1>8, <1>9, <1>10, <1>11, <1>12, <1>13, <1>14, <1>15 DEF IInv

LEMMA Empty == ASSUME IInv PROVE FrameOk(<<>>)
<1>1. <<>> \in Seq(Bytes) /\ Len(<<>>) = 0
    OBVIOUS
<1> QED BY <1>1, Sizes DEF FrameOk

LEMMA EndKeeps == ASSUME IInv, End PROVE IInv'
<1>1. /\ apc = "end" /\ apc' = "begin" /\ ir' = {}
      /\ UNCHANGED port /\ out' = out /\ after' = after /\ cmd' = cmd /\ eth' = eth
      /\ hpc' = hpc /\ req' = req /\ todo' = todo /\ got' = got /\ ready' = ready
      /\ len' = len /\ n' = n /\ seen' = seen /\ val' = val /\ dlen' = dlen
      /\ chip' = chip /\ cr' = cr /\ sr' = sr /\ sending' = sending
      /\ held' = held /\ waiting' = waiting /\ UNCHANGED <<rx, tx>>
    BY DEF End, host, local, hist
<1>2. after = "loop" /\ out = <<>> /\ offer = <<>> /\ offer' = offer
    BY <1>1 DEF IInv, Places, port
<1>3. /\ ~Body /\ ~Body' /\ ~Streaming /\ ~Streaming' /\ ~Dropping' /\ ~Headed' /\ ~Headed /\ ~Sending /\ ~Sending'
      /\ ~Opening /\ ~Opening' /\ Closing /\ Closing' /\ ~Idling' /\ ~Idling
    BY <1>1, <1>2 DEF Body, Headed, Streaming, Dropping, Opening, Closing, Sending, Idling
<1>4. TypeOK'
    BY <1>1 DEF IInv, TypeOK, rx, tx
<1>5. Places'
    BY <1>1, <1>2, <1>3 DEF IInv, Places
<1>6. Locals'
    BY <1>1, <1>3 DEF IInv, Locals, Body
<1>7. Doing'
    BY <1>1, <1>2, <1>3 DEF IInv, Doing
<1>8. Chip'
    BY <1>1, <1>2, <1>3 DEF IInv, Chip, Live, OnItsWay, CommandOf, tx
<1>9. Filling'
    BY <1>1, <1>2 DEF IInv, Filling
<1>10. Ringed'
    BY <1>1, <1>3, RingKept DEF IInv, Live
<1>11. Turn'
    <2>1. Served' = Served
        BY <1>1, <1>2, <1>3 DEF Served, Taken, Whole
    <2>2. \A f : Made(f)' = Made(f)
        BY <1>1, <1>3 DEF Made, AnswerSize
    <2> QED BY <1>1, <2>1, <2>2, TurnSame
<1> QED BY <1>4, <1>5, <1>6, <1>7, <1>8, <1>9, <1>10, <1>11 DEF IInv

LEMMA BeginKeeps == ASSUME IInv, Begin PROVE IInv'
<1>1. /\ apc = "begin" /\ cr' = "OPEN" /\ apc' = "cr" /\ after' = "opened"
      /\ sr' = "closed" /\ ir' = {} /\ sending' = FALSE
      /\ rxbuf' = Blank /\ rxrd' = 0 /\ rxat' = 0 /\ rxwr' = 0
      /\ txbuf' = Blank /\ txwr' = 0 /\ txrd' = 0 /\ waiting' = <<>> /\ held' = {<<>>}
      /\ UNCHANGED port /\ out' = out /\ cmd' = cmd /\ eth' = eth
      /\ hpc' = hpc /\ req' = req /\ todo' = todo /\ got' = got /\ ready' = ready
      /\ len' = len /\ n' = n /\ seen' = seen /\ val' = val /\ dlen' = dlen /\ chip' = chip
    BY DEF Begin, SwReset, host, local
<1>2. after = "loop" /\ out = <<>> /\ offer = <<>> /\ offer' = offer
    BY <1>1 DEF IInv, Places, port
<1>3. /\ ~Body /\ ~Body' /\ ~Streaming /\ ~Streaming' /\ ~Dropping' /\ ~Headed' /\ ~Sending /\ ~Sending'
      /\ ~Opening /\ Opening' /\ Closing /\ ~Closing' /\ ~Idling' /\ ~Idling
    BY <1>1, <1>2 DEF Body, Headed, Streaming, Dropping, Opening, Closing, Sending, Idling
<1>4. req.op = "init" /\ held = {} /\ hpc # "idle"
    BY <1>1, <1>3 DEF IInv, Doing, Places
<1>5. TypeOK'
    <2>1. Blank \in [0..Ring - 1 -> Bytes]
        BY Codes DEF Blank
    <2>2. 0 \in 0..Mod - 1
        BY Sizes
    <2> QED BY <1>1, <2>1, <2>2 DEF IInv, TypeOK
<1>6. Places'
    BY <1>1, <1>2, <1>3, <1>4 DEF Places
<1>7. Locals'
    BY <1>1, <1>3 DEF IInv, Locals
<1>8. Doing'
    BY <1>1, <1>2, <1>3, <1>4 DEF Doing
<1>9. Chip'
    <2>1. (0 + Mod - 0) % Mod = 0
        <3>1. 0 + Mod - 0 = Mod /\ Mod % Mod = 0
            BY Sizes, OverMod
        <3> QED BY <3>1
    <2>2. (txwr' + Mod - txrd') % Mod <= Ring
        BY <1>1, <2>1, Sizes
    <2> QED BY <1>1, <1>3, <2>2 DEF Chip, OnItsWay, CommandOf
<1>10. Filling'
    BY <1>1 DEF IInv, Filling
<1>11. Ringed'
    <2> DEFINE p == [i \in 1..1 |-> 0]
    <2>1. 0 \in 0..Ring /\ p[1] = 0 /\ p \in [1..1 -> 0..Ring] /\ Len(waiting') = 0 /\ waiting' \in Seq(Arrivals)
        BY <1>1, Sizes
    <2>2. \A i \in 1..1 : i = 1
        OBVIOUS
    <2> HIDE DEF p
    <2>3. (0 + 0) % Mod = 0
        BY Sizes, SmallMod
    <2>4. p \in [1..Len(waiting') + 1 -> 0..Ring] /\ Len(waiting') + 1 = 1
        BY <2>1
    <2>5. Lies(0, p)'
        BY <1>1, <1>3, <2>1, <2>2, <2>3, <2>4, Sizes DEF Lies
    <2> QED BY <1>3, <2>1, <2>4, <2>5 DEF Ringed
<1>12. Turn'
    <2>1. Served' = Served
        BY <1>1, <1>3, <1>4 DEF Served, Taken, Whole
    <2>2. Made(<<>>)' = 0
        BY <1>3 DEF Made
    <2>3. Nothing /\ FrameOk(<<>>)
        BY <1>4, Silent, Empty
    <2>4. out' = <<>> /\ out' \in Seq(Bytes) /\ Len(out') = 0
        BY <1>1, <1>2
    <2> QED BY <1>1, <1>4, <2>1, <2>2, <2>3, <2>4, TurnAnswer
<1> QED BY <1>5, <1>6, <1>7, <1>8, <1>9, <1>10, <1>11, <1>12 DEF IInv

LEMMA OpenedKeeps == ASSUME IInv, Opened PROVE IInv'
<1>1. /\ apc = "opened" /\ eth' = (sr = "macraw") /\ out' = <<IF eth' THEN 0 ELSE 1>>
      /\ apc' = "put" /\ after' = "loop" /\ UNCHANGED port /\ cmd' = cmd
      /\ hpc' = hpc /\ req' = req /\ todo' = todo /\ got' = got /\ ready' = ready
      /\ len' = len /\ n' = n /\ seen' = seen /\ val' = val /\ dlen' = dlen
      /\ held' = held /\ waiting' = waiting /\ UNCHANGED <<regs, rx, tx>>
    BY DEF Opened, SocketIsOpen, Reply, host, local, hist
<1>2. after = "loop" /\ out = <<>> /\ offer = <<>> /\ offer' = offer
    BY <1>1 DEF IInv, Places, port
<1>3. /\ ~Body /\ ~Body' /\ ~Streaming /\ ~Streaming' /\ ~Dropping' /\ ~Headed' /\ ~Sending /\ ~Sending'
      /\ Opening /\ ~Opening' /\ ~Closing /\ ~Closing' /\ ~Idling' /\ ~Idling
    BY <1>1, <1>2 DEF Body, Headed, Streaming, Dropping, Opening, Closing, Sending, Idling
<1>4. req.op = "init" /\ held = {<<>>} /\ hpc # "idle"
    BY <1>1, <1>3 DEF IInv, Doing, Places
<1>5. eth' \in BOOLEAN /\ (eth' => sr' = "macraw")
    <2>1. eth' \in BOOLEAN
        BY <1>1, Zenon
    <2>2. eth' => sr = "macraw"
        BY <1>1, Zenon
    <2> QED BY <1>1, <2>1, <2>2 DEF regs
<1>6. out' \in Seq(Bytes) /\ Len(out') = 1 /\ out'[1] = (IF eth' THEN 0 ELSE 1) /\ out' # <<>>
    BY <1>1, Codes
<1>7. TypeOK'
    BY <1>1, <1>5, <1>6 DEF IInv, TypeOK, regs, rx, tx
<1>8. Places'
    BY <1>1, <1>3, <1>4, <1>6 DEF Places
<1>9. Locals'
    BY <1>1, <1>3 DEF IInv, Locals
<1>10. Doing'
    BY <1>1, <1>3, <1>4 DEF Doing
<1>11. Chip'
    <2>1. Live
        BY <1>3 DEF Live
    <2> QED BY <1>1, <1>3, <1>5, <2>1 DEF IInv, Chip, OnItsWay, regs, tx
<1>12. Filling'
    BY <1>1 DEF IInv, Filling
<1>13. Ringed'
    BY <1>1, <1>3, RingKept DEF IInv, Live, regs
<1>14. Turn'
    <2>1. Served' = Served
        BY <1>1, <1>3, <1>4 DEF Served, Taken, Whole
    <2>2. Made(<<>>)' = 1 /\ AnswerByte(<<>>, 1)' = (IF eth' THEN 0 ELSE 1)
        BY <1>1, <1>3, <1>4 DEF Made, AnswerSize, AnswerByte
    <2>3. Nothing /\ FrameOk(<<>>)
        BY <1>3, <1>4, Silent, Empty
    <2>4. \A i \in 1..Len(out') : i = 1
        BY <1>6
    <2>5. \A i \in 1..Len(out') : out'[i] = AnswerByte(<<>>, i)'
        BY <1>6, <2>2, <2>4
    <2>6. hpc # "idle" /\ held' = {<<>>}
        BY <1>1, <1>4
    <2> QED BY <1>1, <1>6, <2>1, <2>2, <2>3, <2>5, <2>6, TurnAnswer
<1> QED BY <1>7, <1>8, <1>9, <1>10, <1>11, <1>12, <1>13, <1>14 DEF IInv

\* The size the chip tells: of the receive buffer when nothing waits, and of an empty
\* transmit buffer.
LEMMA SizesTold ==
    ASSUME IInv, apc \in {"size", "sized"}
    PROVE  /\ Rsr \in 0..Mod - 1 /\ Fsr = Ring
           /\ waiting = <<>> => Rsr = 0
           /\ hpc # "idle" /\ held = {} /\ Nothing /\ eth /\ cr = "none" /\ sr = "macraw"
           /\ req.op \in {"poll", "send"} /\ cmd = CmdOf(req.op) /\ len = Wanted
<1>1. ~Idling /\ ~Opening /\ ~Closing /\ ~Sending /\ ~Body
    BY DEF Idling, Opening, Closing, Sending, Body, Headed, Streaming, Dropping
<1>2. hpc # "idle" /\ held = {} /\ eth
    BY <1>1 DEF IInv, Places, Doing
<1>3. Nothing
    BY <1>2, Silent
<1>4. req.op \in {"poll", "send"} /\ cmd = CmdOf(req.op) /\ len = Wanted
    BY <1>1, WholeType, RequestType DEF IInv, Doing
<1>5. cr = "none" /\ sr = "macraw" /\ txrd = txwr
    BY <1>1, <1>2 DEF IInv, Chip, Live
<1>6. rxat \in 0..Mod - 1 /\ rxwr \in 0..Mod - 1 /\ txwr \in 0..Mod - 1
    BY DEF IInv, TypeOK
<1>7. Rsr \in 0..Mod - 1
    <2>1. rxwr + Mod - rxat \in Nat
        BY <1>6, Sizes
    <2> QED BY <2>1, Sizes, DivMod DEF Rsr
<1>8. \A x \in 0..Mod - 1 : (x + Mod - x) % Mod = 0
    <2>1. Mod % Mod = 0
        BY Sizes, OverMod
    <2>2. ASSUME NEW x \in 0..Mod - 1 PROVE x + Mod - x = Mod
        BY Sizes
    <2> QED BY <2>1, <2>2
<1>9. Fsr = Ring
    <2>1. (txwr + Mod - txrd) % Mod = 0
        BY <1>5, <1>6, <1>8
    <2> QED BY <2>1, Sizes DEF Fsr
<1>10. ASSUME waiting = <<>> PROVE Rsr = 0
    <2>1. PICK lag \in 0..Ring : \E p \in [1..Len(waiting) + 1 -> 0..Ring] : Lies(lag, p)
        BY <1>2 DEF IInv, Ringed, Live
    <2>2. PICK p : Lies(lag, p)
        BY <2>1
    <2>3. lag = 0
        BY <1>5, <2>2 DEF Lies
    <2>4. Len(waiting) + 1 = 1
        BY <1>10
    <2>5. p[1] = 0 /\ rxwr = (rxat + p[1]) % Mod
        BY <1>1, <2>2, <2>3, <2>4 DEF Lies
    <2>6. rxat + 0 = rxat /\ rxat % Mod = rxat
        BY <1>6, Sizes, SmallMod
    <2>7. rxwr = rxat
        BY <2>5, <2>6
    <2> QED BY <1>6, <1>8, <2>7 DEF Rsr
<1> QED BY <1>2, <1>3, <1>4, <1>5, <1>7, <1>9, <1>10

LEMMA ReadSizeKeeps == ASSUME IInv, ReadSize PROVE IInv'
<1> DEFINE size == IF cmd = PollCmd THEN Rsr ELSE Fsr
           byte == ByteOfWord(Len(seen), size)
           s    == Append(seen, byte)
           val1 == Base * s[1] + s[2]
           v    == IF Len(s) = 4 THEN Base * s[3] + s[4] ELSE val
<1>1. /\ apc = "size" /\ UNCHANGED port /\ out' = out /\ after' = after /\ cmd' = cmd /\ eth' = eth
      /\ hpc' = hpc /\ req' = req /\ todo' = todo /\ got' = got /\ ready' = ready
      /\ len' = len /\ n' = n /\ dlen' = dlen
      /\ held' = held /\ waiting' = waiting /\ UNCHANGED <<regs, rx, tx>>
    BY DEF ReadSize, host, hist
<1>2. IF Len(s) \in {1, 3} \/ (Len(s) = 2 /\ val1 # 0)
      THEN seen' = s /\ apc' = apc /\ val' = val
      ELSE seen' = <<>> /\ val' = v /\ apc' = IF v = val1 THEN "sized" ELSE "size"
    BY DEF ReadSize
<1>3. /\ Rsr \in 0..Mod - 1 /\ Fsr = Ring /\ (waiting = <<>> => Rsr = 0) /\ hpc # "idle" /\ held = {} /\ eth
      /\ req.op \in {"poll", "send"} /\ cmd = CmdOf(req.op)
    BY <1>1, SizesTold
<1>4. size \in 0..Mod - 1
    BY <1>3, Sizes
<1>5. byte \in Bytes
    BY <1>4, TwoBytes DEF ByteOfWord
<1>6. seen \in Seq(Bytes) /\ Len(seen) <= 3 /\ Len(seen) \in Nat /\ val \in 0..Mod - 1
    BY DEF IInv, TypeOK, Filling
<1> HIDE DEF byte, size
<1>7. /\ s \in Seq(Bytes) /\ Len(s) = Len(seen) + 1
      /\ \A i \in 1..Len(seen) + 1 : s[i] \in Bytes /\ s[i] = (IF i <= Len(seen) THEN seen[i] ELSE byte)
    BY <1>5, <1>6
<1> HIDE DEF s
<1>19. Len(s) = 4 => 3 \in 1..Len(seen) + 1 /\ 4 \in 1..Len(seen) + 1
    <2> DEFINE k == Len(seen)
    <2>1. k \in Nat /\ Len(s) = k + 1
        BY <1>6, <1>7
    <2> HIDE DEF k
    <2>3. k + 1 = 4 => 3 \in 1..k + 1 /\ 4 \in 1..k + 1
        BY <2>1
    <2>2. Len(s) = 4 => 3 \in 1..k + 1 /\ 4 \in 1..k + 1
        BY <2>1, <2>3, Zenon
    <2> QED BY <2>2 DEF k
<1>8. v \in 0..Mod - 1
    <2>1. CASE Len(s) = 4
        <3>1. 3 \in 1..Len(seen) + 1 /\ 4 \in 1..Len(seen) + 1
            BY <1>7, <2>1, <1>19
        <3>2. s[3] \in Bytes /\ s[4] \in Bytes
            BY <1>7, <3>1
        <3> QED BY <2>1, <3>2, Word
    <2> QED BY <1>6, <2>1
<1>9. (apc' = "size" \/ apc' = "sized") /\ (seen' = s \/ seen' = <<>>) /\ (val' = val \/ val' = v)
      /\ (seen' # <<>> => apc' = "size" /\ seen' = s /\ Len(s) \in {1, 2, 3})
    BY <1>1, <1>2
<1> HIDE DEF v, val1
<1>10. /\ ~Body /\ ~Body' /\ ~Streaming /\ ~Streaming' /\ ~Dropping' /\ ~Headed /\ ~Headed' /\ ~Sending /\ ~Sending'
       /\ ~Opening /\ ~Opening' /\ ~Closing /\ ~Closing' /\ ~Idling' /\ ~Idling
    BY <1>1, <1>9 DEF Body, Headed, Streaming, Dropping, Opening, Closing, Sending, Idling
<1>11. TypeOK'
    <2>1. val' \in 0..Mod - 1
        BY <1>6, <1>8, <1>9
    <2>2. Len(seen') <= 3
        <3>1. CASE seen' = <<>>
            BY <3>1
        <3>2. CASE seen' # <<>>
            <4>1. seen' = s /\ Len(s) \in {1, 2, 3}
                BY <1>9, <3>2, Zenon
            <4>2. \A k \in {1, 2, 3} : k <= 3
                OBVIOUS
            <4> QED BY <4>1, <4>2, Zenon
        <3> QED BY <3>1, <3>2
    <2> QED BY <1>1, <1>9, <2>1, <2>2 DEF IInv, TypeOK, regs, rx, tx
<1>12. Places'
    BY <1>1, <1>3, <1>9, <1>10 DEF IInv, Places, port
<1>13. Locals'
    BY <1>1, <1>9, <1>10 DEF IInv, Locals, Body
<1>14. Doing'
    BY <1>1, <1>3, <1>9, <1>10 DEF IInv, Doing, Wanted
<1>15. Chip'
    BY <1>1, <1>9, <1>10 DEF IInv, Chip, Live, OnItsWay, CommandOf, regs, tx
<1>16. Filling'
    <2>1. seen' \in Seq(Bytes)
        <3>1. <<>> \in Seq(Bytes)
            OBVIOUS
        <3> QED BY <1>7, <1>9, <3>1
    <2>2. ASSUME cmd = SendCmd PROVE val' \in {0, Ring} /\ \A i \in 1..Len(seen') : seen'[i] = ByteOfWord(i - 1, Ring)
        <3>1. byte = ByteOfWord(Len(seen), Ring)
            BY <1>3, <2>2, Codes DEF byte, size
        <3>2. \A i \in 1..Len(seen) : seen[i] = ByteOfWord(i - 1, Ring)
            BY <1>1, <2>2 DEF IInv, Filling
        <3>3. ASSUME NEW i \in 1..Len(seen) + 1 PROVE s[i] = ByteOfWord(i - 1, Ring)
            <4>1. CASE i <= Len(seen)
                <5>1. i \in 1..Len(seen)
                    BY <1>6, <4>1
                <5> QED BY <1>7, <3>2, <4>1, <5>1
            <4>2. CASE ~(i <= Len(seen))
                <5>1. i - 1 = Len(seen)
                    BY <1>6, <4>2
                <5> QED BY <1>7, <3>1, <4>2, <5>1
            <4> QED BY <4>1, <4>2
        <3>4. Len(s) = 4 => v = Ring
            <4> SUFFICES ASSUME Len(s) = 4 PROVE v = Ring
                OBVIOUS
            <4>1. s[3] = ByteOfWord(2, Ring) /\ s[4] = ByteOfWord(3, Ring)
                <5>1. 3 \in 1..Len(seen) + 1 /\ 4 \in 1..Len(seen) + 1 /\ 3 - 1 = 2 /\ 4 - 1 = 3
                    BY <1>7
                <5>2. s[3] = ByteOfWord(3 - 1, Ring) /\ s[4] = ByteOfWord(4 - 1, Ring)
                    BY <3>3, <5>1
                <5> QED BY <5>1, <5>2
            <4>2. s[3] = Hi(Ring) /\ s[4] = Lo(Ring)
                BY <4>1 DEF ByteOfWord
            <4>3. Ring \in 0..Mod - 1
                BY Sizes
            <4>4. Lo(Ring) + Base * Hi(Ring) = Ring /\ Lo(Ring) \in Nat /\ Base * Hi(Ring) \in Nat
                BY <4>3, TwoBytes, Sizes DEF Bytes
            <4>5. v = Base * Hi(Ring) + Lo(Ring)
                BY <4>2 DEF v
            <4> QED BY <4>4, <4>5
        <3>5. val \in {0, Ring}
            BY <1>1, <2>2 DEF IInv, Filling
        <3>6. val' \in {0, Ring}
            BY <1>9, <3>4, <3>5 DEF v
        <3>7. \A i \in 1..Len(seen') : seen'[i] = ByteOfWord(i - 1, Ring)
            <4>1. CASE seen' = s
                BY <1>7, <3>3, <4>1
            <4>2. CASE seen' = <<>>
                BY <4>2
            <4> QED BY <1>9, <4>1, <4>2
        <3> QED BY <3>6, <3>7
    <2>3. ASSUME cmd = PollCmd, waiting = <<>> PROVE val' = 0 /\ \A i \in 1..Len(seen') : seen'[i] = 0
        <3>1. byte = 0
            <4>1. 0 % Base = 0 /\ 0 \div Base = 0
                BY Sizes
            <4> QED BY <1>3, <2>3, <4>1 DEF byte, size, ByteOfWord, Hi, Lo
        <3>2. val = 0 /\ \A i \in 1..Len(seen) : seen[i] = 0
            BY <1>1, <2>3 DEF IInv, Filling
        <3>3. ASSUME NEW i \in 1..Len(seen) + 1 PROVE s[i] = 0
            <4>1. i <= Len(seen) => i \in 1..Len(seen)
                BY <1>6
            <4> QED BY <1>7, <3>1, <3>2, <4>1
        <3>4. v = 0
            <4>1. CASE Len(s) = 4
                <5>1. 3 \in 1..Len(seen) + 1 /\ 4 \in 1..Len(seen) + 1
                    BY <1>7, <1>19, <4>1
                <5>2. s[3] = 0 /\ s[4] = 0
                    BY <3>3, <5>1
                <5> QED BY <4>1, <5>2, Sizes DEF v
            <4> QED BY <3>2, <4>1 DEF v
        <3>5. \A i \in 1..Len(seen') : seen'[i] = 0
            <4>1. CASE seen' = s
                BY <1>7, <3>3, <4>1
            <4>2. CASE seen' = <<>>
                BY <4>2
            <4> QED BY <1>9, <4>1, <4>2
        <3> QED BY <1>9, <3>2, <3>4, <3>5
    <2> QED BY <1>1, <1>9, <2>1, <2>2, <2>3 DEF Filling
<1>17. Ringed'
    BY <1>1, <1>10, RingKept DEF IInv, Live, regs
<1>18. Turn'
    <2>1. Served' = Served
        BY <1>1, <1>9, <1>10 DEF Served, Taken, Whole
    <2>2. \A f : Made(f)' = Made(f)
        BY <1>1, <1>10 DEF Made, AnswerSize
    <2> QED BY <1>1, <2>1, <2>2, TurnSame
<1> QED BY <1>11, <1>12, <1>13, <1>14, <1>15, <1>16, <1>17, <1>18 DEF IInv

\* The frame that is held is the one whose header was read, unless it is too long.
LEMMA HeldFrame ==
    ASSUME IInv, Body, NEW f, held = {f}, eth
    PROVE  /\ req.op = "poll" /\ dlen \in Nat /\ len \in Nat /\ n \in Nat /\ dlen \in 0..Mod - 1
           /\ IF dlen <= len THEN Len(f) = dlen ELSE f = <<>>
           /\ cr = "none" /\ rxrd \in 0..Mod - 1 /\ dlen <= len =>
                 \A k \in 1..dlen : rxbuf[(rxrd + (k - 1)) % Ring] = f[k]
<1>1. req.op = "poll"
    BY DEF IInv, Doing
<1>2. dlen \in Nat /\ len \in Nat /\ n \in Nat /\ dlen \in 0..Mod - 1 /\ rxat \in 0..Mod - 1
    BY Sizes DEF IInv, TypeOK
<1>3. PICK lag \in 0..Ring : \E p \in [1..Len(waiting) + 1 -> 0..Ring] : Lies(lag, p)
    BY DEF IInv, Ringed, Live
<1>4. PICK p : Lies(lag, p)
    BY <1>3
<1>5. IF dlen <= len THEN Len(f) = dlen /\ \A k \in 1..dlen : View(lag + k - 1) = f[k] ELSE f = <<>>
    BY <1>4 DEF Lies
<1>6. ASSUME cr = "none", dlen <= len, NEW k \in 1..dlen PROVE rxbuf[(rxrd + (k - 1)) % Ring] = f[k]
    <2>1. lag = 0 /\ rxrd = (rxat + lag) % Mod
        BY <1>4, <1>6 DEF Lies
    <2>2. rxat + 0 = rxat /\ rxat % Mod = rxat
        BY <1>2, Sizes, SmallMod
    <2>3. rxrd = rxat /\ lag + k - 1 = k - 1
        BY <2>1, <2>2
    <2>4. View(lag + k - 1) = f[k]
        BY <1>5, <1>6
    <2> QED BY <2>3, <2>4 DEF View
<1> QED BY <1>1, <1>2, <1>5, <1>6

LEMMA NoFrameKeeps == ASSUME IInv, NoFrame PROVE IInv'
<1>1. /\ apc = "sized" /\ cmd = PollCmd /\ val = 0 /\ apc' = "put" /\ out' = <<0, 0>> /\ after' = "loop"
      /\ len' = 0 /\ n' = 0 /\ seen' = <<>> /\ val' = 0 /\ dlen' = 0 /\ held' = {<<>>}
      /\ UNCHANGED port /\ cmd' = cmd /\ eth' = eth
      /\ hpc' = hpc /\ req' = req /\ todo' = todo /\ got' = got /\ ready' = ready
      /\ waiting' = waiting /\ UNCHANGED <<regs, rx, tx>>
    BY DEF NoFrame, Reply, Forget, host
<1>2. /\ hpc # "idle" /\ held = {} /\ Nothing /\ eth /\ req.op \in {"poll", "send"} /\ cmd = CmdOf(req.op)
    BY <1>1, SizesTold
<1>3. req.op = "poll"
    BY <1>1, <1>2, Codes DEF CmdOf
<1>4. /\ ~Body /\ ~Body' /\ ~Streaming /\ ~Streaming' /\ ~Dropping' /\ ~Headed' /\ ~Sending /\ ~Sending'
      /\ ~Opening /\ ~Opening' /\ ~Closing /\ ~Closing' /\ ~Idling' /\ ~Idling
    BY <1>1 DEF Body, Headed, Streaming, Dropping, Opening, Closing, Sending, Idling
<1>5. out' \in Seq(Bytes) /\ Len(out') = 2 /\ out' # <<>> /\ \A i \in 1..Len(out') : out'[i] = 0 /\ (i = 1 \/ i = 2)
    BY <1>1, Codes
<1>6. TypeOK'
    <2>1. 0 \in 0..Mod - 1 /\ Len(seen') <= 3
        BY <1>1, Sizes
    <2> QED BY <1>1, <1>5, <2>1 DEF IInv, TypeOK, regs, rx, tx
<1>7. Places'
    BY <1>1, <1>2, <1>4, <1>5 DEF Places
<1>8. Locals'
    BY <1>1, <1>4 DEF Locals
<1>9. Doing'
    BY <1>1, <1>2, <1>3, <1>4 DEF Doing
<1>10. Chip'
    BY <1>1, <1>4 DEF IInv, Chip, Live, OnItsWay, CommandOf, regs, tx
<1>11. Filling'
    BY <1>1 DEF Filling
<1>12. Ringed'
    BY <1>1, <1>4, RingKept DEF IInv, Live, regs
<1>13. Turn'
    <2>1. Served' = Served
        BY <1>1, <1>2, <1>3, <1>4, AskedWord, WholeType DEF Served, Taken, Whole
    <2>2. Made(<<>>)' = 2 /\ AnswerByte(<<>>, 1)' = 0 /\ AnswerByte(<<>>, 2)' = 0
        <3>1. Len(<<>>) = 0 /\ Lo(0) = 0 /\ Hi(0) = 0
            BY Sizes DEF Lo, Hi
        <3> QED BY <1>1, <1>3, <1>4, <3>1 DEF Made, AnswerSize, AnswerByte
    <2>3. FrameOk(<<>>)
        BY Empty
    <2>4. \A i \in 1..Len(out') : out'[i] = AnswerByte(<<>>, i)'
        BY <1>5, <2>2
    <2> QED BY <1>1, <1>2, <1>5, <2>1, <2>2, <2>3, <2>4, TurnAnswer
<1> QED BY <1>6, <1>7, <1>8, <1>9, <1>10, <1>11, <1>12, <1>13 DEF IInv

\* The answer to a poll begins.
LEMMA AnswerBegins ==
    ASSUME IInv, apc = "length"
    PROVE  /\ \E f : held = {f} /\ FrameOk(f)
           /\ hpc # "idle" /\ Nothing /\ eth /\ cr = "none" /\ req.op = "poll" /\ n = 0
           /\ Body /\ Headed /\ ~Idling /\ ~Streaming /\ ~Dropping /\ ~Sending /\ ~Opening /\ ~Closing
           /\ after = "loop"
<1>1. Body /\ Headed /\ ~Idling /\ ~Streaming /\ ~Dropping /\ ~Sending /\ ~Opening /\ ~Closing
    BY DEF Body, Headed, Streaming, Dropping, Opening, Closing, Sending, Idling
<1>2. hpc # "idle" /\ held # {} /\ eth /\ req.op = "poll" /\ after = "loop"
    BY <1>1 DEF IInv, Places, Doing
<1>3. Nothing
    BY <1>1, <1>2, Silent
<1>4. cr = "none"
    BY <1>2 DEF IInv, Chip, Live
<1>5. n = 0
    BY <1>1 DEF IInv, Locals
<1> QED BY <1>1, <1>2, <1>3, <1>4, <1>5 DEF IInv, Turn

LEMMA DropKeeps == ASSUME IInv, Drop PROVE IInv'
<1>1. /\ apc = "length" /\ dlen > len /\ apc' = "put" /\ out' = <<0, 0>> /\ after' = "ignore"
      /\ len' = len /\ n' = n /\ seen' = seen /\ val' = val /\ dlen' = dlen /\ held' = held
      /\ UNCHANGED port /\ cmd' = cmd /\ eth' = eth
      /\ hpc' = hpc /\ req' = req /\ todo' = todo /\ got' = got /\ ready' = ready
      /\ waiting' = waiting /\ UNCHANGED <<regs, rx, tx>>
    BY DEF Drop, Reply, host, local, hist
<1>2. PICK f : held = {f} /\ FrameOk(f)
    BY <1>1, AnswerBegins
<1>3. /\ hpc # "idle" /\ Nothing /\ eth /\ cr = "none" /\ req.op = "poll" /\ n = 0
      /\ Body /\ Headed /\ ~Idling /\ ~Sending /\ ~Opening /\ ~Closing
    BY <1>1, AnswerBegins
<1>4. f = <<>> /\ held' = {<<>>} /\ FrameOk(<<>>)
    <2>1. dlen \in Nat /\ len \in Nat /\ IF dlen <= len THEN Len(f) = dlen ELSE f = <<>>
        BY <1>2, <1>3, HeldFrame
    <2>2. ~(dlen <= len)
        BY <1>1, <2>1
    <2> QED BY <1>1, <1>2, <2>1, <2>2
<1>5. Body' /\ Dropping' /\ ~Streaming' /\ ~Headed' /\ ~Sending' /\ ~Opening' /\ ~Closing' /\ ~Idling'
    BY <1>1 DEF Body, Headed, Streaming, Dropping, Opening, Closing, Sending, Idling
<1>6. out' \in Seq(Bytes) /\ Len(out') = 2 /\ out' # <<>> /\ \A i \in 1..Len(out') : out'[i] = 0 /\ (i = 1 \/ i = 2)
    BY <1>1, Codes
<1>7. TypeOK'
    BY <1>1, <1>6 DEF IInv, TypeOK, regs, rx, tx
<1>8. Places'
    BY <1>1, <1>3, <1>5, <1>6 DEF Places
<1>9. Locals'
    BY <1>1, <1>3, <1>5 DEF IInv, Locals
<1>10. Doing'
    BY <1>1, <1>3, <1>4, <1>5 DEF IInv, Doing, Wanted
<1>11. Chip'
    BY <1>1, <1>3, <1>5 DEF IInv, Chip, Live, OnItsWay, CommandOf, regs, tx
<1>12. Filling'
    BY <1>1 DEF IInv, Filling
<1>13. Ringed'
    BY <1>1, <1>3, <1>5, RingKept DEF IInv, Live, regs
<1>14. Turn'
    <2>1. Served' = Served
        BY <1>1, <1>3, <1>4, <1>5 DEF Served, Taken, Whole
    <2>2. Made(<<>>)' = 2 /\ AnswerByte(<<>>, 1)' = 0 /\ AnswerByte(<<>>, 2)' = 0
        <3>1. Len(<<>>) = 0 /\ Lo(0) = 0 /\ Hi(0) = 0
            BY Sizes DEF Lo, Hi
        <3> QED BY <1>1, <1>3, <1>5, <3>1 DEF Made, AnswerSize, AnswerByte
    <2>3. \A i \in 1..Len(out') : out'[i] = AnswerByte(<<>>, i)'
        BY <1>6, <2>2
    <2> QED BY <1>1, <1>3, <1>4, <1>6, <2>1, <2>2, <2>3, TurnAnswer
<1> QED BY <1>7, <1>8, <1>9, <1>10, <1>11, <1>12, <1>13, <1>14 DEF IInv

LEMMA DeliverKeeps == ASSUME IInv, Deliver PROVE IInv'
<1>1. /\ apc = "length" /\ dlen <= len /\ apc' = "put" /\ out' = <<Lo(dlen), Hi(dlen)>> /\ after' = "stream"
      /\ len' = len /\ n' = n /\ seen' = seen /\ val' = val /\ dlen' = dlen /\ held' = held
      /\ UNCHANGED port /\ cmd' = cmd /\ eth' = eth
      /\ hpc' = hpc /\ req' = req /\ todo' = todo /\ got' = got /\ ready' = ready
      /\ waiting' = waiting /\ UNCHANGED <<regs, rx, tx>>
    BY DEF Deliver, Reply, Words, host, local, hist
<1>2. PICK f : held = {f} /\ FrameOk(f)
    BY <1>1, AnswerBegins
<1>3. /\ hpc # "idle" /\ Nothing /\ eth /\ cr = "none" /\ req.op = "poll" /\ n = 0
      /\ Body /\ Headed /\ ~Idling /\ ~Sending /\ ~Opening /\ ~Closing
    BY <1>1, AnswerBegins
<1>4. Len(f) = dlen /\ dlen \in 0..Mod - 1 /\ dlen \in Nat
    BY <1>1, <1>2, <1>3, HeldFrame
<1>5. Body' /\ ~Dropping' /\ Streaming' /\ ~Headed' /\ ~Sending' /\ ~Opening' /\ ~Closing' /\ ~Idling'
    BY <1>1 DEF Body, Headed, Streaming, Dropping, Opening, Closing, Sending, Idling
<1>6. /\ out' \in Seq(Bytes) /\ Len(out') = 2 /\ out' # <<>> /\ out'[1] = Lo(dlen) /\ out'[2] = Hi(dlen)
      /\ \A i \in 1..Len(out') : i = 1 \/ i = 2
    <2>1. Lo(dlen) \in Bytes /\ Hi(dlen) \in Bytes
        BY <1>4, TwoBytes
    <2> QED BY <1>1, <2>1
<1>7. TypeOK'
    BY <1>1, <1>6 DEF IInv, TypeOK, regs, rx, tx
<1>8. Places'
    BY <1>1, <1>3, <1>5, <1>6 DEF Places
<1>9. Locals'
    BY <1>1, <1>3, <1>4, <1>5 DEF IInv, Locals
<1>10. Doing'
    BY <1>1, <1>2, <1>3, <1>5 DEF IInv, Doing, Wanted
<1>11. Chip'
    BY <1>1, <1>3, <1>5 DEF IInv, Chip, Live, OnItsWay, CommandOf, regs, tx
<1>12. Filling'
    BY <1>1 DEF IInv, Filling
<1>13. Ringed'
    BY <1>1, <1>3, <1>5, RingKept DEF IInv, Live, regs
<1>14. Turn'
    <2>1. Served' = Served
        BY <1>1, <1>2, <1>3, <1>5 DEF Served, Taken, Whole
    <2>2. Made(f)' = 2
        BY <1>1, <1>3, <1>5 DEF Made
    <2>3. AnswerByte(f, 1)' = Lo(dlen) /\ AnswerByte(f, 2)' = Hi(dlen)
        BY <1>1, <1>3, <1>4 DEF AnswerByte
    <2>4. \A i \in 1..Len(out') : out'[i] = AnswerByte(f, i)'
        BY <1>6, <2>3
    <2>5. held' = {f}
        BY <1>1, <1>2
    <2> QED BY <1>1, <1>2, <1>3, <1>6, <2>1, <2>2, <2>4, <2>5, TurnAnswer
<1> QED BY <1>7, <1>8, <1>9, <1>10, <1>11, <1>12, <1>13, <1>14 DEF IInv

LEMMA StreamKeeps == ASSUME IInv, Stream PROVE IInv'
<1>1. /\ apc = "stream" /\ n < dlen /\ apc' = "put" /\ out' = <<rxbuf[(rxrd + n) % Ring]>> /\ after' = "stream"
      /\ len' = len /\ n' = n + 1 /\ seen' = seen /\ val' = val /\ dlen' = dlen /\ held' = held
      /\ toArd' = toArd /\ toHost' = toHost /\ offer' = offer /\ cmd' = cmd /\ eth' = eth
      /\ hpc' = hpc /\ req' = req /\ todo' = todo /\ got' = got /\ ready' = ready
      /\ waiting' = waiting /\ UNCHANGED <<regs, rx, tx>>
    BY DEF Stream, Reply, host, port, hist
<1>2. /\ Body /\ ~Dropping /\ Streaming /\ ~Headed /\ ~Sending /\ ~Opening /\ ~Closing
    BY <1>1 DEF Body, Headed, Streaming, Dropping, Opening, Closing, Sending
<1>3. dlen <= len /\ n \in Nat /\ dlen \in 0..Mod - 1 /\ dlen \in Nat /\ n # dlen /\ out = <<>> /\ offer = <<>>
    <2>1. n \in 0..Mod - 1 /\ dlen \in 0..Mod - 1
        BY DEF IInv, TypeOK
    <2>2. n \in Nat /\ dlen \in Nat
        BY <2>1, Sizes
    <2> QED BY <1>1, <1>2, <2>1, <2>2 DEF IInv, Locals, Places
<1>4. ~Idling
    BY <1>1, <1>3 DEF Idling
<1>5. hpc # "idle" /\ held # {} /\ eth
    BY <1>1, <1>2, <1>4 DEF IInv, Places, Doing
<1>6. PICK f : held = {f} /\ FrameOk(f) /\ Flow(f)
    BY <1>5 DEF IInv, Turn
<1>7. cr = "none"
    BY <1>1, <1>5 DEF IInv, Chip, Live
<1>8. /\ req.op = "poll" /\ Len(f) = dlen
      /\ \A k \in 1..dlen : rxbuf[(rxrd + (k - 1)) % Ring] = f[k]
    <2>1. rxrd \in 0..Mod - 1
        BY DEF IInv, TypeOK
    <2> QED BY <1>2, <1>3, <1>5, <1>6, <1>7, <2>1, HeldFrame
<1>9. out' = <<f[n + 1]>>
    <2>1. n + 1 \in 1..dlen /\ (n + 1) - 1 = n
        BY <1>1, <1>3
    <2>2. rxbuf[(rxrd + ((n + 1) - 1)) % Ring] = f[n + 1]
        BY <1>8, <2>1
    <2> QED BY <1>1, <2>1, <2>2
<1>10. f[n + 1] \in Bytes
    <2>1. f \in Seq(Bytes) /\ n + 1 \in 1..Len(f)
        BY <1>1, <1>3, <1>6, <1>8 DEF FrameOk
    <2> QED BY <2>1
<1>11. out' \in Seq(Bytes) /\ Len(out') = 1 /\ out' # <<>> /\ out'[1] = f[n + 1]
    BY <1>9, <1>10
<1>12. Body' /\ ~Dropping' /\ Streaming' /\ ~Headed' /\ ~Sending' /\ ~Opening' /\ ~Closing' /\ ~Idling'
    BY <1>1 DEF Body, Headed, Streaming, Dropping, Opening, Closing, Sending, Idling
<1>13. TypeOK'
    <2>1. n' \in 0..Mod - 1
        BY <1>1, <1>3, Sizes
    <2> QED BY <1>1, <1>11, <2>1 DEF IInv, TypeOK, regs, rx, tx
<1>14. Places'
    BY <1>1, <1>2, <1>5, <1>8, <1>11, <1>12 DEF Places
<1>15. Locals'
    BY <1>1, <1>2, <1>3, <1>12 DEF IInv, Locals
<1>16. Doing'
    BY <1>1, <1>2, <1>4, <1>5, <1>8, <1>12 DEF IInv, Doing, Wanted
<1>17. Chip'
    BY <1>1, <1>2, <1>12 DEF IInv, Chip, Live, OnItsWay, CommandOf, regs, tx
<1>18. Filling'
    BY <1>1 DEF IInv, Filling
<1>19. Ringed'
    BY <1>1, <1>2, <1>12, RingKept DEF IInv, Live, regs
<1>20. Served' = Served
    BY <1>1, <1>4, <1>5, <1>12 DEF Served, Taken, Whole
<1>21. Made(f) = 2 + n /\ Made(f)' = 2 + (n + 1)
    BY <1>1, <1>2, <1>12 DEF Made
<1>22. Flow(f)'
    <2>1. got \in Seq(Bytes) /\ toHost \in Seq(Bytes) /\ Len(got) \in Nat /\ Len(toHost) \in Nat
        BY WholeType
    <2>2. Len(offer) = 0 /\ Len(out) = 0
        BY <1>3
    <2>3. Len(got) + Len(toHost) = 2 + n
        BY <1>6, <1>21, <2>1, <2>2 DEF Flow
    <2>4. Len(got') + Len(toHost') + Len(offer') + Len(out') = Made(f)'
        BY <1>1, <1>3, <1>11, <1>21, <2>1, <2>2, <2>3
    <2>9. PICK m \in Nat : m = n
        BY <1>3
    <2>5. AnswerByte(f, 3 + m)' = f[n + 1]
        <3>1. 3 + m # 1 /\ 3 + m # 2 /\ (3 + m) - 2 = n + 1
            BY <2>9
        <3>2. req'.op = "poll"
            BY <1>1, <1>8
        <3> QED BY <3>1, <3>2 DEF AnswerByte
    <2>6. ASSUME NEW i \in 1..Len(out')
          PROVE  out'[i] = AnswerByte(f, Len(got) + Len(toHost) + Len(offer) + i)'
        <3>1. i = 1
            BY <1>11
        <3>2. Len(got)' + Len(toHost)' + Len(offer)' + i = 3 + m
            BY <1>1, <1>3, <2>1, <2>2, <2>3, <2>9, <3>1
        <3>3. AnswerByte(f, Len(got) + Len(toHost) + Len(offer) + i)' = AnswerByte(f, 3 + m)'
            BY <3>2
        <3> QED BY <1>11, <2>5, <3>1, <3>3
    <2>7. /\ Len(got) < AnswerSize(f) /\ (\A i \in 1..Len(got) : got[i] = AnswerByte(f, i))
          /\ toHost # <<>> => toHost = <<AnswerByte(f, Len(got) + 1)>>
        BY <1>6 DEF Flow
    <2>8. offer' = <<>>
        BY <1>1, <1>3
    <2> QED BY <1>1, <2>4, <2>6, <2>7, <2>8, AnswerSame DEF Flow
<1>23. Turn'
    <2>1. FrameOk(f)'
        BY <1>1, <1>6 DEF FrameOk
    <2>2. Rest(Served)'
        BY <1>1, <1>5, <1>20, RestSame
    <2> QED BY <1>1, <1>5, <1>6, <1>11, <1>22, <2>1, <2>2 DEF IInv, Turn
<1> QED BY <1>13, <1>14, <1>15, <1>16, <1>17, <1>18, <1>19, <1>23 DEF IInv

LEMMA TrySendKeeps == ASSUME IInv, TrySend PROVE IInv'
<1>1. /\ apc = "sized" /\ cmd = SendCmd /\ val' = 0 /\ UNCHANGED port /\ cmd' = cmd /\ eth' = eth
      /\ hpc' = hpc /\ req' = req /\ todo' = todo /\ got' = got /\ ready' = ready
      /\ n' = n /\ seen' = seen /\ dlen' = dlen /\ held' = held
      /\ waiting' = waiting /\ UNCHANGED <<regs, rx, tx>>
    BY DEF TrySend, host, hist
<1>2. /\ hpc # "idle" /\ held = {} /\ Nothing /\ eth /\ req.op \in {"poll", "send"} /\ cmd = CmdOf(req.op)
      /\ sr = "macraw" /\ len = Wanted
    BY <1>1, SizesTold
<1>3. apc' = (IF len <= val THEN "fill" ELSE "size") /\ after' = after /\ out' = out /\ len' = len
    BY <1>2 DEF TrySend
<1>4. req.op = "send"
    BY <1>1, <1>2, Codes DEF CmdOf
<1>5. /\ ~Body /\ ~Body' /\ ~Streaming /\ ~Streaming' /\ ~Dropping' /\ ~Headed /\ ~Headed' /\ ~Sending /\ ~Sending'
      /\ ~Opening /\ ~Opening' /\ ~Closing /\ ~Closing' /\ ~Idling' /\ ~Idling
    BY <1>1, <1>3 DEF Body, Headed, Streaming, Dropping, Opening, Closing, Sending, Idling
<1>6. n = 0 /\ seen = <<>> /\ dlen = 0
    BY <1>1, <1>5 DEF IInv, Locals
<1>7. TypeOK'
    <2>1. 0 \in 0..Mod - 1
        BY Sizes
    <2> QED BY <1>1, <1>3, <2>1 DEF IInv, TypeOK, regs, rx, tx
<1>8. Places'
    BY <1>1, <1>2, <1>3, <1>5 DEF IInv, Places, port
<1>9. Locals'
    BY <1>1, <1>3, <1>5, <1>6 DEF Locals
<1>10. Doing'
    BY <1>1, <1>2, <1>3, <1>4, <1>5 DEF Doing, Wanted
<1>11. Chip'
    BY <1>1, <1>3, <1>5 DEF IInv, Chip, Live, OnItsWay, CommandOf, regs, tx
<1>12. Filling'
    <2>1. len \in Nat /\ Ring \in Nat
        BY Sizes DEF IInv, TypeOK
    <2>2. val \in {0, Ring}
        BY <1>1 DEF IInv, Filling
    <2>3. len <= val => len <= Ring
        BY <2>1, <2>2
    <2>4. seen' \in Seq(Bytes) /\ Len(seen') = 0 /\ n' = 0 /\ 0 <= len
        BY <1>1, <1>6, <2>1
    <2>5. cmd' # PollCmd
        BY <1>1, Codes
    <2> QED BY <1>1, <1>3, <2>3, <2>4, <2>5 DEF Filling
<1>13. Ringed'
    BY <1>1, <1>5, RingKept DEF IInv, Live, regs
<1>14. Turn'
    <2>1. Served' = Served
        BY <1>1, <1>2, <1>3, <1>5, <1>6 DEF Served, Taken
    <2>2. \A f : Made(f)' = Made(f)
        BY <1>1, <1>5 DEF Made, AnswerSize
    <2> QED BY <1>1, <1>3, <2>1, <2>2, TurnSame
<1> QED BY <1>7, <1>8, <1>9, <1>10, <1>11, <1>12, <1>13, <1>14 DEF IInv

LEMMA FilledKeeps == ASSUME IInv, Filled PROVE IInv'
<1>1. /\ apc = "fill" /\ n = len /\ txwr' = (txwr + len) % Mod /\ cr' = "SEND" /\ apc' = "cr" /\ after' = "sent"
      /\ UNCHANGED port /\ out' = out /\ cmd' = cmd /\ eth' = eth
      /\ hpc' = hpc /\ req' = req /\ todo' = todo /\ got' = got /\ ready' = ready
      /\ len' = len /\ n' = n /\ seen' = seen /\ val' = val /\ dlen' = dlen
      /\ chip' = chip /\ sr' = sr /\ ir' = ir /\ sending' = sending
      /\ held' = held /\ waiting' = waiting /\ UNCHANGED rx /\ txbuf' = txbuf /\ txrd' = txrd
    BY DEF Filled, Command, host, local, hist
<1>2. /\ ~Body /\ ~Body' /\ ~Streaming /\ ~Streaming' /\ ~Dropping' /\ ~Headed /\ ~Headed' /\ ~Sending /\ Sending'
      /\ ~Opening /\ ~Opening' /\ ~Closing /\ ~Closing' /\ ~Idling' /\ ~Idling
    BY <1>1 DEF Body, Headed, Streaming, Dropping, Opening, Closing, Sending, Idling
<1>3. hpc # "idle" /\ held = {} /\ eth /\ req.op = "send" /\ len = Wanted /\ Nothing /\ req \in Requests
    <2>1. hpc # "idle" /\ held = {}
        BY <1>1, <1>2 DEF IInv, Places, Doing
    <2>2. Nothing /\ req \in Requests
        BY <2>1, Silent, WholeType
    <2> QED BY <1>1, <1>2, <2>1, <2>2 DEF IInv, Places, Doing
<1>4. len \in 0..Mod - 1 /\ len <= Ring /\ txwr \in 0..Mod - 1 /\ len \in Nat
    <2>1. len \in 0..Mod - 1 /\ txwr \in 0..Mod - 1 /\ len <= Ring
        BY <1>1 DEF IInv, TypeOK, Filling
    <2> QED BY <2>1, Sizes
<1>5. cr = "none" /\ sr = "macraw" /\ txrd = txwr /\ ir = {} /\ ~OnItsWay
    BY <1>1, <1>2, <1>3 DEF IInv, Chip, Live
<1>6. TypeOK'
    <2>1. txwr + len \in Nat
        BY <1>4, Sizes
    <2>2. txwr' \in 0..Mod - 1
        BY <1>1, <2>1, Sizes, DivMod
    <2> QED BY <1>1, <2>2 DEF IInv, TypeOK, rx
<1>7. Places'
    BY <1>1, <1>2, <1>3 DEF IInv, Places, port
<1>8. Locals'
    BY <1>1, <1>2 DEF IInv, Locals
<1>9. Doing'
    BY <1>1, <1>2, <1>3 DEF Doing, Wanted
<1>10. Chip'
    <2>1. (txwr' + Mod - txrd') % Mod = len
        BY <1>1, <1>4, <1>5, Sizes, Distance
    <2>2. ~sending' /\ OnItsWay'
        BY <1>1, <1>5 DEF OnItsWay, IInv, TypeOK
    <2>3. (txwr' + Mod - txrd') % Mod <= Ring
        BY <1>4, <2>1
    <2> QED BY <1>1, <1>2, <1>3, <1>5, <2>2, <2>3 DEF Chip, CommandOf
<1>11. Filling'
    BY <1>1 DEF IInv, Filling
<1>12. Ringed'
    <2>1. cr # "RECV"
        BY <1>5
    <2> QED BY <1>1, <1>2, <2>1, RingKept DEF IInv, Live
<1>13. Turn'
    <2>1. Served' = Served
        <3>1. Served = 3 + len /\ Served' = Whole'
            BY <1>1, <1>2, <1>3 DEF Served, Taken
        <3>2. Whole' = Whole
            BY <1>1 DEF Whole
        <3>3. Whole = 3 + len
            BY <1>3, AskedWord DEF Whole, Wanted
        <3> QED BY <3>1, <3>2, <3>3
    <2>2. \A f : held = {f} => Made(f)' = Made(f)
        BY <1>3
    <2> QED BY <1>1, <2>1, <2>2, TurnSame
<1> QED BY <1>6, <1>7, <1>8, <1>9, <1>10, <1>11, <1>12, <1>13 DEF IInv

LEMMA SentKeeps == ASSUME IInv, Sent PROVE IInv'
<1>1. /\ apc = "sent" /\ ir # {} /\ ir' = ir \ {IF "sendok" \in ir THEN "sendok" ELSE "timeout"}
      /\ apc' = "put" /\ out' = <<0>> /\ after' = "loop"
      /\ len' = 0 /\ n' = 0 /\ seen' = <<>> /\ val' = 0 /\ dlen' = 0 /\ held' = held
      /\ UNCHANGED port /\ cmd' = cmd /\ eth' = eth /\ chip' = chip /\ cr' = cr /\ sr' = sr /\ sending' = sending
      /\ hpc' = hpc /\ req' = req /\ todo' = todo /\ got' = got /\ ready' = ready
      /\ waiting' = waiting /\ UNCHANGED <<rx, tx>>
    BY DEF Sent, Reply, Forget, host, hist
<1>2. /\ ~Body /\ ~Body' /\ ~Streaming /\ ~Streaming' /\ ~Dropping' /\ ~Headed /\ ~Headed' /\ Sending /\ ~Sending'
      /\ ~Opening /\ ~Opening' /\ ~Closing /\ ~Closing' /\ ~Idling' /\ ~Idling
    BY <1>1 DEF Body, Headed, Streaming, Dropping, Opening, Closing, Sending, Idling
<1>3. hpc # "idle" /\ eth /\ req.op = "send"
    BY <1>1, <1>2 DEF IInv, Places, Doing
<1>4. ~OnItsWay /\ held = {<<>>} /\ ir \in {{"sendok"}, {"timeout"}} /\ cr = "none"
    BY <1>1, <1>2, <1>3 DEF IInv, Chip, Live
<1>5. Nothing
    BY <1>2, <1>3, Silent
<1>6. ir' = {}
    BY <1>1, <1>4
<1>7. out' \in Seq(Bytes) /\ Len(out') = 1 /\ out' # <<>> /\ \A i \in 1..Len(out') : out'[i] = 0
    BY <1>1, Codes
<1>8. TypeOK'
    <2>1. 0 \in 0..Mod - 1 /\ Len(seen') <= 3
        BY <1>1, Sizes
    <2> QED BY <1>1, <1>6, <1>7, <2>1 DEF IInv, TypeOK, rx, tx
<1>9. Places'
    BY <1>1, <1>2, <1>3, <1>7 DEF Places
<1>10. Locals'
    BY <1>1, <1>2 DEF Locals
<1>11. Doing'
    BY <1>1, <1>2, <1>3, <1>4 DEF Doing
<1>12. Chip'
    BY <1>1, <1>2, <1>3, <1>4, <1>6 DEF IInv, Chip, Live, OnItsWay, CommandOf, tx
<1>13. Filling'
    BY <1>1 DEF Filling
<1>14. Ringed'
    BY <1>1, <1>2, RingKept DEF IInv, Live
<1>15. Turn'
    <2>1. Served' = Served
        BY <1>1, <1>2, <1>4 DEF Served, Taken, Whole
    <2>2. Made(<<>>)' = 1 /\ \A i : AnswerByte(<<>>, i)' = 0
        BY <1>1, <1>2, <1>3 DEF Made, AnswerSize, AnswerByte
    <2>3. FrameOk(<<>>)
        BY Empty
    <2>4. \A i \in 1..Len(out') : out'[i] = AnswerByte(<<>>, i)'
        BY <1>7, <2>2
    <2>5. held' = {<<>>}
        BY <1>1, <1>4
    <2> QED BY <1>1, <1>3, <1>5, <1>7, <2>1, <2>2, <2>3, <2>4, <2>5, TurnAnswer
<1> QED BY <1>8, <1>9, <1>10, <1>11, <1>12, <1>13, <1>14, <1>15 DEF IInv

LEMMA ConsumeKeeps == ASSUME IInv, Consume PROVE IInv'
<1>1. /\ apc = "ignore" \/ (apc = "stream" /\ n = dlen)
      /\ rxrd' = (rxrd + dlen) % Mod /\ cr' = "RECV" /\ apc' = "cr" /\ after' = "loop"
      /\ len' = 0 /\ n' = 0 /\ seen' = <<>> /\ val' = 0 /\ dlen' = 0 /\ held' = held
      /\ UNCHANGED port /\ out' = out /\ cmd' = cmd /\ eth' = eth
      /\ chip' = chip /\ ir' = ir /\ sr' = sr /\ sending' = sending
      /\ hpc' = hpc /\ req' = req /\ todo' = todo /\ got' = got /\ ready' = ready
      /\ waiting' = waiting /\ rxbuf' = rxbuf /\ rxat' = rxat /\ rxwr' = rxwr /\ UNCHANGED tx
    BY DEF Consume, Command, Forget, host, hist
<1>2. /\ Body /\ ~Body' /\ ~Streaming' /\ ~Dropping' /\ ~Headed /\ ~Headed' /\ ~Sending /\ ~Sending'
      /\ ~Opening /\ ~Opening' /\ ~Closing /\ ~Closing' /\ Idling' /\ Idling
    BY <1>1 DEF Body, Headed, Streaming, Dropping, Opening, Closing, Sending, Idling
<1>3. eth /\ (hpc = "idle" => (ready => eth))
    BY <1>1, <1>2 DEF IInv, Places
<1>4. cr = "none"
    BY <1>1, <1>3 DEF IInv, Chip, Live
<1>5. rxrd \in 0..Mod - 1 /\ rxat \in 0..Mod - 1 /\ dlen \in 0..Mod - 1 /\ dlen \in Nat /\ dlen \in 0..Ring
    <2>1. rxrd \in 0..Mod - 1 /\ rxat \in 0..Mod - 1 /\ dlen \in 0..Mod - 1 /\ dlen + 2 <= Ring
        BY <1>2 DEF IInv, TypeOK, Ringed
    <2> QED BY <2>1, Sizes
<1>6. TypeOK'
    <2>1. rxrd + dlen \in Nat /\ 0 \in 0..Mod - 1 /\ Len(seen') <= 3
        BY <1>1, <1>5, Sizes
    <2>2. rxrd' \in 0..Mod - 1
        BY <1>1, <2>1, Sizes, DivMod
    <2> QED BY <1>1, <2>1, <2>2 DEF IInv, TypeOK, tx
<1>7. Places'
    BY <1>1, <1>2, <1>3 DEF IInv, Places, port
<1>8. Locals'
    BY <1>1, <1>2 DEF Locals
<1>9. Doing'
    BY <1>2 DEF Doing
<1>10. Chip'
    <2>1. ~OnItsWay /\ ~OnItsWay' /\ ~sending'
        BY <1>1, <1>2, <1>3 DEF IInv, Chip, Live, OnItsWay
    <2> QED BY <1>1, <1>2, <1>3, <2>1 DEF IInv, Chip, Live, CommandOf, tx
<1>11. Filling'
    BY <1>1 DEF Filling
<1>12. Ringed'
    <2>1. PICK lag \in 0..Ring : \E p \in [1..Len(waiting) + 1 -> 0..Ring] : Lies(lag, p)
        BY <1>3 DEF IInv, Ringed, Live
    <2>2. PICK p \in [1..Len(waiting) + 1 -> 0..Ring] : Lies(lag, p)
        BY <2>1
    <2>3. lag = 0 /\ rxrd = (rxat + lag) % Mod /\ p[1] = lag + dlen
        BY <1>2, <1>4, <2>2 DEF Lies
    <2>4. rxrd = rxat /\ p[1] = dlen
        <3>1. rxat + 0 = rxat /\ rxat % Mod = rxat /\ 0 + dlen = dlen
            BY <1>5, Sizes, SmallMod
        <3> QED BY <2>3, <3>1
    <2>5. PICK d \in 0..Ring : d = dlen
        BY <1>5
    <2>6. rxrd' = (rxat' + d) % Mod /\ p[1] = d + (IF Body' THEN dlen' ELSE 0) /\ cr' = "RECV"
        BY <1>1, <1>2, <1>5, <2>4, <2>5
    <2>7. \A j : View(j)' = View(j)
        BY <1>1 DEF View
    <2>8. Lies(d, p)'
        BY <1>1, <1>2, <2>2, <2>6, <2>7 DEF Lies
    <2> QED BY <1>1, <1>2, <2>5, <2>8 DEF IInv, Ringed
<1>13. Turn'
    <2>1. Served' = Served
        BY <1>1, <1>2 DEF Served, Taken, Whole
    <2>2. ASSUME NEW f, held = {f} PROVE Made(f)' = Made(f)
        <3>1. AnswerSize(f)' = AnswerSize(f) /\ Made(f)' = AnswerSize(f)
            BY <1>1, <1>2 DEF Made, AnswerSize
        <3>2. CASE apc = "ignore"
            BY <1>2, <3>1, <3>2 DEF Made, Streaming
        <3>3. CASE apc = "stream"
            <4>1. Streaming
                BY <3>3 DEF Streaming
            <4>2. req.op = "poll" /\ Len(f) = dlen /\ n = dlen
                BY <1>1, <2>2, <3>3, <4>1, Delivered
            <4> QED BY <1>2, <3>1, <4>1, <4>2 DEF Made, AnswerSize
        <3> QED BY <1>1, <3>2, <3>3
    <2> QED BY <1>1, <2>1, <2>2, TurnSame
<1> QED BY <1>6, <1>7, <1>8, <1>9, <1>10, <1>11, <1>12, <1>13 DEF IInv

LEMMA ResetKeeps == ASSUME IInv, Reset PROVE IInv'
<1>1. /\ toArd' = <<>> /\ toHost' = <<>> /\ offer' = <<>>
      /\ hpc' = "idle" /\ todo' = <<>> /\ got' = <<>> /\ ready' = FALSE
      /\ req' = [op |-> "init", frame |-> <<>>, limit |-> 0]
      /\ apc' = "loop" /\ after' = "loop" /\ out' = <<>> /\ cmd' = 0 /\ eth' = FALSE
      /\ len' = 0 /\ n' = 0 /\ seen' = <<>> /\ val' = 0 /\ dlen' = 0 /\ held' = {}
      /\ UNCHANGED <<regs, rx, tx, waiting>>
    BY DEF Reset, Forget, Port!Restart
<1>2. /\ ~Body' /\ ~Streaming' /\ ~Dropping' /\ ~Headed' /\ ~Sending' /\ ~Opening' /\ ~Closing' /\ Idling' /\ ~Live'
    BY <1>1 DEF Body, Headed, Streaming, Dropping, Opening, Closing, Sending, Idling, Live
<1>3. TypeOK'
    <2>1. 0 \in 0..Mod - 1 /\ Len(seen') <= 3 /\ Len(out') <= 2
        BY <1>1, Sizes
    <2>2. req' \in Requests /\ got' \in Seq(Bytes) /\ todo' \in Seq(Bytes \cup {InitCmd, PollCmd, SendCmd})
        BY <1>1 DEF Requests
    <2> QED BY <1>1, <2>1, <2>2 DEF IInv, TypeOK, regs, rx, tx
<1>4. Places' /\ Locals' /\ Doing'
    BY <1>1, <1>2 DEF Places, Locals, Doing
<1>5. Chip'
    BY <1>1, <1>2 DEF IInv, Chip, regs, tx
<1>6. Filling'
    BY <1>1 DEF Filling
<1>7. Ringed'
    BY <1>1, <1>2 DEF IInv, Ringed
<1>8. Turn'
    <2>1. toArd' \in Seq(Data) /\ toHost' \in Seq(Bytes) /\ Len(toArd') = 0 /\ Len(toHost') = 0 /\ Len(offer') = 0
        BY <1>1
    <2> QED BY <1>1, <2>1 DEF Turn
<1> QED BY <1>3, <1>4, <1>5, <1>6, <1>7, <1>8 DEF IInv

\* The header that is read is that of the oldest frame.
LEMMA HeaderRead ==
    ASSUME IInv, eth, ~Body, cr = "none", waiting # <<>>
    PROVE  /\ Head(waiting) \in Arrivals /\ Header = Len(Head(waiting)) + 2 /\ rxrd = rxat
<1>1. PICK lag \in 0..Ring : \E p \in [1..Len(waiting) + 1 -> 0..Ring] : Lies(lag, p)
    BY DEF IInv, Ringed, Live
<1>2. PICK p \in [1..Len(waiting) + 1 -> 0..Ring] : Lies(lag, p)
    BY <1>1
<1>3. lag = 0 /\ p[1] = 0 /\ rxrd = (rxat + 0) % Mod
    BY <1>2 DEF Lies
<1>4. rxat \in 0..Mod - 1 /\ rxat \in Nat
    BY Sizes DEF IInv, TypeOK
<1>5. rxrd = rxat
    <2>1. rxat + 0 = rxat /\ rxat % Mod = rxat
        BY <1>4, Sizes, SmallMod
    <2> QED BY <1>3, <2>1
<1>6. 1 \in 1..Len(waiting) /\ Head(waiting) = waiting[1] /\ waiting[1] \in Arrivals
    BY DEF IInv, Ringed
<1>7. PICK f \in Arrivals : f = waiting[1]
    BY <1>6
<1>8. f \in Seq(Bytes) /\ Len(f) \in Nat /\ Len(f) + 2 \in 0..Mod - 1
    <2>1. f \in Seq(Bytes) /\ Len(f) + 2 <= Ring
        BY FramesAssumption
    <2> QED BY <2>1, Sizes
<1>9. Stored(f)[1] = Hi(Len(f) + 2) /\ Stored(f)[2] = Lo(Len(f) + 2)
    <2> DEFINE h == Hi(Len(f) + 2)
               l == Lo(Len(f) + 2)
    <2>1. h \in Bytes /\ l \in Bytes /\ Stored(f) = <<h, l>> \o f
        BY <1>8, TwoBytes DEF Stored
    <2> HIDE DEF h, l
    <2>2. (<<h, l>> \o f)[1] = h /\ (<<h, l>> \o f)[2] = l
        BY <1>8, <2>1
    <2> QED BY <2>1, <2>2 DEF h, l
<1>10. View(0) = Stored(f)[1] /\ View(1) = Stored(f)[2]
    <2>1. \A k \in 1..Len(waiting[1]) + 2 : View(p[1] + k - 1) = Stored(waiting[1])[k]
        BY <1>2, <1>6 DEF Lies
    <2>2. 1 \in 1..Len(f) + 2 /\ 2 \in 1..Len(f) + 2 /\ 0 + 1 - 1 = 0 /\ 0 + 2 - 1 = 1
        BY <1>8
    <2>3. View(p[1] + 1 - 1) = Stored(f)[1] /\ View(p[1] + 2 - 1) = Stored(f)[2]
        BY <1>7, <2>1, <2>2
    <2> QED BY <1>3, <2>2, <2>3
<1>11. Header = Base * Hi(Len(f) + 2) + Lo(Len(f) + 2)
    <2>1. rxat + 0 = rxat
        BY <1>4
    <2> QED BY <1>5, <1>9, <1>10, <2>1 DEF Header, View
<1>12. Lo(Len(f) + 2) + Base * Hi(Len(f) + 2) = Len(f) + 2 /\ Lo(Len(f) + 2) \in Nat /\ Base * Hi(Len(f) + 2) \in Nat
    <2>1. PICK w \in 0..Mod - 1 : w = Len(f) + 2
        BY <1>8
    <2>2. Lo(w) \in Bytes /\ Hi(w) \in Bytes /\ Lo(w) + Base * Hi(w) = w
        BY TwoBytes
    <2>3. Lo(w) \in Nat /\ Base * Hi(w) \in Nat
        BY <2>2, Sizes DEF Bytes
    <2> QED BY <2>1, <2>2, <2>3
<1>13. Header = Len(f) + 2
    BY <1>11, <1>12
<1> QED BY <1>5, <1>6, <1>7, <1>13

LEMMA HeadRinged ==
    ASSUME IInv, ReadHead, eth, ~Body, cr = "none", waiting # <<>>, Body',
           NEW f, f = Head(waiting), f \in Arrivals, dlen' = Len(f)
    PROVE  Ringed'
<1>1. /\ rxrd' = (rxrd + 2) % Mod /\ cr' = "RECV" /\ len' = len
      /\ held' = {IF Len(f) <= len THEN f ELSE <<>>} /\ waiting' = Tail(waiting)
      /\ rxbuf' = rxbuf /\ rxat' = rxat /\ rxwr' = rxwr
    BY DEF ReadHead, Command, TakeOldest
<1>2. rxrd = rxat
    BY HeaderRead
<1>3. PICK lag \in 0..Ring : \E p \in [1..Len(waiting) + 1 -> 0..Ring] : Lies(lag, p)
    BY DEF IInv, Ringed, Live
<1>4. PICK p \in [1..Len(waiting) + 1 -> 0..Ring] : Lies(lag, p)
    BY <1>3
<1>5. lag = 0 /\ p[1] = 0
    BY <1>4 DEF Lies
<1>6. PICK m \in Nat : Len(waiting) = m + 1
    <2>1. waiting \in Seq(Arrivals)
        BY DEF IInv, Ringed
    <2> DEFINE k == Len(waiting)
    <2>2. k \in Nat /\ k # 0
        BY <2>1
    <2> HIDE DEF k
    <2>3. k - 1 \in Nat /\ k = (k - 1) + 1
        BY <2>2
    <2> QED BY <2>3 DEF k
<1>7. /\ Len(waiting') = m /\ waiting' \in Seq(Arrivals) /\ f = waiting[1]
      /\ \A i \in 1..m : waiting'[i] = waiting[i + 1]
    <2>1. waiting \in Seq(Arrivals)
        BY DEF IInv, Ringed
    <2> QED BY <1>1, <1>6, <2>1
<1>8. f \in Seq(Bytes) /\ Len(f) \in Nat /\ Len(f) + 2 <= Ring
    BY FramesAssumption
<1>9. /\ \A i \in 1..m + 2 : p[i] \in 0..Ring /\ p[i] \in Nat
      /\ \A i \in 1..m + 1 : i + 1 \in 1..m + 2 /\ p[i + 1] = p[i] + Len(waiting[i]) + 2
      /\ rxat \in 0..Mod - 1
    <2>1. m + 1 + 1 = m + 2
        OBVIOUS
    <2> QED BY <1>4, <1>6, <2>1, Pointers
<1>10. PICK q \in [1..m + 1 -> 0..Ring] : \A i \in 1..m + 1 : q[i] = p[i + 1]
    <2> DEFINE q == [i \in 1..m + 1 |-> p[i + 1]]
    <2>1. ASSUME NEW i \in 1..m + 1 PROVE p[i + 1] \in 0..Ring
        BY <1>9
    <2>2. q \in [1..m + 1 -> 0..Ring] /\ \A i \in 1..m + 1 : q[i] = p[i + 1]
        BY <2>1
    <2> HIDE DEF q
    <2> QED BY <2>2
<1>11. q[1] = 2 + Len(f)
    <2>1. 1 \in 1..m + 1 /\ 1 + 1 = 2
        OBVIOUS
    <2>2. q[1] = p[1 + 1] /\ p[1 + 1] = p[1] + Len(waiting[1]) + 2
        BY <1>9, <1>10, <2>1
    <2>3. q[1] = 0 + Len(f) + 2
        BY <1>5, <1>7, <2>2
    <2> QED BY <1>8, <2>3
<1>12. ASSUME NEW i \in 1..m PROVE q[i + 1] = q[i] + Len(waiting'[i]) + 2
    <2>1. i \in 1..m + 1 /\ i + 1 \in 1..m + 1
        OBVIOUS
    <2>2. q[i] = p[i + 1] /\ q[i + 1] = p[(i + 1) + 1]
        BY <1>10, <2>1
    <2>3. p[(i + 1) + 1] = p[i + 1] + Len(waiting[i + 1]) + 2
        BY <1>9, <2>1
    <2> QED BY <1>7, <2>2, <2>3
<1>13. ASSUME NEW i \in 1..m + 1, NEW j \in 1..m + 1, i <= j PROVE q[i] <= q[j]
    <2>1. i + 1 \in 1..Len(waiting) + 1 /\ j + 1 \in 1..Len(waiting) + 1 /\ i + 1 <= j + 1
        BY <1>6, <1>13
    <2>2. \A x, y \in 1..Len(waiting) + 1 : x <= y => p[x] <= p[y]
        BY <1>4 DEF Lies
    <2>3. p[i + 1] <= p[j + 1]
        BY <2>1, <2>2
    <2> QED BY <1>10, <2>3
<1>14. q[m + 1] <= Ring /\ rxwr' = (rxat' + q[m + 1]) % Mod
    <2>1. p[m + 1 + 1] <= Ring /\ rxwr = (rxat + p[m + 1 + 1]) % Mod
        BY <1>4, <1>6 DEF Lies
    <2>2. m + 1 \in 1..m + 1 /\ q[m + 1] = p[m + 1 + 1]
        BY <1>10
    <2> QED BY <1>1, <2>1, <2>2
<1>15. ASSUME NEW i \in 1..m, NEW k \in 1..Len(waiting'[i]) + 2
       PROVE  View(q[i] + k - 1) = Stored(waiting'[i])[k]
    <2>1. i + 1 \in 1..Len(waiting) /\ i \in 1..m + 1 /\ waiting'[i] = waiting[i + 1] /\ q[i] = p[i + 1]
        BY <1>6, <1>7, <1>10
    <2>2. View(p[i + 1] + k - 1) = Stored(waiting[i + 1])[k]
        BY <1>4, <1>15, <2>1 DEF Lies
    <2> QED BY <2>1, <2>2
<1>16. ASSUME NEW k \in 1..Len(f) PROVE View(2 + k - 1) = f[k]
    <2>1. k + 2 \in 1..Len(f) + 2 /\ 1 \in 1..Len(waiting) /\ 0 + (k + 2) - 1 = 2 + k - 1
        BY <1>6, <1>8
    <2>2. View(p[1] + (k + 2) - 1) = Stored(f)[k + 2]
        BY <1>4, <1>7, <2>1 DEF Lies
    <2>3. Stored(f)[k + 2] = f[k]
        <3> DEFINE h == Hi(Len(f) + 2)
                   l == Lo(Len(f) + 2)
                   s == <<h, l>>
        <3>1. h \in Bytes /\ l \in Bytes
            <4>1. Len(f) + 2 \in 0..Mod - 1
                BY <1>8, Sizes
            <4> QED BY <4>1, TwoBytes
        <3>2. Stored(f) = s \o f
            BY DEF Stored
        <3> HIDE DEF h, l
        <3>3. s \in Seq(Bytes) /\ Len(s) = 2
            BY <3>1
        <3> HIDE DEF s
        <3>4. \A i \in 1..Len(s) + Len(f) : (s \o f)[i] = IF i <= Len(s) THEN s[i] ELSE f[i - Len(s)]
            BY <1>8, <3>3, Concats
        <3>5. k + 2 \in 1..2 + Len(f) /\ ~(k + 2 <= 2) /\ (k + 2) - 2 = k
            BY <1>8
        <3> QED BY <3>2, <3>3, <3>4, <3>5
    <2>4. p[1] + (k + 2) - 1 = 2 + k - 1
        BY <1>5, <2>1
    <2> QED BY <2>2, <2>3, <2>4
<1>17. \A j : View(j)' = View(j)
    BY <1>1 DEF View
<1>18. Lies(2, q)'
    <2>1. rxrd' = (rxat' + 2) % Mod /\ cr' = "RECV" /\ q[1] = 2 + dlen'
        BY <1>1, <1>2, <1>11
    <2>2. \A g \in held' : IF dlen' <= len' THEN Len(g) = dlen' /\ \A k \in 1..dlen' : View(2 + k - 1) = g[k]
                                             ELSE g = <<>>
        BY <1>1, <1>16
    <2>3. Len(waiting') + 1 = m + 1
        BY <1>7
    <2> QED BY <1>7, <1>12, <1>13, <1>14, <1>15, <1>17, <2>1, <2>2, <2>3 DEF Lies
<1>19. 2 \in 0..Ring /\ q \in [1..Len(waiting') + 1 -> 0..Ring] /\ dlen' + 2 <= Ring
    BY <1>7, <1>8, Sizes
<1> QED BY <1>7, <1>18, <1>19 DEF Ringed

LEMMA ReadHeadKeeps == ASSUME IInv, ReadHead PROVE IInv'
<1>1. /\ apc = "sized" /\ cmd = PollCmd /\ val > 0
      /\ dlen' = (Header + Mod - 2) % Mod /\ rxrd' = (rxrd + 2) % Mod
      /\ cr' = "RECV" /\ apc' = "cr" /\ after' = "length" /\ TakeOldest
      /\ len' = len /\ n' = n /\ seen' = seen /\ val' = val
      /\ UNCHANGED port /\ out' = out /\ cmd' = cmd /\ eth' = eth
      /\ chip' = chip /\ ir' = ir /\ sr' = sr /\ sending' = sending
      /\ hpc' = hpc /\ req' = req /\ todo' = todo /\ got' = got /\ ready' = ready
      /\ rxbuf' = rxbuf /\ rxat' = rxat /\ rxwr' = rxwr /\ UNCHANGED tx
    BY DEF ReadHead, Command, host
<1>2. /\ hpc # "idle" /\ held = {} /\ Nothing /\ eth /\ cr = "none"
      /\ req.op \in {"poll", "send"} /\ cmd = CmdOf(req.op) /\ len = Wanted
    BY <1>1, SizesTold
<1>3. req.op = "poll"
    BY <1>1, <1>2, Codes DEF CmdOf
<1>4. /\ ~Body /\ Body' /\ ~Streaming' /\ ~Dropping' /\ ~Headed /\ Headed' /\ ~Sending /\ ~Sending'
      /\ ~Opening /\ ~Opening' /\ ~Closing /\ ~Closing' /\ ~Idling' /\ ~Idling
    BY <1>1 DEF Body, Headed, Streaming, Dropping, Opening, Closing, Sending, Idling
<1>5. waiting # <<>>
    BY <1>1, Sizes DEF IInv, Filling
<1>6. PICK f \in Arrivals : f = Head(waiting) /\ Header = Len(f) + 2
    BY <1>2, <1>4, <1>5, HeaderRead
<1>7. f \in Seq(Bytes) /\ Len(f) \in Nat /\ Len(f) + 2 <= Ring /\ Len(f) \in 0..Mod - 1
    <2>1. f \in Seq(Bytes) /\ Len(f) + 2 <= Ring
        BY FramesAssumption
    <2> QED BY <2>1, Sizes
<1>8. dlen' = Len(f)
    <2>1. PICK L \in 0..Mod - 1 : L = Len(f)
        BY <1>7
    <2>2. Mod \in Nat /\ Mod + L \in Mod..2 * Mod - 1 /\ (Mod + L) - Mod = L /\ (L + 2) + Mod - 2 = Mod + L
        BY Sizes
    <2>3. (Mod + L) % Mod = L
        BY <2>2, Sizes, OverMod
    <2>4. Header = L + 2
        BY <1>6, <2>1
    <2> QED BY <1>1, <2>1, <2>2, <2>3, <2>4
<1>9. PICK g : held' = {g} /\ (g = f \/ g = <<>>)
    BY <1>1, <1>5, <1>6 DEF TakeOldest
<1>10. n = 0 /\ seen = <<>> /\ out = <<>> /\ offer = <<>>
    BY <1>1, <1>2, <1>4 DEF IInv, Locals, Nothing, Body
<1>11. TypeOK'
    <2>1. rxrd + 2 \in Nat
        BY Sizes DEF IInv, TypeOK
    <2>2. rxrd' \in 0..Mod - 1 /\ dlen' \in 0..Mod - 1
        BY <1>1, <1>7, <1>8, <2>1, Sizes, DivMod
    <2> QED BY <1>1, <2>2 DEF IInv, TypeOK, tx
<1>12. Places'
    BY <1>1, <1>2, <1>4, <1>10 DEF Places, port
<1>13. Locals'
    BY <1>1, <1>4, <1>10 DEF Locals
<1>14. Doing'
    BY <1>1, <1>2, <1>3, <1>4, <1>9 DEF Doing, Wanted
<1>15. Chip'
    BY <1>1, <1>2, <1>4 DEF IInv, Chip, Live, OnItsWay, CommandOf, tx
<1>16. Filling'
    BY <1>1 DEF IInv, Filling
<1>17. Ringed'
    BY <1>2, <1>4, <1>5, <1>6, <1>8, HeadRinged
<1>18. Turn'
    <2>1. Served' = Served
        <3>1. Served = 3 /\ Served' = Whole'
            BY <1>1, <1>2, <1>4, <1>9 DEF Served, Taken
        <3>2. Whole' = Whole
            BY <1>1 DEF Whole
        <3>3. Whole = 3
            <4>1. req \in Requests /\ req.op # "init" /\ req.op # "send"
                BY <1>3, WholeType
            <4>2. Len(Asked(req)) = 3 + (IF req.op = "send" THEN Len(req.frame) ELSE 0)
                BY <4>1, AskedWord
            <4> QED BY <4>1, <4>2 DEF Whole
        <3> QED BY <3>1, <3>2, <3>3
    <2>2. Made(g)' = 0
        BY <1>4 DEF Made
    <2>3. FrameOk(g)
        <3>1. FrameOk(<<>>)
            BY Empty
        <3>2. FrameOk(f)
            BY <1>3, <1>7, Sizes DEF FrameOk
        <3> QED BY <1>9, <3>1, <3>2
    <2>4. out' = <<>> /\ out' \in Seq(Bytes) /\ Len(out') = 0
        BY <1>1, <1>10
    <2> QED BY <1>1, <1>2, <1>9, <2>1, <2>2, <2>3, <2>4, TurnAnswer
<1> QED BY <1>11, <1>12, <1>13, <1>14, <1>15, <1>16, <1>17, <1>18 DEF IInv

-----------------------------------------------------------------------------
(* The inductive invariant. *)

LEMMA Starts == Init => IInv
<1> SUFFICES ASSUME Init PROVE IInv
    OBVIOUS
<1>1. /\ toArd = <<>> /\ toHost = <<>> /\ offer = <<>>
      /\ hpc = "idle" /\ todo = <<>> /\ got = <<>> /\ ready = FALSE
      /\ req = [op |-> "init", frame |-> <<>>, limit |-> 0]
      /\ apc = "loop" /\ after = "loop" /\ out = <<>> /\ cmd = 0 /\ eth = FALSE
      /\ len = 0 /\ n = 0 /\ seen = <<>> /\ val = 0 /\ dlen = 0
      /\ chip \in Chips /\ cr = "none" /\ sr = "closed" /\ ir = {} /\ sending = FALSE
      /\ rxbuf = Blank /\ rxrd = 0 /\ rxat = 0 /\ rxwr = 0
      /\ txbuf = Blank /\ txwr = 0 /\ txrd = 0 /\ waiting = <<>> /\ held = {}
    BY DEF Init, Port!Init
<1>2. /\ ~Body /\ ~Streaming /\ ~Dropping /\ ~Headed /\ ~Sending /\ ~Opening /\ ~Closing /\ Idling /\ ~Live
    BY <1>1 DEF Body, Headed, Streaming, Dropping, Opening, Closing, Sending, Idling, Live
<1>3. TypeOK
    <2>1. 0 \in 0..Mod - 1 /\ Len(seen) <= 3 /\ Len(out) <= 2 /\ chip \in BOOLEAN
        BY <1>1, Sizes, FramesAssumption
    <2>2. req \in Requests /\ got \in Seq(Bytes) /\ todo \in Seq(Bytes \cup {InitCmd, PollCmd, SendCmd})
        BY <1>1 DEF Requests
    <2>3. Blank \in [0..Ring - 1 -> Bytes]
        BY Codes DEF Blank
    <2> QED BY <1>1, <2>1, <2>2, <2>3 DEF TypeOK
<1>4. Places /\ Locals /\ Doing
    BY <1>1, <1>2 DEF Places, Locals, Doing
<1>5. Chip
    <2>1. 0 + Mod - 0 = Mod /\ Mod % Mod = 0
        BY Sizes, OverMod
    <2>2. (txwr + Mod - txrd) % Mod = 0
        BY <1>1, <2>1
    <2> QED BY <1>1, <1>2, <2>2, Sizes DEF Chip
<1>6. Filling
    BY <1>1 DEF Filling
<1>7. Ringed
    BY <1>1, <1>2 DEF Ringed
<1>8. Turn
    <2>1. toArd \in Seq(Data) /\ toHost \in Seq(Bytes) /\ Len(toArd) = 0 /\ Len(toHost) = 0 /\ Len(offer) = 0
        BY <1>1
    <2> QED BY <1>1, <2>1 DEF Turn
<1> QED BY <1>3, <1>4, <1>5, <1>6, <1>7, <1>8 DEF IInv

LEMMA RestsKeep == ASSUME IInv, UNCHANGED vars PROVE IInv'
<1>1. /\ UNCHANGED <<toArd, toHost, offer, hpc, req, todo, got, ready, apc, after, out, cmd, eth>>
      /\ UNCHANGED <<len, n, seen, val, dlen, chip, cr, sr, ir, sending, rxbuf, rxrd, rxat, rxwr>>
      /\ UNCHANGED <<txbuf, txwr, txrd, waiting, held, wire>>
    BY DEF vars
<1>2. Places' /\ Locals' /\ Turn' /\ Doing'
    BY <1>1, ChipOnly DEF port, host, place, local
<1>3. Ringed'
    BY <1>1, RingKept DEF IInv, rx, Live, Opening, Body, Headed, Streaming, Dropping
<1>4. TypeOK'
    BY <1>1 DEF IInv, TypeOK
<1>5. Chip'
    BY <1>1 DEF IInv, Chip, Live, Opening, Closing, Sending, OnItsWay, CommandOf
<1>6. Filling'
    BY <1>1 DEF IInv, Filling
<1> QED BY <1>2, <1>3, <1>4, <1>5, <1>6 DEF IInv

LEMMA Steps == IInv /\ [Next]_vars => IInv'
<1> SUFFICES ASSUME IInv, [Next]_vars PROVE IInv'
    OBVIOUS
<1>1. CASE \E c \in Requests : Call(c)
    BY <1>1, CallKeeps
<1>2. CASE HostStep
    BY <1>2, PutKeeps, TakeKeeps DEF HostStep
<1>3. CASE ChipStep
    BY <1>3, RunKeeps, TransmitKeeps DEF ChipStep
<1>4. CASE \E f \in Arrivals : Arrive(f)
    BY <1>4, ArriveKeeps
<1>5. CASE Sketch
    <2>1. CASE \E b \in Bytes \cup {InitCmd, PollCmd, SendCmd} :
                  LoopByte(b) \/ LenLo(b) \/ LenHi(b) \/ MacByte(b) \/ Fill(b)
        BY <2>1, LoopKeeps, LenLoKeeps, LenHiKeeps, MacKeeps, FillKeeps DEF Data
    <2>2. CASE Offer \/ Put \/ CommandDone \/ End \/ Begin \/ Opened
        BY <2>2, OfferKeeps, StrobeKeeps, DoneKeeps, EndKeeps, BeginKeeps, OpenedKeeps
    <2>3. CASE ReadSize \/ NoFrame \/ ReadHead \/ Drop \/ Deliver \/ Stream \/ Consume
        BY <2>3, ReadSizeKeeps, NoFrameKeeps, ReadHeadKeeps, DropKeeps, DeliverKeeps, StreamKeeps, ConsumeKeeps
    <2>4. CASE TrySend \/ Filled \/ Sent
        BY <2>4, TrySendKeeps, FilledKeeps, SentKeeps
    <2> QED BY <1>5, <2>1, <2>2, <2>3, <2>4 DEF Sketch
<1>6. CASE Reset
    BY <1>6, ResetKeeps
<1>7. CASE UNCHANGED vars
    BY <1>7, RestsKeep
<1> QED BY <1>1, <1>2, <1>3, <1>4, <1>5, <1>6, <1>7 DEF Next

\* Where every byte of the port, the sketch and the chip belongs, and what it is.
THEOREM Inductive == Spec => []IInv
<1> QED BY Starts, Steps, PTL DEF Spec

\* The invariant implies every part of DriverSound.
LEMMA InvInStep == IInv => InStep
<1> SUFFICES ASSUME IInv PROVE InStep
    OBVIOUS
<1>1. ASSUME apc = "loop", toArd # <<>> PROVE toArd[1] \in {InitCmd, PollCmd, SendCmd}
    <2>1. toArd = <<toArd[1]>>
        BY <1>1, WholeType, Short
    <2>2. PICK b : toArd = <<b>> /\ toArd[1] = b
        BY <2>1
    <2>3. b = Asked(req)[Served + 1] /\ Served = 0
        BY <1>1, <2>2, Reading
    <2>4. b = Asked(req)[1]
        BY <2>3
    <2>5. req \in Requests /\ req.op \in {"init", "poll", "send"}
        BY WholeType, RequestType
    <2>6. Asked(req)[1] = CmdOf(req.op)
        BY <2>5, AskedInit, AskedWord DEF CmdOf
    <2> QED BY <2>2, <2>4, <2>5, <2>6 DEF CmdOf
<1>2. ASSUME hpc = "idle" PROVE toArd = <<>> /\ toHost = <<>> /\ offer = <<>>
    <2>1. Idling
        BY <1>2 DEF IInv, Places
    <2> QED BY <1>2, <2>1 DEF IInv, Turn, Places, Idling
<1> QED BY <1>1, <1>2 DEF InStep

LEMMA InvAligned == IInv => Aligned
<1> SUFFICES ASSUME IInv PROVE Aligned
    OBVIOUS
<1>1. ASSUME eth, apc = "loop" \/ (apc = "sized" /\ cmd = PollCmd)
      PROVE  /\ rxrd = rxat /\ (waiting = <<>> <=> rxwr = rxrd)
             /\ waiting # <<>> => Header = Len(Head(waiting)) + 2
    <2>1. ~Body /\ ~Opening /\ ~Closing
        BY <1>1 DEF Body, Headed, Streaming, Dropping, Opening, Closing
    <2>2. cr = "none"
        BY <1>1 DEF IInv, Chip, Live
    <2>3. PICK lag \in 0..Ring : \E p \in [1..Len(waiting) + 1 -> 0..Ring] : Lies(lag, p)
        BY <1>1 DEF IInv, Ringed, Live
    <2>4. PICK p \in [1..Len(waiting) + 1 -> 0..Ring] : Lies(lag, p)
        BY <2>3
    <2>5. lag = 0 /\ p[1] = 0 /\ rxrd = (rxat + 0) % Mod
        BY <2>1, <2>2, <2>4 DEF Lies
    <2>6. rxat \in 0..Mod - 1
        BY DEF IInv, TypeOK
    <2>7. rxrd = rxat
        <3>1. rxat + 0 = rxat /\ rxat % Mod = rxat
            BY <2>6, Sizes, SmallMod
        <3> QED BY <2>5, <3>1
    <2>8. PICK T \in 0..Ring : T = p[Len(waiting) + 1]
        BY <2>4, Pointers
    <2>9. rxwr = (rxat + T) % Mod
        BY <2>4, <2>8 DEF Lies
    <2>10. ASSUME waiting = <<>> PROVE rxwr = rxrd
        <3>1. Len(waiting) + 1 = 1
            BY <2>10
        <3>2. T = 0
            BY <2>5, <2>8, <3>1
        <3> QED BY <2>5, <2>9, <3>2
    <2>11. ASSUME waiting # <<>> PROVE rxwr # rxrd
        <3>1. waiting \in Seq(Arrivals)
            BY DEF IInv, Ringed
        <3>2. 1 \in 1..Len(waiting)
            BY <2>11, <3>1
        <3>3. /\ 1 + 1 \in 1..Len(waiting) + 1 /\ p[1 + 1] = p[1] + Len(waiting[1]) + 2 /\ Len(waiting[1]) \in Nat
              /\ p[1 + 1] <= T
            BY <2>4, <2>8, <3>2, Pointers
        <3>4. T > 0 /\ T \in 0..Mod - 1
            BY <2>5, <3>3, Sizes
        <3>5. (((rxat + T) % Mod) + Mod - rxat) % Mod = T
            BY <2>6, <3>4, Sizes, Distance
        <3>6. (rxat + Mod - rxat) % Mod = 0
            <4>1. rxat + Mod - rxat = Mod /\ Mod % Mod = 0
                BY <2>6, Sizes, OverMod
            <4> QED BY <4>1
        <3>7. rxwr # rxat
            <4> SUFFICES ASSUME rxwr = rxat PROVE FALSE
                OBVIOUS
            <4>1. T = 0
                BY <2>9, <3>5, <3>6
            <4> QED BY <3>4, <4>1
        <3> QED BY <2>7, <3>7
    <2>12. waiting # <<>> => Header = Len(Head(waiting)) + 2
        BY <1>1, <2>1, <2>2, HeaderRead
    <2> QED BY <2>7, <2>10, <2>11, <2>12
<1>2. apc = "length" => dlen + 2 <= Ring
    BY DEF IInv, Ringed, Body, Headed
<1>3. ASSUME eth, apc = "loop" \/ (apc = "sized" /\ cmd = PollCmd)
      PROVE  (waiting = <<>>) = (rxwr = rxrd)
    BY <1>1, <1>3, Zenon
<1> QED BY <1>1, <1>2, <1>3 DEF Aligned

LEMMA InvSocketOpen == IInv => SocketOpen
<1> SUFFICES ASSUME IInv PROVE SocketOpen
    OBVIOUS
<1>1. eth /\ apc \notin {"cr", "end", "begin", "opened"} => sr = "macraw"
    BY DEF IInv, Chip, Opening, Closing
<1>2. (txwr + Mod - txrd) % Mod <= Ring
    BY DEF IInv, Chip
<1>3. ASSUME apc = "fill" PROVE len <= Fsr
    <2>1. eth /\ ~Sending
        BY <1>3 DEF IInv, Places, Opening, Sending
    <2>2. txrd = txwr /\ txwr \in 0..Mod - 1
        BY <2>1 DEF IInv, TypeOK, Chip, Live
    <2>3. txwr + Mod - txwr = Mod /\ Mod % Mod = 0
        BY <2>2, Sizes, OverMod
    <2>4. Fsr = Ring - 0
        BY <2>2, <2>3 DEF Fsr
    <2>5. len <= Ring
        BY <1>3 DEF IInv, Filling
    <2> QED BY <2>4, <2>5, Sizes
<1> QED BY <1>1, <1>2, <1>3 DEF SocketOpen

\* DriverSound: bytes are read as what they were sent for, the read pointer stands at a
\* header outside a poll, the socket is open while the sketch believes it, and no buffer
\* is overrun; for rings, frames and bytes of every size and whenever a reset falls.
THEOREM AlwaysSound == Spec => []DriverSound
<1>1. IInv => DriverSound
    BY InvInStep, InvAligned, InvSocketOpen DEF DriverSound, IInv
<1> QED BY <1>1, Inductive, PTL

-----------------------------------------------------------------------------
(* The promises of FrameIO, step by step. *)

InProgress == IF hpc = "idle" THEN {} ELSE {req}
Decided == IF hpc = "idle" THEN {} ELSE held
Leaving == IF OnItsWay THEN {Posted} ELSE {}
Returned == IF hpc = "idle" THEN SubSeq(got, 3, Len(got)) ELSE <<>>

\* What FrameIO does not see.
LEMMA Unseen ==
    ASSUME UNCHANGED <<hpc, req, waiting, held, wire>>, hpc = "idle" => UNCHANGED got,
           OnItsWay' <=> OnItsWay, OnItsWay => UNCHANGED tx
    PROVE  UNCHANGED Promise!vars
<1>1. UNCHANGED <<InProgress, Decided, Returned, waiting, wire>>
    BY DEF InProgress, Decided, Returned
<1>2. Leaving' = Leaving
    <2>1. CASE OnItsWay
        BY <2>1 DEF Leaving, Posted, tx
    <2>2. CASE ~OnItsWay
        BY <2>2 DEF Leaving
    <2> QED BY <2>1, <2>2
<1> QED BY <1>1, <1>2 DEF Promise!vars, InProgress, Decided, Leaving, Returned, OnItsWay

\* Once the socket is open, a frame is on its way only while the sketch waits for it.
LEMMA OnlySent ==
    ASSUME IInv, eth, apc \notin {"sent", "cr"}
    PROVE  ~OnItsWay
BY DEF IInv, Chip, Live, Sending

LEMMA StartsEmpty == Init => Promise!Init
<1> SUFFICES ASSUME Init PROVE Promise!Init
    OBVIOUS
<1>1. hpc = "idle" /\ got = <<>> /\ waiting = <<>> /\ wire = <<>> /\ ~sending /\ cr # "SEND"
    BY DEF Init
<1>2. SubSeq(<<>>, 3, 0) = <<>> /\ Len(<<>>) = 0
    OBVIOUS
<1> QED BY <1>1, <1>2 DEF Promise!Init

LEMMA CallMaps == ASSUME IInv, NEW c \in Requests, Call(c) PROVE Promise!Next
<1>1. /\ hpc = "idle" /\ hpc' = "put" /\ req' = c /\ held' = {} /\ waiting' = waiting /\ wire' = wire
      /\ UNCHANGED <<regs, tx>>
    BY DEF Call
<1>2. Leaving' = Leaving
    BY <1>1 DEF Leaving, Posted, OnItsWay, regs, tx
<1>3. Promise!Invoke(c)
    BY <1>1, <1>2 DEF Promise!Invoke, Leaving, OnItsWay
<1> QED BY <1>3 DEF Promise!Next

LEMMA ArriveMaps == ASSUME IInv, NEW f \in Arrivals, Arrive(f) PROVE Promise!Next
<1>1. /\ waiting' = Append(waiting, f) /\ UNCHANGED <<host, regs, tx, held, wire>>
    BY DEF Arrive
<1>2. Leaving' = Leaving
    BY <1>1 DEF Leaving, Posted, OnItsWay, regs, tx
<1>3. Promise!Arrive(f)
    BY <1>1, <1>2 DEF Promise!Arrive, Leaving, OnItsWay, host
<1> QED BY <1>3 DEF Promise!Next

LEMMA BeginMaps == ASSUME IInv, Begin PROVE Promise!Next
<1>1. /\ apc = "begin" /\ sending' = FALSE /\ cr' = "OPEN" /\ waiting' = <<>> /\ held' = {<<>>}
      /\ UNCHANGED <<host, wire>>
    BY DEF Begin, SwReset
<1>2. hpc # "idle" /\ req.op = "init" /\ held = {}
    BY <1>1 DEF IInv, Places, Doing, Idling, Closing
<1>3. Promise!Open
    BY <1>1, <1>2 DEF Promise!Open, host
<1> QED BY <1>3 DEF Promise!Next

LEMMA SizedCall ==
    ASSUME IInv, apc = "sized", cmd = PollCmd
    PROVE  hpc # "idle" /\ req.op = "poll" /\ held = {} /\ len = req.limit /\ eth
<1>1. ~Idling
    BY DEF Idling
<1>2. hpc # "idle" /\ eth
    BY <1>1 DEF IInv, Places, Opening
<1>3. cmd = CmdOf(req.op) /\ held = {} /\ len = Wanted /\ req.op # "init"
    BY <1>1 DEF IInv, Doing
<1>4. req \in Requests
    BY DEF IInv, TypeOK
<1>5. req.op \in {"init", "poll", "send"}
    BY <1>4, RequestType
<1>6. req.op = "poll"
    BY <1>3, <1>5, Codes DEF CmdOf
<1> QED BY <1>2, <1>3, <1>6 DEF Wanted

LEMMA NoFrameMaps == ASSUME IInv, NoFrame PROVE Promise!Next
<1>1. apc = "sized" /\ cmd = PollCmd /\ held' = {<<>>} /\ UNCHANGED <<host, regs, tx, waiting, wire>>
    BY DEF NoFrame
<1>2. hpc # "idle" /\ req.op = "poll" /\ held = {}
    BY <1>1, SizedCall
<1>3. Leaving' = Leaving
    BY <1>1 DEF Leaving, Posted, OnItsWay, regs, tx
<1>4. Promise!Poll
    BY <1>1, <1>2, <1>3 DEF Promise!Poll, Leaving, OnItsWay, host
<1> QED BY <1>4 DEF Promise!Next

LEMMA ReadHeadMaps == ASSUME IInv, ReadHead PROVE Promise!Next
<1>1. /\ apc = "sized" /\ cmd = PollCmd /\ val > 0 /\ cr' = "RECV" /\ sending' = sending
      /\ TakeOldest /\ UNCHANGED <<host, len, wire>>
    BY DEF ReadHead, Command
<1>2. hpc # "idle" /\ req.op = "poll" /\ held = {} /\ len = req.limit /\ eth
    BY <1>1, SizedCall
<1>3. waiting # <<>>
    BY <1>1, Sizes DEF IInv, Filling, TypeOK
<1>4. ~OnItsWay /\ ~OnItsWay'
    BY <1>1, <1>2, OnlySent DEF OnItsWay
<1>5. /\ held' = {IF Len(Head(waiting)) <= req.limit THEN Head(waiting) ELSE <<>>}
      /\ waiting' = Tail(waiting)
    BY <1>1, <1>2, <1>3 DEF TakeOldest
<1>6. Promise!Poll
    BY <1>1, <1>2, <1>3, <1>4, <1>5 DEF Promise!Poll, OnItsWay, host
<1> QED BY <1>6 DEF Promise!Next

LEMMA Listed ==
    ASSUME NEW s \in Seq(Bytes), NEW g, g = [i \in 1..Len(s) |-> s[i]]
    PROVE  g = s
OBVIOUS

\* The chip is told of the frame that the program sent, all of it.
LEMMA FilledMaps == ASSUME IInv, Filled PROVE Promise!Next
<1>1. /\ apc = "fill" /\ n = len /\ txwr' = (txwr + len) % Mod /\ txrd' = txrd /\ txbuf' = txbuf
      /\ cr' = "SEND" /\ UNCHANGED <<host, waiting, held, wire>>
    BY DEF Filled, Command, hist
<1>2. ~Idling /\ hpc # "idle" /\ eth
    BY <1>1 DEF IInv, Places, Idling, Opening
<1>3. req.op = "send" /\ held = {} /\ len = Len(req.frame)
    BY <1>1, <1>2 DEF IInv, Doing, Wanted
<1>4. ~OnItsWay
    BY <1>1, <1>2, OnlySent
<1>5. txrd = txwr
    BY <1>2, <1>4 DEF IInv, Chip, Live
<1>6. req.frame \in Seq(Bytes) /\ len \in 0..Mod - 1 /\ txwr \in 0..Mod - 1
    <2>1. req \in Requests /\ len \in 0..Mod - 1 /\ txwr \in 0..Mod - 1
        BY DEF IInv, TypeOK
    <2> QED BY <2>1, RequestType
<1>7. (txwr' + Mod - txrd') % Mod = len
    BY <1>1, <1>5, <1>6, Distance, Sizes
<1>8. \A i \in 1..len : txbuf[(txwr + i - 1) % Ring] = req.frame[i]
    BY <1>1 DEF IInv, Filling
<1>9. Posted' = [i \in 1..len |-> txbuf[(txwr + i - 1) % Ring]]
    BY <1>1, <1>5, <1>7 DEF Posted
<1>10. Posted' = [i \in 1..len |-> req.frame[i]]
    BY <1>8, <1>9
<1>11. Posted' = req.frame
    BY <1>3, <1>6, <1>10, Listed
<1>12. Promise!Post
    BY <1>1, <1>2, <1>3, <1>4, <1>11 DEF Promise!Post, OnItsWay, host
<1> QED BY <1>12 DEF Promise!Next

LEMMA TransmitMaps == ASSUME IInv, Transmit PROVE Promise!Next
<1>1. /\ sending /\ sending' = FALSE /\ wire' \in {wire, Posted} /\ cr' = cr
      /\ held' = (IF hpc # "idle" /\ req.op = "send" THEN {<<>>} ELSE held)
      /\ UNCHANGED <<host, waiting>>
    BY DEF Transmit
<1>2. cr # "SEND"
    BY <1>1 DEF IInv, Chip
<1>3. Promise!Transmit
    BY <1>1, <1>2 DEF Promise!Transmit, host
<1> QED BY <1>3 DEF Promise!Next

\* What is left of an answer behind its two bytes of length.
LEMMA FrameOfAnswer ==
    ASSUME NEW s \in Seq(Bytes), NEW f \in Seq(Bytes), Len(s) = 2 + Len(f),
           \A i \in 1..Len(f) : s[i + 2] = f[i]
    PROVE  SubSeq(s, 3, Len(s)) = f
<1>1. SubSeq(s, 3, Len(s)) \in Seq(Bytes) /\ Len(SubSeq(s, 3, Len(s))) = Len(f)
    OBVIOUS
<1>2. ASSUME NEW i \in 1..Len(f) PROVE SubSeq(s, 3, Len(s))[i] = f[i]
    BY <1>2
<1> QED BY <1>1, <1>2

LEMMA TakeMaps == ASSUME IInv, NEW b \in Bytes, HostTake(b) PROVE [Promise!Next]_Promise!vars
<1>1. /\ hpc = "take" /\ got' = Append(got, b) /\ hpc' \in {"idle", "take"}
      /\ req' = req /\ UNCHANGED <<regs, tx, waiting, held, wire>>
    BY DEF HostTake, hist
<1>2. CASE hpc' = "take"
    BY <1>1, <1>2, Unseen DEF OnItsWay, regs
<1>3. CASE hpc' = "idle"
    <2>1. PICK f : /\ held = {f} /\ FrameOk(f) /\ f \in Seq(Bytes) /\ Len(got') = AnswerSize(f)
                   /\ \A i \in 1..Len(got') : got'[i] = AnswerByte(f, i)
        BY <1>3, TakeTold
    <2>2. got' \in Seq(Bytes)
        BY <1>1, WholeType
    <2>3. SubSeq(got', 3, Len(got')) = f
        <3>1. CASE req.op = "poll"
            <4>1. Len(got') = 2 + Len(f) /\ Len(f) \in Nat
                BY <2>1, <3>1 DEF AnswerSize
            <4>2. ASSUME NEW i \in 1..Len(f) PROVE got'[i + 2] = f[i]
                <5>1. i + 2 \in 1..Len(got') /\ i + 2 # 1 /\ i + 2 # 2 /\ (i + 2) - 2 = i
                    BY <4>1
                <5>2. got'[i + 2] = AnswerByte(f, i + 2)
                    BY <2>1, <5>1
                <5> QED BY <3>1, <5>1, <5>2 DEF AnswerByte
            <4> QED BY <2>1, <2>2, <4>1, <4>2, FrameOfAnswer
        <3>2. CASE req.op # "poll"
            <4>1. f = <<>> /\ Len(got') = 1
                BY <2>1, <3>2 DEF FrameOk, AnswerSize
            <4>2. SubSeq(got', 3, 1) = <<>>
                BY <2>2
            <4> QED BY <4>1, <4>2
        <3> QED BY <3>1, <3>2
    <2>4. Leaving' = Leaving
        BY <1>1 DEF Leaving, Posted, OnItsWay, regs, tx
    <2>5. Promise!Return
        BY <1>1, <1>3, <2>1, <2>3, <2>4 DEF Promise!Return, Leaving, OnItsWay
    <2> QED BY <2>5 DEF Promise!Next
<1> QED BY <1>1, <1>2, <1>3

LEMMA ResetMaps == ASSUME IInv, Reset PROVE Promise!Next
<1>1. hpc' = "idle" /\ got' = <<>> /\ UNCHANGED <<regs, tx, waiting, wire>>
    BY DEF Reset
<1>2. SubSeq(<<>>, 3, 0) = <<>> /\ Len(<<>>) = 0
    OBVIOUS
<1>3. Leaving' = Leaving
    BY <1>1 DEF Leaving, Posted, OnItsWay, regs, tx
<1>4. Promise!Reset
    BY <1>1, <1>2, <1>3 DEF Promise!Reset, Leaving, OnItsWay
<1> QED BY <1>4 DEF Promise!Next

\* The other steps move bytes and commands about.
LEMMA PortSteps ==
    ASSUME IInv, \/ HostPut \/ ChipRuns \/ Offer \/ Put \/ CommandDone \/ End \/ Opened \/ ReadSize
                 \/ Drop \/ Deliver \/ Stream \/ TrySend \/ Sent
    PROVE  UNCHANGED Promise!vars
<1>1. CASE HostPut
    <2>1. hpc # "idle" /\ hpc' # "idle" /\ UNCHANGED <<req, got, regs, tx, waiting, held, wire>>
        BY <1>1 DEF HostPut, hist
    <2>2. Leaving' = Leaving
        BY <2>1 DEF Leaving, Posted, OnItsWay, regs, tx
    <2> QED BY <2>1, <2>2 DEF Promise!vars, Leaving, OnItsWay
<1>2. CASE ChipRuns
    <2>1. OnItsWay' <=> OnItsWay
        BY <1>2 DEF ChipRuns, OnItsWay
    <2> QED BY <1>2, <2>1, Unseen DEF ChipRuns, host, hist
<1>3. CASE Offer \/ Put \/ CommandDone \/ End \/ Opened \/ ReadSize
    <2>1. UNCHANGED <<host, cr, sending, tx, hist>>
        BY <1>3 DEF Offer, Put, CommandDone, End, Opened, ReadSize, regs
    <2> QED BY <2>1, Unseen DEF host, hist, OnItsWay
<1>4. CASE Drop \/ Deliver \/ Stream \/ TrySend \/ Sent
    <2>1. UNCHANGED <<host, cr, sending, tx, hist>>
        BY <1>4 DEF Drop, Deliver, Stream, TrySend, Sent, regs
    <2> QED BY <2>1, Unseen DEF host, hist, OnItsWay
<1> QED BY <1>1, <1>2, <1>3, <1>4

LEMMA ByteSteps ==
    ASSUME IInv, NEW b \in Data, LoopByte(b) \/ LenLo(b) \/ LenHi(b) \/ MacByte(b) \/ Fill(b) \/ Consume
    PROVE  UNCHANGED Promise!vars
<1>1. CASE LoopByte(b) \/ LenLo(b) \/ LenHi(b)
    <2>1. UNCHANGED <<host, regs, tx, hist>>
        BY <1>1 DEF LoopByte, LenLo, LenHi
    <2> QED BY <2>1, Unseen DEF host, hist, OnItsWay, regs
<1>2. CASE MacByte(b)
    <2>1. UNCHANGED <<host, tx, hist>> /\ apc = "mac"
        BY <1>2 DEF MacByte
    <2>2. UNCHANGED <<cr, sending>> \/ (eth /\ cr' = "CLOSE" /\ sending' = sending)
        BY <1>2 DEF MacByte, Command, regs
    <2>3. OnItsWay' <=> OnItsWay
        BY <2>1, <2>2, OnlySent DEF OnItsWay
    <2> QED BY <2>1, <2>3, Unseen DEF host, hist
<1>3. CASE Fill(b)
    <2>1. UNCHANGED <<host, regs, hist>> /\ apc = "fill"
        BY <1>3 DEF Fill
    <2>2. ~OnItsWay
        BY <2>1, OnlySent DEF IInv, Places, Opening
    <2> QED BY <2>1, <2>2, Unseen DEF host, hist, OnItsWay, regs
<1>4. CASE Consume
    <2>1. UNCHANGED <<host, tx, hist>> /\ apc \in {"ignore", "stream"} /\ cr' = "RECV" /\ sending' = sending
        BY <1>4 DEF Consume, Command
    <2>2. ~OnItsWay
        BY <2>1, OnlySent DEF IInv, Places, Opening
    <2> QED BY <2>1, <2>2, Unseen DEF host, hist, OnItsWay
<1> QED BY <1>1, <1>2, <1>3, <1>4

\* Every step is one of FrameIO, or nothing to it.
LEMMA Maps == IInv /\ [Next]_vars => [Promise!Next]_Promise!vars
<1> SUFFICES ASSUME IInv, [Next]_vars PROVE [Promise!Next]_Promise!vars
    OBVIOUS
<1>1. CASE \E c \in Requests : Call(c)
    BY <1>1, CallMaps
<1>2. CASE HostStep
    BY <1>2, PortSteps, TakeMaps DEF HostStep
<1>3. CASE ChipStep
    BY <1>3, PortSteps, TransmitMaps DEF ChipStep
<1>4. CASE \E f \in Arrivals : Arrive(f)
    BY <1>4, ArriveMaps
<1>5. CASE Sketch
    <2>1. CASE \E b \in Bytes \cup {InitCmd, PollCmd, SendCmd} :
                  LoopByte(b) \/ LenLo(b) \/ LenHi(b) \/ MacByte(b) \/ Fill(b)
        BY <2>1, ByteSteps DEF Data
    <2>2. CASE Offer \/ Put \/ CommandDone \/ End \/ Opened \/ ReadSize \/ Drop \/ Deliver \/ Stream \/ TrySend \/ Sent
        BY <2>2, PortSteps
    <2>3. CASE Begin \/ NoFrame \/ ReadHead \/ Filled
        BY <2>3, BeginMaps, NoFrameMaps, ReadHeadMaps, FilledMaps
    <2>4. CASE Consume
        BY <2>4, ByteSteps, Codes DEF Data
    <2> QED BY <1>5, <2>1, <2>2, <2>3, <2>4 DEF Sketch
<1>6. CASE Reset
    BY <1>6, ResetMaps
<1>7. CASE UNCHANGED vars
    <2>1. UNCHANGED <<hpc, req, got, waiting, held, wire, cr, sending, tx>>
        BY <1>7 DEF vars, tx
    <2> QED BY <2>1, Unseen DEF OnItsWay
<1> QED BY <1>1, <1>2, <1>3, <1>4, <1>5, <1>6, <1>7 DEF Next

\* The commands keep the promises of the frame interface: a poll takes the oldest frame
\* whole or drops it, a frame goes out whole or is lost, and an answer is what the chip
\* and the sketch decided, wherever a reset cuts in.
THEOREM KeepsPromises == Spec => ImplementsFrameIO
<1> QED BY StartsEmpty, Maps, Inductive, PTL DEF Spec, ImplementsFrameIO, Promise!Spec
=============================================================================
