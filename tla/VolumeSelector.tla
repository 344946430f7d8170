--------------------------- MODULE VolumeSelector ---------------------------
(***************************************************************************)
(* The two ways to choose volumes at boot, with the slot manager they      *)
(* drive: the configuration page of the ROM (RETURN), and the volume       *)
(* selector (bootpg.asm), the program the sketch hands to the Apple when   *)
(* the space bar is pressed.  The selector tries every file number on both *)
(* drives, shows the volumes it finds, and sets what the user types, or    *)
(* what was set before when the user presses ESC.                          *)
(*                                                                         *)
(* Every call of the driver is answered (CommandLink), so a call is the    *)
(* steps the sketch takes for it.  The names on the disks do not move the  *)
(* cursor: ProDOS allows letters, digits and periods.  No card is swapped  *)
(* while the program runs (SlotManager covers swaps).                      *)
(***************************************************************************)
EXTENDS SlotManager, Sequences

CONSTANTS Rows,   \* the file numbers tried (16)
          Keys    \* the keys that are pressed

VARIABLES at,                  \* where the program is
          cv,                  \* the cursor row, and the file number it tries
          voldrive, gvoldrive, \* VOLDRIVE0 and 1, GVOLDRIVE0 and 1
          high,                \* bit 7 of UNIT
          screen,              \* screen[v][d]: the volume shown in row v for drive d
          typed,               \* history: the keys taken by the two prompts
          entry, ended         \* history: the numbers found, how the program ended

sketch == vars
apple  == <<at, cv, voldrive, gvoldrive, high, screen, typed, entry, ended>>
both   == <<sketch, apple>>
Saved  == Loaded(eeprom)

ASSUME RowsAssumption == Rows \in 1..16 /\ 1..Rows - 1 \subseteq Files

NoVolume == <<>>
Blank    == [v \in 0..Rows - 1 |-> [d \in Drives |-> NoVolume]]
Both(v)  == [d \in Drives |-> v]
Esc      == 155
NoKeys   == <<>>

AppleInit ==
    /\ at = "boot" /\ cv = 0 /\ high = FALSE
    /\ voldrive = Both(0) /\ gvoldrive = Both(0)
    /\ screen = Blank /\ typed = NoKeys
    /\ entry = [ram |-> Both(0), saved |-> Both(0)] /\ ended = "none"

SelectorInit == Init /\ AppleInit

\* RESET, at any time: the sketch starts again, and so does the boot ROM.
SelectorReset ==
    /\ Reset
    /\ at' = "boot" /\ cv' = 0 /\ high' = FALSE
    /\ voldrive' = Both(0) /\ gvoldrive' = Both(0)
    /\ screen' = Blank /\ typed' = NoKeys
    /\ entry' = [ram |-> Both(0), saved |-> Both(0)] /\ ended' = "none"

-----------------------------------------------------------------------------
\* START and GETVOL: command 5 tells which numbers are in use.
Start ==
    /\ at = "boot" /\ pc = "idle"
    /\ gvoldrive' = fileno
    /\ cv' = 0 /\ at' = "row"
    /\ entry' = [ram |-> fileno, saved |-> Saved] /\ ended' = "none"
    /\ screen' = Blank /\ typed' = NoKeys
    /\ UNCHANGED <<sketch, voldrive, high>>

\* UNITLOOP: both drives are set to the number of the row, in RAM only.
SelectRow ==
    /\ at = "row" /\ at' = "read0"
    /\ voldrive' = Both(cv)
    /\ SetVolume(6, voldrive')
    /\ UNCHANGED <<cv, gvoldrive, high, screen, typed, entry, ended>>

\* Block 2 of drive d, as do_read() finds it: "got" is whose block was read.
ReadBlock(d, got) ==
    /\ pc = "idle"
    /\ CASE state[d] = "NODEV" -> got = NoVolume /\ UNCHANGED sketch
         [] state[d] = "FILE" ->
               \E up, opened, served, err \in BOOLEAN :
                  /\ UseImage(d, up, opened, served, err)
                  /\ got = IF served THEN <<slotfile'.vol, slotfile'.name>> ELSE NoVolume
         [] OTHER -> LET socket == IF state[d] = "WIDE" THEN 0 ELSE d
                     IN  /\ got \in {NoVolume} \cup
                                    IF live[socket] THEN {<<socket, <<0, 0>>>>} ELSE {}
                         /\ UNCHANGED sketch

Volumes == {NoVolume} \cup (Drives \X HexNames)

\* READB and DISPNAME in column d: an error, or a block that is no volume
\* directory, is shown as "<NO VOLUME>".
ShowName(d, got) ==
    /\ ReadBlock(IF high THEN 1 ELSE 0, got)
    /\ \E shown \in {got, NoVolume} : screen' = [screen EXCEPT ![cv][d] = shown]

Shown == {NoVolume} \cup {<<d, HexName(v)>> : d \in Drives, v \in 0..Rows - 1}

ShowDrive0 ==
    /\ at = "read0" /\ at' = "read1"
    /\ \E got \in Shown : ShowName(0, got)
    /\ high' = TRUE
    /\ UNCHANGED <<cv, voldrive, gvoldrive, typed, entry, ended>>

\* Wrong on purpose: bit 7 of UNIT stays set.
NextRowHigh ==
    /\ high' = TRUE
    /\ IF cv + 1 < Rows THEN cv' = cv + 1 /\ at' = "row" ELSE cv' = 0 /\ at' = "key0"

\* The end of UNITLOOP; from VANITY on the rows are not used any more.
NextRow ==
    /\ high' = FALSE
    /\ IF cv + 1 < Rows THEN cv' = cv + 1 /\ at' = "row" ELSE cv' = 0 /\ at' = "key0"

ShowDrive1 ==
    /\ at = "read1"
    /\ \E got \in Shown : ShowName(1, got)
    /\ NextRow
    /\ UNCHANGED <<voldrive, gvoldrive, typed, entry, ended>>

-----------------------------------------------------------------------------
\* GETHEX: the numbers a key stands for, none if it is ignored.
Upper(k) == IF k >= 225 THEN k - 32 ELSE k           \* 'a' + 128

\* Wrong on purpose: 'G' is a digit.
NumbersG(k) ==
    IF k = 161 THEN {255}
    ELSE IF Upper(k) \in 193..199 THEN {(Upper(k) - 7) % 16}
    ELSE IF Upper(k) \in 176..185 THEN {Upper(k) % 16} ELSE {}

Numbers(k) ==
    IF k = 161 THEN {255}                             \* '!' + 128
    ELSE IF Upper(k) \in 193..198 THEN {(Upper(k) - 7) % 16}
    ELSE IF Upper(k) \in 176..185 THEN {Upper(k) % 16} ELSE {}

\* Every number that can be typed is one somebody can choose.
ASSUME KeysAssumption == Keys \subseteq 128..255 /\ \A k \in Keys : Numbers(k) \subseteq Bytes

\* GETVL, the first prompt.
TypeCard1(k) ==
    /\ at = "key0" /\ k # Esc
    /\ \E v \in Numbers(k) : voldrive' = [voldrive EXCEPT ![0] = v]
    /\ typed' = <<k>> /\ at' = "key1"
    /\ UNCHANGED <<sketch, cv, gvoldrive, high, screen, entry, ended>>

\* The second prompt, and SETVOLW: the numbers are set and saved.
TypeCard2(k) ==
    /\ at = "key1" /\ k # Esc
    /\ \E v \in Numbers(k) : voldrive' = [voldrive EXCEPT ![1] = v]
    /\ typed' = Append(typed, k)
    /\ SetVolume(7, voldrive')
    /\ at' = "reboot" /\ ended' = "chosen"
    /\ UNCHANGED <<cv, gvoldrive, high, screen, entry>>

\* Wrong on purpose: VOLDRIVE0 and 1 are not reloaded.
AbortStale ==
    /\ at \in {"key0", "key1"} /\ Esc \in Keys
    /\ SetVolume(6, voldrive)
    /\ at' = "reboot" /\ ended' = "abort"
    /\ UNCHANGED <<cv, voldrive, gvoldrive, high, screen, typed, entry>>

\* ABORT: ESC at either prompt.
Abort ==
    /\ at \in {"key0", "key1"} /\ Esc \in Keys
    /\ voldrive' = gvoldrive
    /\ SetVolume(6, voldrive')
    /\ at' = "reboot" /\ ended' = "abort"
    /\ UNCHANGED <<cv, gvoldrive, high, screen, typed, entry>>

\* REBOOT: the boot ROM runs again; the sketch goes on, the variables of the
\* program are not used again.
Reboot ==
    /\ at = "reboot" /\ pc = "idle" /\ at' = "boot"
    /\ voldrive' = Both(0) /\ gvoldrive' = Both(0) /\ screen' = Blank
    /\ UNCHANGED <<sketch, cv, high, typed, entry, ended>>

-----------------------------------------------------------------------------
\* RETURN at boot: page2 asks for the two numbers, '!' only for card 1, and has
\* no way out but RESET.
Configure ==
    /\ at = "boot" /\ pc = "idle" /\ at' = "config0"
    /\ typed' = NoKeys /\ ended' = "none"
    /\ entry' = [ram |-> Both(0), saved |-> Both(0)]
    /\ UNCHANGED <<sketch, cv, voldrive, gvoldrive, high, screen>>

ConfigCard1(k) ==
    /\ at = "config0" /\ k \in {161} \cup 176..185
    /\ at' = "config1" /\ typed' = <<k>>
    /\ voldrive' = [voldrive EXCEPT ![0] = IF k = 161 THEN 255 ELSE k % 16]
    /\ UNCHANGED <<sketch, cv, gvoldrive, high, screen, entry, ended>>

\* The numbers ($46, $47 here) go out with command 4, and the Apple boots again.
ConfigCard2(k) ==
    /\ at = "config1" /\ k \in 176..185
    /\ at' = "reboot" /\ typed' = Append(typed, k) /\ ended' = "chosen"
    /\ voldrive' = [voldrive EXCEPT ![1] = k % 16]
    /\ SetVolume(4, voldrive')
    /\ UNCHANGED <<cv, gvoldrive, high, screen, entry>>

-----------------------------------------------------------------------------
\* setup(), and what is left of a call to do_set_volume().
SketchStep ==
    /\ \/ SetupDrive0 \/ SetupDrive1
       \/ SaveSlot0 \/ SaveSlot1 \/ SaveInit
       \/ SetVolumeDrive1 \/ SetVolumeDrive0
    /\ UNCHANGED apple

ProgramStep == SelectRow \/ ShowDrive0 \/ ShowDrive1 \/ Reboot

SelectorNext ==
    \/ SelectorReset
    \/ Start \/ Configure
    \/ ProgramStep
    \/ \E k \in Keys : TypeCard1(k) \/ TypeCard2(k) \/ ConfigCard1(k) \/ ConfigCard2(k)
    \/ Abort
    \/ SketchStep

SelectorSpec == SelectorInit /\ [][SelectorNext]_both

-----------------------------------------------------------------------------
SelectorTypeOK ==
    /\ TypeOK
    /\ at \in {"boot", "row", "read0", "read1", "key0", "key1", "config0", "config1",
              "reboot"}
    /\ cv \in 0..Rows - 1 /\ high \in BOOLEAN
    /\ voldrive \in [Drives -> Bytes] /\ gvoldrive \in [Drives -> Bytes]
    /\ screen \in [0..Rows - 1 -> [Drives -> Volumes]]
    /\ typed \in {NoKeys} \cup {<<k>> : k \in Keys} \cup (Keys \X Keys)
    /\ ended \in {"none", "abort", "chosen"}

\* What the screen offers is what a choice gives: the name in row v and column d
\* was read from drive d set to number v, raw blocks for 0 and else the image
\* BLKDEVnn.PO on the card of that drive, although one FatFs mount and one open
\* image serve both drives and are switched at every cell.
RowsTrue ==
    /\ SelectorTypeOK
    /\ \A v \in 0..Rows - 1, d \in Drives :
          screen[v][d] # NoVolume => screen[v][d] = <<d, HexName(v)>>

\* The number a key shows: "!", or a hexadecimal digit in either case.
Means(k, v) ==
    \/ v = 255 /\ k = 161
    \/ v \in 0..9 /\ k = 176 + v
    \/ v \in 10..15 /\ k \in {193 + v - 10, 225 + v - 10}

\* All the numbers tried are forgotten: after ESC, at either prompt, the numbers
\* in use and the saved ones are those the program found; after two digits, here
\* or on the configuration page, both are what the keys say.
Outcome ==
    at = "boot" =>
       /\ ended = "abort" => fileno = entry.ram /\ Saved = entry.saved
       /\ ended = "chosen" => Saved = fileno /\ \A d \in Drives : Means(typed[d + 1], fileno[d])

\* The EEPROM only ever changes after the second digit, and then, whatever RESET
\* interrupts, each drive keeps its number or gets the one typed for it.
OnlyChosenSaved ==
    [][\A d \in Drives : Saved'[d] # Saved[d] =>
          ended = "chosen" /\ Means(typed[d + 1], Saved'[d])]_both
=============================================================================
