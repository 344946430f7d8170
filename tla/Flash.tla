------------------------------- MODULE Flash -------------------------------
(***************************************************************************)
(* FLASH.SYSTEM: writes the image of the ROM, appended to the program, to  *)
(* the 28C256 on the card, 64 bytes at a time.  The Apple sees 256 bytes   *)
(* of the chip; port C (3 bits) and port B (4 bits) of the 82C55 choose    *)
(* which.  The chip is protected by commands written to two of its         *)
(* addresses: six writes to allow writing, three to forbid it again.       *)
(*                                                                         *)
(* RESET or a power failure can stop the program between any two writes to *)
(* the chip, in the middle of a page too; it is started again from the     *)
(* disk.                                                                   *)
(***************************************************************************)
EXTENDS Naturals, Sequences

CONSTANTS Length,    \* romlength: the pages of 64 bytes in the file (8)
          PageBytes, \* the bytes of a page (64)
          Junk       \* what other programs leave in the zero page at $FC

\* The addresses of the commands lie beyond the image.
ASSUME LengthAssumption == Length \in 1..168
ASSUME PageAssumption   == PageBytes \in Nat \ {0}
ASSUME JunkAssumption   == Junk \subseteq 0..255 /\ Junk # {}

VARIABLES at, ioffset,      \* ioffset: where the 82C55 is, from $BFF8 on
          lochi, loclo,     \* the place in the chip, in banks of 256 and pages of 64
          romlo, stack,     \* the page in the Apple's window; what the subroutines save
          move, romlength,  \* the page of the file; the pages left
          y,                \* the bytes of the page that are written
          cmds,             \* the rest of the command sequence being sent
          bank,             \* the bits of port C and B
          control,          \* history: the ioffset of the last mode word, if any
          rom, locked, seq  \* the chip: contents, protection, the command it is reading

apple == <<ioffset, lochi, loclo, romlo, stack, move, romlength, y, cmds>>
chip  == <<rom, locked, seq>>
flashVars == <<at, ioffset, lochi, loclo, romlo, stack, move, romlength, y, cmds, bank,
               control, rom, locked, seq>>

Pages   == 0..Length - 1
Offsets == 0..PageBytes - 1

\* A byte of the chip is the number of the page of the image it came from, at its own
\* offset; "old" is what was there before, "spoilt" what nobody meant to write.
Old    == Length
Spoilt == Length + 1

-----------------------------------------------------------------------------
\* The commands, as the chip wants them: bank, byte in the bank, value.
At5555(v) == [bank |-> 85, byte |-> 85, value |-> v]
At2AAA(v) == [bank |-> 42, byte |-> 170, value |-> v]

LockCommand   == <<At5555(170), At2AAA(85), At5555(160)>>
UnlockCommand == <<At5555(170), At2AAA(85), At5555(128),
                   At5555(170), At2AAA(85), At5555(32)>>

IsCommandPrefix(s) ==
    \E c \in {LockCommand, UnlockCommand} : Len(s) <= Len(c) /\ SubSeq(c, 1, Len(s)) = s

\* One byte reaches the chip: a part of a command, or a stray write, which
\* spoils the page it falls in unless the chip is protected.
ChipByte(w) ==
    IF IsCommandPrefix(Append(seq, w))
      THEN seq' = Append(seq, w) /\ UNCHANGED <<rom, locked>>
      ELSE /\ seq' = <<>>
           /\ rom' = [i \in Pages |->
                        IF ~locked /\ i = 4 * w.bank + w.byte \div 64
                          THEN [k \in Offsets |-> Spoilt] ELSE rom[i]]
           /\ UNCHANGED locked

\* A command changes the protection, whether data follow or not.
Protection == IF seq = LockCommand THEN TRUE
              ELSE IF seq = UnlockCommand THEN FALSE ELSE locked

\* A byte of data reaches the chip.  It is stored if the chip is not protected, or if
\* a command came before the page.
ChipData(i, k, v) ==
    /\ seq' = IF seq \in {LockCommand, UnlockCommand} THEN seq ELSE <<>>
    /\ locked' = Protection
    /\ rom' = IF i \in Pages /\ (seq' # <<>> \/ (seq = <<>> /\ ~locked))
                THEN [rom EXCEPT ![i][k] = v] ELSE rom

\* The chip is left alone long enough to store what it has: the command is over.
ChipStores == seq' = <<>> /\ UNCHANGED <<rom, locked>>

-----------------------------------------------------------------------------
FlashInit ==
    /\ at = "getkey" /\ ioffset \in Junk
    /\ lochi = 0 /\ loclo = 0 /\ romlo = 0 /\ stack = <<>>
    /\ move = 0 /\ romlength = Length /\ y = 0 /\ cmds = <<>>
    /\ bank = 0 /\ control = {}
    /\ rom = [i \in Pages |-> [k \in Offsets |-> Old]] /\ locked \in BOOLEAN /\ seq = <<>>

\* The program is loaded anew; the chip has long stopped waiting for the rest of
\* a command or of a page, and the 82C55 is reset or set up by the driver.  A
\* command with no data after it takes effect, unless the power went first.
Load ==
    /\ at' = "getkey" /\ ioffset' \in Junk
    /\ lochi' = 0 /\ loclo' = 0 /\ romlo' = 0 /\ stack' = <<>>
    /\ move' = 0 /\ romlength' = Length /\ y' = 0 /\ cmds' = <<>>
    /\ bank' = 0 /\ control' = {}
    /\ seq' = <<>> /\ locked' \in {locked, Protection} /\ rom' = rom

FlashReset == at # "getkey" /\ Load

\* A slot is chosen: port B becomes an output, which clears both ports.
ChooseSlot(s) ==
    /\ at = "getkey" /\ at' = "move64"
    /\ ioffset' = 16 * s + 136
    /\ control' = {ioffset'} /\ bank' = 0
    /\ romlo' = 0 /\ move' = 0 /\ loclo' = 0 /\ lochi' = 0
    /\ UNCHANGED <<stack, romlength, y, cmds, chip>>

GiveUp ==
    /\ at = "getkey" /\ at' = "waitenter"
    /\ UNCHANGED <<apple, bank, control, chip>>

\* Wrong on purpose: the counter is tested as if it had been counted down.
LastPageLate == romlength = 0

LastPage == romlength = 1

\* move64: lock with the last page, unlock with every other one.
Move64 ==
    /\ at = "move64" /\ at' = "command"
    /\ stack' = <<lochi, romlo>>
    /\ romlo' = 0
    /\ cmds' = IF LastPage THEN LockCommand ELSE UnlockCommand
    /\ UNCHANGED <<ioffset, lochi, loclo, move, romlength, y, bank, control, chip>>

\* flashpg: the low three bits go to port C, the next four to port B.
Flashpg(hi) == bank' = (hi % 8) + 8 * ((hi \div 8) % 16)

\* One write of unlock28c256 or lock28c256.
Command ==
    /\ at = "command" /\ cmds # <<>>
    /\ LET w == Head(cmds)
       IN  /\ lochi' = w.bank
           /\ Flashpg(lochi')
           /\ ChipByte([w EXCEPT !.bank = bank', !.byte = (64 * romlo + w.byte) % 256])
    /\ cmds' = Tail(cmds)
    /\ UNCHANGED <<at, ioffset, loclo, romlo, stack, move, romlength, y, control>>

CommandDone ==
    /\ at = "command" /\ cmds = <<>> /\ at' = "writepg"
    /\ lochi' = stack[1] /\ romlo' = stack[2] /\ stack' = <<>>
    /\ UNCHANGED <<ioffset, loclo, move, romlength, y, cmds, bank, control, chip>>

WritePage ==
    /\ at = "writepg" /\ at' = "writedat"
    /\ Flashpg(lochi) /\ y' = 0
    /\ UNCHANGED <<ioffset, lochi, loclo, romlo, stack, move, romlength, cmds, control, chip>>

\* One turn of writedat.
WriteData ==
    /\ at = "writedat"
    /\ ChipData(4 * bank + romlo, y, move)
    /\ y' = y + 1
    /\ at' = IF y' = PageBytes THEN "next" ELSE "writedat"
    /\ UNCHANGED <<ioffset, lochi, loclo, romlo, stack, move, romlength, cmds, bank, control>>

FirstBank == lochi' = 0 /\ Flashpg(0)

\* Wrong on purpose: the bank is not counted up.
CarryLost == loclo' = (loclo + 1) % 4 /\ UNCHANGED lochi

\* loclo and lochi are one number of 16 bits, romlo is a byte.
Carry ==
    /\ loclo' = (loclo + 1) % 4
    /\ lochi' = IF loclo = 3 THEN lochi + 1 ELSE lochi

\* The chip is waited for; the next page, or the end: the Apple sees the start of the
\* ROM again.
NextPage ==
    /\ at = "next" /\ ChipStores
    /\ move' = move + 1
    /\ romlo' = (romlo + 1) % 4
    /\ romlength' = romlength - 1
    /\ IF romlength' # 0
         THEN at' = "move64" /\ Carry /\ UNCHANGED bank
         ELSE at' = "waitenter" /\ FirstBank /\ UNCHANGED loclo
    /\ UNCHANGED <<ioffset, stack, y, cmds, control>>

\* waitenter, after flashing and after ESC: port B becomes an input again.
WaitEnter ==
    /\ at = "waitenter" /\ at' = "quit"
    /\ control' = {ioffset}
    /\ UNCHANGED <<apple, bank, chip>>

\* RETURN, ProDOS, and the program once more.
RunAgain == at = "quit" /\ Load

FlashNext ==
    \/ FlashReset
    \/ \E s \in 1..7 : ChooseSlot(s)
    \/ GiveUp
    \/ Move64 \/ Command \/ CommandDone \/ WritePage \/ WriteData \/ NextPage
    \/ WaitEnter
    \/ RunAgain

FlashSpec == FlashInit /\ [][FlashNext]_flashVars

-----------------------------------------------------------------------------
FlashTypeOK ==
    /\ at \in {"getkey", "move64", "command", "writepg", "writedat", "next", "waitenter", "quit"}
    /\ ioffset \in 0..255 /\ lochi \in 0..255 /\ loclo \in 0..3 /\ romlo \in 0..3
    /\ Len(stack) \in {0, 2}
    /\ move \in 0..Length /\ romlength \in 0..Length /\ y \in 0..PageBytes /\ Len(cmds) <= 6
    /\ bank \in 0..127 /\ control \subseteq 0..255
    /\ rom \in [Pages -> [Offsets -> 0..Spoilt]] /\ locked \in BOOLEAN /\ Len(seq) <= 6

\* The byte k of page i is written before the byte l of page j.
Before(i, k, j, l) == i < j \/ (i = j /\ k < l)

\* Wherever the program was stopped, and however often, the ROM is the image up to some
\* byte and what it was from there: every byte is the old one or the one of the image
\* that belongs there, and only the new one if all bytes before it are, although the
\* commands go through the same window and the same variables as the pages.
PagesInPlace ==
    /\ FlashTypeOK
    /\ \A i, j \in Pages, k, l \in Offsets :
          /\ rom[i][k] \in {Old, i}
          /\ Before(i, k, j, l) /\ rom[j][l] = j => rom[i][k] = i

\* "FLASHING COMPLETE": the ROM is the image, the chip is protected again, no
\* command is half sent, and the Apple sees the first bank, whether the chip was
\* protected before or not and however often the program was stopped.
Flashed ==
    romlength = 0 => /\ \A i \in Pages, k \in Offsets : rom[i][k] = i
                     /\ locked /\ seq = <<>> /\ bank = 0
=============================================================================
