---------------------------- MODULE SlotManager ----------------------------
(***************************************************************************)
(* The slot manager of the Arduino sketch: the two file numbers kept in    *)
(* EEPROM, what each of the two SD sockets is used as, and the single      *)
(* FatFs mount with its single open image file that both drives share.     *)
(*                                                                         *)
(* Drive 0 is SLOT 1 of the card (unit bit 7 clear), drive 1 is SLOT 2.    *)
(* A file number is 0 (raw blocks), 255 (wide blocks, both drives on       *)
(* socket 0) or the number of an image BLKDEVnn.PO.                        *)
(*                                                                         *)
(* RESET of the Apple resets the Arduino too: RAM is lost, the EEPROM, the *)
(* cards and what the cards are doing are not.  Cards are inserted and     *)
(* removed at any time; nothing tells the sketch.                          *)
(***************************************************************************)
EXTENDS Naturals

CONSTANTS Files,     \* the image numbers somebody can choose
          Cards,     \* the SD cards that exist
          NoCard,    \* an empty socket
          Images     \* Images[c]: the names of the images on card c

ASSUME FilesAssumption  == Files \subseteq 1..254 /\ 1 \in Files
ASSUME CardsAssumption  == NoCard \notin Cards
ASSUME ImagesAssumption == Images \in [Cards -> SUBSET ((0..15) \X (0..15))]

VARIABLES eeprom,    \* [init, slot]: the three EEPROM cells
          fileno,    \* slot0_fileno, slot1_fileno
          state,     \* slot0_state, slot1_state
          name,      \* the two digits in blockdev0_filename, blockdev1_filename
          lastDrive, \* last_drive: the drive whose image is open, or 255
          slotfile,  \* the FIL object, with the FATFS it belongs to
          stat,      \* Stat[d] of the SD driver: TRUE once initialised
          sock,      \* the card in each socket
          live,      \* the card in the socket has been initialised since it was inserted
          cmd,       \* cmd: the command do_set_volume() is executing, or 0
          pc         \* where the sketch is

ram  == <<fileno, state, name, lastDrive, slotfile, stat, cmd>>
vars == <<eeprom, fileno, state, name, lastDrive, slotfile, stat, sock, live, cmd, pc>>

Drives == {0, 1}
Other(d) == 1 - d
Bytes  == Files \cup {0, 255}

Closed    == [vol |-> 255, card |-> NoCard, name |-> <<33, 33>>, err |-> FALSE]
HexName(f) == <<f \div 16, f % 16>>
NoName    == <<33, 33>>                  \* hex_digit(33) is the X of "BLKDEVXX.PO"
HexNames  == (0..15) \X (0..15)

\* What read_eeprom() makes of the cells.
Loaded(e) == IF e.init # 255 THEN e.slot ELSE [d \in Drives |-> d]

-----------------------------------------------------------------------------
\* disk_initialize(d): "up" is its outcome, and only a card that is there answers.
DiskInitialize(d, up) ==
    /\ up => sock[d] # NoCard
    /\ stat' = [stat EXCEPT ![d] = up]
    /\ live' = [live EXCEPT ![d] = up]

\* f_mount() and f_open(): the mount is lazy, so f_open() initialises the card.
\* "err" is set when a disk error follows and sticks to the new handle.
OpenImage(d, nm, up, opened, err) ==
    /\ DiskInitialize(d, up)
    /\ opened => up /\ nm \in Images[sock[d]]
    /\ lastDrive' = IF opened THEN d ELSE 255
    /\ slotfile' = IF opened
                     THEN [vol |-> d, card |-> sock[d], name |-> nm, err |-> err]
                     ELSE Closed

\* check_change_filesystem(255).
CloseImage == lastDrive' = 255 /\ slotfile' = Closed

-----------------------------------------------------------------------------
\* Wrong on purpose: only the drive being initialised becomes wide.
InitWideAlone(d, up) ==
    /\ fileno[d] = 255
    /\ IF state[Other(d)] = "NODEV"
         THEN /\ DiskInitialize(0, up)
              /\ state' = IF up THEN [state EXCEPT ![d] = "WIDE"] ELSE state
         ELSE UNCHANGED <<state, stat, live>>
    /\ UNCHANGED <<name, lastDrive, slotfile>>

\* Wrong on purpose: the image is opened before the file name is set.
InitFileOldName(d, up, opened) ==
    /\ fileno[d] \in Files
    /\ name' = [name EXCEPT ![d] = HexName(fileno[d])]
    /\ OpenImage(d, name[d], up, opened, FALSE)
    /\ state' = IF opened THEN [state EXCEPT ![d] = "FILE"] ELSE state

\* The three ways initialize_drive() can bring up a drive.
InitWide(d, up) ==
    /\ fileno[d] = 255
    /\ IF state[Other(d)] = "NODEV"
         THEN /\ DiskInitialize(0, up)
              /\ state' = IF up THEN [e \in Drives |-> "WIDE"] ELSE state
         ELSE UNCHANGED <<state, stat, live>>
    /\ UNCHANGED <<name, lastDrive, slotfile>>

InitBlock(d, up) ==
    /\ fileno[d] = 0
    /\ DiskInitialize(d, up)
    /\ state' = IF up THEN [state EXCEPT ![d] = "BLOCK"] ELSE state
    /\ UNCHANGED <<name, lastDrive, slotfile>>

InitFile(d, up, opened) ==
    /\ fileno[d] \in Files
    /\ name' = [name EXCEPT ![d] = HexName(fileno[d])]
    /\ OpenImage(d, HexName(fileno[d]), up, opened, FALSE)
    /\ state' = IF opened THEN [state EXCEPT ![d] = "FILE"] ELSE state

InitializeDrive(d) ==
    IF state[d] = "NODEV"
      THEN \E up, opened \in BOOLEAN :
              InitWide(d, up) \/ InitBlock(d, up) \/ InitFile(d, up, opened)
      ELSE UNCHANGED <<state, name, lastDrive, slotfile, stat, live>>

-----------------------------------------------------------------------------
Init ==
    /\ eeprom \in [init : {0, 255}, slot : [Drives -> Bytes]]
    /\ fileno = Loaded(eeprom)
    /\ state = [d \in Drives |-> "NODEV"]
    /\ name = [d \in Drives |-> NoName]
    /\ lastDrive = 255
    /\ slotfile = Closed
    /\ stat = [d \in Drives |-> FALSE]
    /\ sock \in [Drives -> Cards \cup {NoCard}]
    /\ sock[0] = sock[1] => sock[0] = NoCard
    /\ live = [d \in Drives |-> FALSE]
    /\ cmd = 0 /\ pc = "boot0"

\* Reset, then setup() up to read_eeprom().
Reset ==
    /\ fileno' = Loaded(eeprom)
    /\ state' = [d \in Drives |-> "NODEV"]
    /\ name' = [d \in Drives |-> NoName]
    /\ lastDrive' = 255
    /\ slotfile' = Closed
    /\ stat' = [d \in Drives |-> FALSE]
    /\ cmd' = 0 /\ pc' = "boot0"
    /\ UNCHANGED <<eeprom, sock, live>>

\* setup(): drive 0, then drive 1.
SetupDrive0 ==
    /\ pc = "boot0" /\ pc' = "boot1"
    /\ InitializeDrive(0)
    /\ UNCHANGED <<eeprom, fileno, sock, cmd>>

SetupDrive1 ==
    /\ pc = "boot1" /\ pc' = "idle"
    /\ InitializeDrive(1)
    /\ UNCHANGED <<eeprom, fileno, sock, cmd>>

\* Wrong on purpose: the image is left open.
UnmountDrivesNoClose ==
    /\ state' = [d \in Drives |-> "NODEV"]
    /\ UNCHANGED <<lastDrive, slotfile>>

\* unmount_drive() for both drives: a drive in file mode closes the image, even
\* when the other drive has it open.
UnmountDrives ==
    /\ state' = [d \in Drives |-> "NODEV"]
    /\ IF \E d \in Drives : state[d] = "FILE"
         THEN CloseImage
         ELSE UNCHANGED <<lastDrive, slotfile>>

\* Wrong on purpose: the test is dropped.
SavesAlways(c) == TRUE

\* Command 6 sets the volumes until the next start, 4 and 7 save them.
Saves(c) == c # 6

\* do_set_volume() up to the EEPROM.
SetVolume(c, b) ==
    /\ pc = "idle"
    /\ UnmountDrives
    /\ fileno' = b
    /\ cmd' = c /\ pc' = IF Saves(c) THEN "save0" ELSE "init1"
    /\ UNCHANGED <<eeprom, name, stat, sock, live>>

\* Wrong on purpose: EEPROM_INIT is written first.
SaveInitFirst ==
    /\ pc = "save0" /\ pc' = "save1"
    /\ eeprom' = [eeprom EXCEPT !.slot[0] = fileno[0], !.init = 0]
    /\ UNCHANGED <<ram, sock, live>>

\* write_eeprom(): three cells, one after the other.
SaveSlot0 ==
    /\ pc = "save0" /\ pc' = "save1"
    /\ eeprom' = [eeprom EXCEPT !.slot[0] = fileno[0]]
    /\ UNCHANGED <<ram, sock, live>>

SaveSlot1 ==
    /\ pc = "save1" /\ pc' = "saveInit"
    /\ eeprom' = [eeprom EXCEPT !.slot[1] = fileno[1]]
    /\ UNCHANGED <<ram, sock, live>>

SaveInit ==
    /\ pc = "saveInit" /\ pc' = "init1"
    /\ eeprom' = [eeprom EXCEPT !.init = 0]
    /\ UNCHANGED <<ram, sock, live>>

\* The rest of do_set_volume(): drive 1, then drive 0, and the answer.
SetVolumeDrive1 ==
    /\ pc = "init1" /\ pc' = "init0"
    /\ InitializeDrive(1)
    /\ UNCHANGED <<eeprom, fileno, sock, cmd>>

SetVolumeDrive0 ==
    /\ pc = "init0" /\ pc' = "idle" /\ cmd' = 0
    /\ InitializeDrive(0)
    /\ UNCHANGED <<eeprom, fileno, sock>>

\* What do_read() and do_write() do to the shared image when the drive is in
\* file mode: check_change_filesystem(d) switches to it if the other drive had
\* it, then it is accessed.  A disk error sticks to the FIL object, and a card
\* that is not initialised never answers.
UseImage(d, up, opened, served, err) ==
    /\ pc = "idle" /\ state[d] = "FILE"
    /\ served => opened /\ ~err
    /\ IF lastDrive # d
         THEN OpenImage(d, name[d], up, opened, err)
         ELSE /\ opened /\ up
              /\ served => live[d]
              /\ slotfile.err => err
              /\ slotfile' = [slotfile EXCEPT !.err = err]
              /\ UNCHANGED <<lastDrive, stat, live>>
    /\ UNCHANGED <<eeprom, fileno, state, name, sock, cmd, pc>>

InsertCard(d, c) ==
    /\ sock[d] = NoCard /\ \A e \in Drives : sock[e] # c
    /\ sock' = [sock EXCEPT ![d] = c]
    /\ UNCHANGED <<eeprom, ram, live, pc>>

RemoveCard(d) ==
    /\ sock[d] # NoCard
    /\ sock' = [sock EXCEPT ![d] = NoCard]
    /\ live' = [live EXCEPT ![d] = FALSE]
    /\ UNCHANGED <<eeprom, ram, pc>>

Next ==
    \/ Reset
    \/ SetupDrive0 \/ SetupDrive1
    \/ \E c \in {4, 6, 7}, b \in [Drives -> Bytes] : SetVolume(c, b)
    \/ SaveSlot0 \/ SaveSlot1 \/ SaveInit
    \/ SetVolumeDrive1 \/ SetVolumeDrive0
    \/ \E d \in Drives, up, opened, served, err \in BOOLEAN :
          UseImage(d, up, opened, served, err)
    \/ \E d \in Drives, c \in Cards : InsertCard(d, c)
    \/ \E d \in Drives : RemoveCard(d)

Spec == Init /\ [][Next]_vars

-----------------------------------------------------------------------------
\* Every variable has its type.
TypeOK ==
    /\ eeprom \in [init : {0, 255}, slot : [Drives -> Bytes]]
    /\ fileno \in [Drives -> Bytes]
    /\ state \in [Drives -> {"NODEV", "BLOCK", "WIDE", "FILE"}]
    /\ name \in [Drives -> HexNames \cup {NoName}]
    /\ lastDrive \in Drives \cup {255}
    /\ slotfile \in [vol : Drives, card : Cards, name : HexNames, err : BOOLEAN] \cup {Closed}
    /\ stat \in [Drives -> BOOLEAN]
    /\ sock \in [Drives -> Cards \cup {NoCard}]
    /\ live \in [Drives -> BOOLEAN]
    /\ cmd \in {0, 4, 6, 7}
    /\ pc \in {"boot0", "boot1", "idle", "save0", "save1", "saveInit", "init1", "init0"}

\* A drive is only ever used in the mode its file number asks for, and wide
\* mode holds for both drives or for neither: do_set_volume() never leaves a
\* drive in the mode of the previous configuration, and no block command can
\* find one drive wide and the other not (initialize_drive, unmount_drive).
ModeMatchesConfig ==
    /\ \A d \in Drives : /\ state[d] = "BLOCK" => fileno[d] = 0
                         /\ state[d] = "FILE" => fileno[d] \in Files
                         /\ state[d] = "WIDE" => state[Other(d)] = "WIDE"
    /\ state[0] = "WIDE" => \E d \in Drives : fileno[d] = 255

\* The one open image belongs to the drive last_drive says, that drive is in
\* file mode, and the image is the one its file number names, however often
\* the two drives took the FatFs mount from each other; a drive that has lost
\* the mount still holds the name to get its own image back.
HandleMatchesSlot ==
    /\ lastDrive = slotfile.vol
    /\ lastDrive # 255 => /\ state[lastDrive] = "FILE"
                          /\ slotfile.name = name[lastDrive]
    /\ \A d \in Drives : state[d] = "FILE" => name[d] = HexName(fileno[d])

\* A handle opened on one card never reaches another: whenever the card in the
\* socket of the open image answers at all, it is the card the image was opened
\* on (every disk_initialize() of a socket closes the image first, and a new
\* card does not answer before one).
HandleOnInsertedCard ==
    slotfile # Closed /\ live[slotfile.vol] => sock[slotfile.vol] = slotfile.card

\* A socket whose card answers is not empty.
LiveCardPresent == \A d \in Drives : live[d] => sock[d] # NoCard

\* The inductive invariant: a handle can only be trusted because a drive without
\* a mode has no open image and only the card in the socket can answer.
IInv == TypeOK /\ ModeMatchesConfig /\ HandleMatchesSlot
               /\ HandleOnInsertedCard /\ LiveCardPresent

\* What write_eeprom() has done so far, for which command, and what it leaves.
SaveProgress ==
    /\ pc = "save1" => eeprom.slot[0] = fileno[0]
    /\ pc = "saveInit" => eeprom.slot = fileno
    /\ pc \in {"save0", "save1", "saveInit"} => cmd \in {4, 7}
    /\ pc \in {"init1", "init0"} /\ cmd \in {4, 7} => Loaded(eeprom) = fileno

\* What setup() knows before each of the two drives.
BootProgress ==
    /\ pc = "boot0" => state = [d \in Drives |-> "NODEV"]
    /\ pc = "boot1" /\ fileno[0] = 255 /\ stat[0] => state = [d \in Drives |-> "WIDE"]

\* Inductive together with IInv; the action properties follow from it.
Progress == SaveProgress /\ BootProgress

\* At the next start the sketch finds the old configuration, the new one, or
\* the new number of drive 0 with the old one of drive 1, and the very first
\* save is atomic: the cell EEPROM_INIT is written last (write_eeprom).
SaveOrder ==
    LET old == Loaded(eeprom)
        new == Loaded(eeprom)'
    IN  new # old =>
           IF eeprom.init = 255
             THEN new = fileno
             ELSE \/ new = [old EXCEPT ![0] = fileno[0]]
                  \/ new = [old EXCEPT ![1] = fileno[1]] /\ old[0] = fileno[0]

SaveIsOrdered == [][SaveOrder]_vars

\* The EEPROM is only ever written by a command 4 or 7, so nothing that a volume
\* selector tries with command 6, no start and no access changes what is saved; and when
\* do_set_volume() answers a 4 or 7, what the next start loads is what runs now.
SaveEffect ==
    /\ eeprom' # eeprom => cmd \in {4, 7}
    /\ pc = "init0" /\ pc' = "idle" /\ cmd \in {4, 7} => Loaded(eeprom)' = fileno'

SaveTakesEffect == [][SaveEffect]_vars

\* setup() honours a wide drive 0: if the card in SLOT 1 comes up, both drives
\* are directed to it whatever the file number of drive 1.
WideBoot ==
    pc = "boot1" /\ pc' = "idle" /\ fileno[0] = 255 /\ stat[0]
        => state' = [d \in Drives |-> "WIDE"]

WideHonouredAtBoot == [][WideBoot]_vars

\* README.md:33 and :39: with "!" chosen for card 1 both drives are directed to
\* SLOT 1 and the option chosen for card 2 does not matter.  Refuted: with the
\* card of SLOT 1 in and initialised, do_set_volume() can leave it unused.
WideSelected ==
    pc = "idle" /\ fileno[0] = 255 /\ stat[0] /\ live[0]
        => state = [d \in Drives |-> "WIDE"]
=============================================================================
