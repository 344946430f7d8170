# Apple2Card, verified

This directory models the Apple2Card: an Apple II expansion card on which an
ATmega328P ("the sketch", `Apple2Arduino/`) serves two SD cards as ProDOS block
devices to a 6502 program in the card's ROM ("the driver", `firmware/`). The
two computers talk through port A of an 82C55. The modules here are TLA+
translations of that code, the `.cfg` files check them with TLC on small
instances, and the `*_proofs` modules prove the main properties with TLAPS for
every value of the constants. `PROJECT.json` is the index: components, runs,
the lines every definition stands for, hazards, findings and theorems.

## 1. Inventory

| Component | Source | State | Operations |
|---|---|---|---|
| Data port | `pindefs.h`, `Apple2Arduino.ino:115-173`, loads and stores of port A in `Firmware.asm` | the 82C55's two latches and the flags OBFA and IBFA; `/ACK`, `/STB`, `DDRD`, `PORTD` | `read_dataport`, `write_dataport`, the block loops; Apple: mode word, store, poll, load |
| Firmware driver | `firmware/Firmware.asm` | zero page `$42-$47`, the counter Y, `uppage`, the caller's buffer | `start` (status, read, write, format), boot from block 0, the configuration page `page2` |
| Command loop | `Apple2Arduino.ino:154-173, 302-525, 607-711, 740-744` | `unit`, `buf`, `blk`, the 512-byte buffer of a handler, the program `bootblocks` in its flash | `loop`, `do_command` and one handler per command |
| Slot manager | `Apple2Arduino.ino:60-113, 179-300, 500-516, 713-725` | two file numbers, two slot states, `last_drive`, one `FATFS`, one `FIL`; three EEPROM cells | `setup`, `do_set_volume`, `initialize_drive`, `unmount_drive`, `check_change_filesystem` |
| Block input and output | `Apple2Arduino.ino:329-477` | none of its own | the media side of `do_read` and `do_write`, the two address calculations |
| SD card driver | `mmc_avr_spi.c`, `mmc_avr.h`, `diskio_sdc.c`, `diskio_sdc.h` | `Stat[2]`, `CardType[2]`, `slotno`; waits measured with `millis()` in 16 bits | `disk_initialize`, `disk_read`, `disk_write`, `disk_ioctl`, `disk_status` |
| Serial bus | port B in `mmc_avr_spi.c`, `w5500.cpp`, `w5500.h`, `pindefs.h` | `PORTB`, `DDRB`, the SPI clock | the chip selects, the clock and the pull-up, in every call of both drivers |
| Image files | `ff.c`, `ff.h`, `ffconf.h` (vendored FatFs) | the mounted volume (`FATFS`, its one-sector window) and the open file (`FIL`) | `f_mount`, `f_open`, `f_lseek`, `f_read`, `f_write`, `f_close` |
| Ethernet | `w5500.cpp`, `w5500.h`, `Apple2Arduino.ino:527-605` | the W5500's socket, ring buffers and pointers; `ethernet_initialized` | initialise, poll, send |
| Volume selector | `firmware/bootpg.asm`, `page2` | the numbers being chosen, the cursor, what was set before | try every number, abort, set, save |
| ALLVOLS | `firmware/allvols.asm` | ProDOS's table of drivers and list of devices | add a device per 32 MB volume |
| FLASH | `firmware/flash.asm` | page and bank counters; the chip's protection | write the ROM page by page |

How they interact: a program calls the driver; the driver sends a magic byte
and six bytes of command through the data port; the command loop runs a handler;
the handler asks the slot manager what the drive is, and reads or writes a
sector, through the SD driver (raw or wide mode) or through FatFs (file mode),
which itself calls the SD driver; the answer goes back through the port. The
volume selector is a client of the driver and reaches the slot manager through
it; ALLVOLS lists the driver's entry point in ProDOS's tables and FLASH writes
the ROM the driver is in. The SD driver and the Ethernet driver share one serial
bus and do not know of each other. All of it is single-threaded on each side; the
only interrupt that matters advances the clock of `millis()`. What makes it hard:

- two processors with no common clock share two one-byte latches, and no wait in
  the protocol has a timeout;
- the write command is answered before the data are received, stored after the
  driver has returned, and its failure is dropped;
- RESET restarts both processors at any instant: between two bytes, between two
  EEPROM cells, between two sectors of a FatFs update;
- cards can be exchanged without any notice, while one FATFS object and one FIL
  object serve both drives in turn;
- configuration numbers 255 ("wide") and 0 ("raw") change what *both* drives are;
- SD cards answer late, wrongly or not at all, store what they accepted later,
  and are addressed in bytes or in sectors according to their kind;
- the driver's clocks have 16 bits and are compared as signed numbers;
- a volume comes from any computer: its boot sector, its FAT and its root
  directory may say anything;
- frames arrive in the chip's ring buffer while its 16-bit pointers are read a
  byte at a time;
- arithmetic on 8, 16 and 32 bits: pages, block numbers, sector addresses.

PROJECT.json "hazards" lists these at their lines with the properties for them.

What makes each part correct, in a sentence: the **data port** delivers every
byte once and in order and no two outputs ever fight; **driver and command
loop** stay in step, and together are a block device with posted writes; the
**slot manager** never uses a drive in a mode, an image or a card it was not
configured or opened for, and a reset during a save leaves the old or the new
configuration; **block I/O** never lets two drives or two blocks share a sector;
**image files** are the file that was asked for, on the card of their drive, change
exactly the block written, and a crash leaves a directory entry the FAT can
honour; the **SD driver** ends every wait and never reports success for a transfer
the card refused; the **serial bus** has one device selected and one talking; **Ethernet** keeps the byte protocol in
step whatever the chip does; the **volume selector** leaves the saved
configuration alone unless told to save; **ALLVOLS** never overwrites a device
nor the end of the table; **FLASH** leaves the EEPROM locked and every byte as in
the file.


## 2. Modules

| Module | Models | State and actions, in terms of the code |
|---|---|---|
| `PortChannel` | what the port promises | two one-byte mailboxes (`toArd`, `toHost`) and the byte the sketch has committed to (`offer`) |
| `DataPort` | the port, pin by pin | one action per store, load, poll or port register write on either side; a place in the two programs is `apc`, `hpc` |
| `BlockDevice` | what the card promises its caller | one call at a time; reads return what the drive holds; writes are accepted and stored later, or never |
| `CommandLink` | driver and command loop, byte by byte | the driver's zero page (`y`, `uppage`, `bufhi`), the Apple's memory, `do_command()` and the locals of its handlers; one action per byte and one per handler |
| `SlotManager` | configuration, modes and the shared image | the EEPROM cells, the RAM variables, `Stat[]`, the sockets; one action per `initialize_drive()` call and per EEPROM cell |
| `BlockMap` | where blocks are kept | the address calculations over the modes of `SlotManager`, which it extends; no state of its own |
| `DiskIO` | what the SD driver promises | one call on one socket; a read returns the sector, a write is stored unless the card is pulled first, a failure changes only the sector to be written |
| `SdCard` | the SD driver and the cards | `Stat`, `CardType`, `slotno`, the chip selects, the clocks; `pc` is where `send_cmd()` is and `at` where it was called; one action per command, answer, wait and data block |
| `SpiBus` | the shared serial bus | `PORTB`, `DDRB`, the clock rate; one action per change of a line and per exchange, in both drivers; who drives the answer line |
| `FatName` | from an image number to a directory entry | operators: `set_blockdev_filename`, `get_ldnumber`, `create_name`, on the codes of the characters, since which entry is opened depends on them |
| `FatVolume` | the boot sector | operators: what `check_fs` and `mount_volume` make of the fields, `clst2sect`, the sectors of a FAT entry |
| `FatOpen` | from a drive and a number to an open file | `check_change_filesystem`, `f_mount`, `mount_volume`, `find_volume`, `follow_path`, `dir_find`, `dir_next`, `f_open`; one action per sector that is wanted |
| `ImageFile` | an open image in FatFs | the card (`dfat`, `dir`, `info`, `data`), the FATFS (`fat` is the FAT as seen through the one-sector window), the FIL; one action per disk access or step between two |
| `FrameIO` | what the Ethernet commands promise | frames wait in order; a poll takes the oldest whole or drops it; a frame sent goes out whole, once, or is lost |
| `Ethernet` | the three commands, the W5500 driver, the chip | the port, `ethernet_initialized`, the locals of `readFrame()` and `sendFrame()`, the chip's registers and ring buffers; one action per byte of the port and per access of the chip that matters |
| `VolumeSelector` | `bootpg.asm` and `page2`, with the slot manager | `at` (the label), the cursor row `cv`, `VOLDRIVE`, `GVOLDRIVE`, what the screen shows |
| `AllVols` | `allvols.asm` | `devrt`, the range being walked, ProDOS's `drivertb`, `countdev`, `listdev`, `lastdev` |
| `Flash` | `flash.asm` and the EEPROM | the page and bank counters, the bits of ports B and C, the chip's contents and protection, the command it is reading |
| `MC...` | values of the constants for TLC | |
| `..._proofs` | theorems and proofs | |

How they compose. `CommandLink` uses `PortChannel` as its port (`Port ==
INSTANCE PortChannel`), and `DataPort` is proved to implement `PortChannel`: so
the command level never has to look at pins. `CommandLink` in turn implements
`BlockDevice` (`Device == INSTANCE BlockDevice WITH ...`). `BlockMap` extends
`SlotManager`: the places of blocks are judged in every state the slot manager
can be in. `CommandLink` leaves open which accesses fail and what a drive holds
after the volumes change; that is what `SlotManager`, `BlockMap` and `ImageFile`
are about. `SdCard` implements `DiskIO`, whose operations are the accesses that
`FatOpen` and `ImageFile` make and let fail, and `DiskInitialize` of `SlotManager`.
`FatOpen` extends `FatVolume` and `FatName`; what it finds (the entry, the first
cluster, the size) is where `ImageFile` starts. `Ethernet` uses `PortChannel` too, and implements `FrameIO`.
`VolumeSelector` extends `SlotManager` and takes its steps for each
`do_set_volume()`. `SpiBus` says who owns the bus, `SdCard` and
`Ethernet` what is said on it. Definitions marked "Wrong on purpose" stand beside the one they
spoil: each is a plausible slip (a dropped wait, a swapped order, a missing
reset) with which the property named in `PROJECT.json` "mutants" fails, so
every property is known to depend on the code it is about. They are in no
specification.

### What the modules abstract

- **DataPort**: a byte is a model value. The 82C55 (external to the repository)
  is modelled from how both programs use it: `/ACK` low empties the output latch
  flag and drives the lines, `/STB` low opens the input latch and sets IBF.
- **CommandLink**: a page has `P` bytes, a block `2 * P`. The buffer address in
  the command is sent and not used, as in the sketch. The table `bootblocks` is
  446 bytes long, so `NUMBER_BOOTBLOCKS` is 0: whatever block is asked for, block 0
  is sent, with the 66 bytes of flash behind the table (`Flash`).
- **SlotManager**: of `f_mount` and `f_open`, the outcome and its effects on the
  card's state; a file name is its two hexadecimal digits. A disk error sticks to
  the handle (`err`), as `FIL.err` does.
- **BlockMap**: addresses are numbers; the disjoint bits that the code joins with
  `|` are added.
- **FatVolume, FatOpen, FatName**: `ff.c` as `ffconf.h` configures it: short names,
  one window (`FF_FS_TINY`), two volumes, no exFAT. The sketch always mounts before
  it opens, so the branch for a volume already mounted is never reached; it never
  creates a file by `f_open()` and asks only for names of one segment in the root
  directory. The root directories of FAT12 and FAT16 are areas without a chain, so
  a search follows a chain on FAT32 only. Nothing is written while a volume is
  mounted or searched, and a card is exchanged only while no call on its drive is
  in progress. `VolumeSound` and its theorems are about volumes that lie on a card
  whose last sector has a number of 32 bits (`OnCard`): the sums in
  `mount_volume()` are not checked for a boot sector that says otherwise.
- **ImageFile**: positions are in whole sectors, since the sketch transfers whole
  blocks and images are whole blocks long. FAT16 and FAT32 (an entry never
  straddles two sectors). The second copy of the FAT, which FatFs writes and never
  reads, is left out; so is the time stamp. A card
  either finishes or discards the sector being written when the power stays and
  the Arduino is reset. `chain` (the clusters of the file) and `theirs` (the
  clusters of other files at the start) are history variables: no guard of a step
  reads them.
- **SdCard**: cards are external, modelled from what the driver expects of them: a
  card of kind "broken" answers anything or nothing, the others keep to the
  protocol but may be slow, full of errors, exchanged or pulled. The block check
  sums, which the driver discards, are left out. An empty socket reads as ones.
  Time is counted in ticks of 500 ms modulo `ClockMod` (16 bits in the code) and
  compared as signed numbers. The multiple-block commands and every `disk_ioctl`
  but `CTRL_SYNC` are called by nothing. Sector numbers are below 2^23, which
  `LocationFits` (raw and wide mode) provides: above, a byte address would wrap.
- **SpiBus**: an exchange is as many bytes as the driver exchanges at that place.
  Pins 8, 9 and 10 are bits 0 (W5500), 1 (socket 1) and 2 (socket 0) of port B; a
  line that is not an output is high. A card whose initialisation fails leaves
  the slow clock behind, which is harmless and modelled.
- **Ethernet**: a byte has `Base` values, so the 16-bit pointers and lengths are
  numbers modulo `Base * Base`; the MAC address has `MacBytes` bytes. The bytes
  of the receive buffer that no pointer can reach any more read as 0 (`Kept`). The
  chip is not reset with the card. Without a chip every register reads as ones,
  since `begin()` leaves the pull-up of the answer line on; a chip may fail to
  open its socket. The repository has no program for the Apple side (README.md:17): the one here keeps to the
  comments of `w5500.h:58-89`, that is, it polls and sends only after an
  initialisation that succeeded.
- **VolumeSelector**: the names on the disks do not move the cursor
  (`bootpg.asm:63` prints them); no card is exchanged while the program runs;
  `Rows` rows instead of 16.
- **AllVols**: a place is the upper four bits of a unit number. The messages are
  left out.
- **Flash**: a byte of the ROM is the number of the page it came from, at its own
  place in the page, or `Old`; a page has `PageBytes` bytes, 64 in the code, which
  the program stores one by one. `Junk` is what other programs left where `ioffset` is. The waits of the program
  are taken to be long enough for the chip.

## 3. Runs

| Run | Module, configuration | Instance | Shows |
|---|---|---|---|
| `data_port` | `DataPort`, `DataPort.cfg` | three bytes | the lines are never contended, and the pins implement `PortChannel` |
| `command_link` | `MCCommandLink`, `CommandLink.cfg` | pages of two bytes, two block contents, three pairs of volumes, 12 calls, both drives | the two programs stay in step, touch only the caller's buffer, implement `BlockDevice`, and every call that is answered in full returns |
| `slot_manager` | `MCBlockMap`, `SlotManager.cfg` | two cards, two image numbers, and 0 and 255; two slots on both drives, the first and the last block | modes, the shared handle, card swaps and EEPROM order; no two blocks share a sector |
| `image_file` | `MCImageFile`, `ImageFile.cfg` | four clusters of two sectors, FAT of two sectors, three volumes | the image is never lost, torn or misplaced, whatever fails and whenever the reset comes |
| `sd_card` | `MCSdCard`, `SdCard.cfg` | an SDHC card that moves between the sockets and a broken one, calls for one sector of two, clocks modulo 16 | the driver implements `DiskIO`, selects one socket, and ends every call |
| `ethernet` | `MCEthernet`, `Ethernet.cfg` | bytes of four values, rings of 8 bytes, frames of 1 to 8 bytes, limits that one or both frames meet, with and without a chip | the commands implement `FrameIO`, and with a chip they return |
| `fat_open` | `MCFatOpen`, `FatOpen.cfg` | nine cards, two drives, two image numbers, sectors of two entries | the image that is open is the one that was asked for, and every search ends |
| `volume_selector` | `MCVolumeSelector`, `VolumeSelector.cfg` | two rows, two file numbers, six keys, two cards | the screen is true, and only what was chosen is saved |
| `all_vols` | `MCAllVols`, `AllVols.cfg` | 34 device tables, up to full ones, three copies of the file | the tables stay sound, nothing is lost, nothing chosen is left out |
| `flash` | `Flash`, `Flash.cfg` | an image of 10 pages of 3 bytes, in banks of 4 pages | the ROM is the file up to some byte, and ends as the file has it, protected |
| `spi_bus` | `SpiBus`, `SpiBus.cfg` | both drivers, two dummy bytes | one device is selected, one talks, a card wakes up at its own clock |
| `slot_wide` | `MCBlockMap`, `SlotManagerWide.cfg` | as `slot_manager` | where README.md and the sketch disagree (section 6) |

Why the bounds are enough. *Two-byte pages* have a first and a last byte and a
page to cross; the contents hold 0 (the status "ok") and `$AC` (the magic byte),
so that data taken for protocol, or protocol for data, would be noticed. *Three
bytes* on the port: one in each latch and one being sent. *Two cards and two
images*: a stale handle needs one image and another card, or one card and another
image; a third adds nothing that the relation of the two does not have. *Four
clusters of two sectors in two FAT sectors*: an access in the first, in the
second and beyond the cluster at hand; a link that crosses FAT sectors, where
the window writes one sector back before it changes the other; a disk that
fills up during one access. The three volumes are a fragmented image with
another file in the way and an exact free count, an empty image with an unknown
count, and a full volume whose count is too high (what a reset before the FSINFO
write leaves). *Blocks 0 and 65535, slots 1 and 7*: the ends of the fields that
are joined into an address.

*One card that keeps to the protocol and one that does not*: a good card can be
misled only by what the driver carries over from another (`Stat`, `CardType`, a
clock that still runs, a block still being stored), and the broken one leaves
every such state behind. The calls ask for one sector, and no card of the run is
addressed by bytes: that a call reaches its own sector and no other, on every kind of
card and after any exchange, is what the theorems about `SdCard` say. *Clocks modulo 16*: the longest wait is 4 ticks, so a
difference stays within the signed half, as 2 s do within 2^15 ms. *Rings of 8
bytes, pointers modulo 16*: as in the chip, a pointer is more than a place in the
ring, and both wrap; the longest frame fills the transmit buffer, the two frames
that arrive fill the receive buffer, a third does not fit. *Nine cards*: a partitioned card whose
first volume's root directory crosses two clusters, an unpartitioned FAT16 card, a
FAT32 root that is a loop, one that leaves the volume, one that meets a free
cluster, one that starts outside, a blank card, an empty partition table, and a
FAT12 volume whose FAT is a sector short. The image numbers, 10 and 171, have
digits on either side of 9 and A. *Two rows* of the selector: the row that is raw
and one that is an image, and the keys "!", "0", "A" and "a" (one in either case),
"G" (no digit) and ESC. *34 tables*: any of five devices beside the card, the
full table, and one with two free places. *10 pages of 3 bytes*: two banks and a half, so
that the last page is not the last of a bank, and a first, an inner and a last byte;
the file the program ships has 8 pages of 64.
Nothing is bounded by a constraint; all state spaces are finite by themselves,
since every counter is one of the program's own.

`SlotManager.cfg` uses the symmetry of the two cards, which
hold the same images and are distinguished by nothing else; it checks only
invariants and action properties, for which symmetry is sound. No run turns off
the deadlock check.

### Properties

- `data_port`: `NoContention` (two outputs never fight), `ImplementsChannel`
  (though OBFA says "taken" before the sketch has sampled).
- `command_link`: `InSync` (who sends next is never disputed; between calls
  nothing is left in the port and the caller's pointer is restored), `OnlyBuffer`,
  `AnswersArrive` (the two volume numbers cross unswapped, both ways, and the boot
  program arrives), `ImplementsDevice`, `CallsReturn`.
- `slot_manager`: `ModeMatchesConfig`, `HandleMatchesSlot`,
  `HandleOnInsertedCard`, `BlocksApart`, `SaveIsOrdered`, `SaveTakesEffect` (only
  commands 4 and 7 write the EEPROM, and they are answered when it says what runs).
- `image_file`: `CardSound` (at every moment the directory entry on the card names
  a chain that the FAT on the card has, and nothing else has), `PositionKnown`,
  `TransfersTheBlock`, `ImageKept`, `FullMeansFull`, `CloseSaves` (of a file that no
  disk error has stuck to).
- `sd_card`: `DriverSound` (one socket selected; a card addressed by bytes is never
  given sector numbers; waits within the signed half of the clock),
  `ImplementsDiskIO`, `CallEnds`.
- `ethernet`: `DriverSound` (both sides of the port in step; the pointers at the
  headers of frames; nothing waiting that the chip forgot), `ImplementsFrameIO`,
  `CallsReturn`.
- `fat_open`: `OneVolume` (the FATFS belongs to the drive of the open image, and no
  other drive has one), `OpenIsRight` (the file is the first entry of that name in
  the first volume of that drive's card; an error is only given for a reason),
  `VolumeSound`, `WindowInside` (no search reads outside its volume), `CallEnds`.
- `volume_selector`: `RowsTrue` (a cell shows what that choice would give),
  `Outcome` (what runs and what is saved at the end is what was typed, or what was
  there before), `OnlyChosenSaved`.
- `all_vols`: `TablesSound`, `AllAdded`, `DevicesKept`.
- `flash`: `PagesInPlace` (up to some byte the file, from there what it was),
  `Flashed` (at the end the ROM is the file, protected, in its first bank).
- `spi_bus`: `BusSound` (only the addressed device is selected; the dummy clocks
  reach a card with nothing selected and at the slow rate), `OneAnswers` (no two
  devices drive the answer line).

The one type invariant of a module, `TypeOK`, is part of the first of these where
the module has no theorem about it. `SlotManager` and `DataPort` have one, so
there `TypeOK` is proved instead of run, and so are `WideHonouredAtBoot` (at the
start a wide drive 1 takes both drives) and `SampledAsSent`.

## 4. Assumptions

- **Fairness**. `CommandLink`: weak fairness of the steps of the Apple and of
  those of the Arduino; each is one thread that runs whenever it is not waiting
  for the other, and the waits in the drivers end by timeout (`CallEnds`).
  `SdCard`: weak fairness of the driver, one thread, and strong fairness of the
  clock, which advances between looks at it however often a card's answer comes
  first. `Ethernet`: weak fairness of the Apple, the sketch and the chip's
  execution of a command; nothing is assumed of frames that arrive. `FatOpen`:
  weak fairness of the steps of a call, whose accesses end (`CallEnds` again).
  `DataPort`, `SlotManager`, `ImageFile`, `SpiBus`, `VolumeSelector`, `AllVols` and
  `Flash` are checked for safety only. Nowhere is anything assumed of a call, a
  reset or a card swap, which come from outside.
- **Timing** (`DataPort!Quiet`): the sketch holds a strobe for about a
  microsecond (seven with a timer interrupt in between), the Apple needs at least
  eight between seeing a flag and touching port A. It is the only timing
  assumption, and it is needed: without it in `HostSend` or in `HostReceive`,
  `ImplementsChannel` fails.
- **Calls** (`CommandLink!RequestsAssumption`): an unknown command is answered
  before its arguments are read; they fall to `loop()`, so a `$AC` among them would
  start a second command, and the model leaves such requests out. No program of
  the repository sends one. Command 3 (format) is answered without a block, while
  the driver goes on to wait for one: the model has it, with the caller stuck until
  RESET, and `CallsReturn` excepts it. ProDOS does not send it, since the ROM says
  that it cannot format (`Firmware.asm:206`).
- **Ethernet**: as `w5500.h:60-67` asks, the program initialises first. The handlers
  do not read a length or a frame when the chip was not initialised
  (`ino:565, 591`), so a program that sent them all the same would be out of step.
  With a chip, every command to it ends; without one, `begin()` waits for ever
  (section 6), so `CallsReturn` is stated for a card with a chip.
  Frames fit the 16 KB buffer, which every Ethernet frame does: for a longer one
  `sendFrame()` would wait for ever.
- **EEPROM**: a reset falls between two bytes, it does not spoil the byte being
  written.
- **Cards**: for `SlotManager`, only a card that is in the socket and has been
  initialised since it was inserted answers; `SdCard` drops that assumption.
- **ALLVOLS** (`PresetsAssumption`): a copy of the file set to a slot is set to one
  that has a driver.
- **Compiler**: `calculate_block_location` and `calculate_file_location`
  (`ino:331-340`) have no return statement. The result is unused, and the
  compiler of the Makefile's build returns from them all the same.

## 5. Proofs

TLAPS proves for every value of the constants:

- `Wires_proofs`, of the data port: `TypeCorrect`, `LinesNeverContended`, `SamplesAreSent`, and
  `PortImplementsChannel`, the refinement of `PortChannel`. All rest on `IInv`,
  which says what each place of the two programs knows: which strobe is low, which
  way DDRD points, whether a latch is full and what is in it. `NoContention` is
  not inductive without it, since nothing else ties `ackLow` to the direction.
  In the refinement, the sketch takes a byte where it samples the lines, commits
  to one where it has seen IBFA low, and puts it where `/STB` falls.
- `SlotManager_proofs`, of the slot manager: `TypeCorrect`, `ModesMatchConfig`,
  `HandleMatches`, `HandleNeverStale`, from the invariant `IInv`. The four parts need
  each other: a drive is never re-initialised under an open image because a drive
  without a mode has no image, and the image is of the card in the socket because
  only such a card can answer (`LiveCardPresent`). `SavesOrdered`, `SavesTakeEffect`
  and `WideAtBoot` are action properties; they need `Progress`, what `write_eeprom()`
  and `setup()` have done so far, and for which command: from the last cell to the
  answer of a saving command the saved numbers are those in use. `HexNameInjective`: two file numbers never name
  the same image.
- `SlotManager_proofs`, of the places of blocks: `BlocksNeverShared` combines the modes
  with the fact that an address determines volume and block (`LocationInjective`,
  `UnitParts`). It is where "wide for both or for neither" matters: a raw drive 1 has
  its own socket and drops the drive bit, a wide drive 1 shares socket 0 and keeps it;
  a wide drive 1 beside a raw drive 0 would share socket 0 as well, and only one of
  them would use all the bits. `LocationFits`: the 32-bit arithmetic never wraps.
- `SlotManager_proofs`, of the volume selector: `RowsAlwaysTrue`, `OutcomeAsTyped` and
  `OnlyTypedSaved`, for any number of rows and any keys that ProDOS can deliver. Every
  step of the selector is a step of the slot manager or leaves it alone, so `IInv` and
  `Progress` hold of the sketch underneath. A row is true because the drive read for it
  has no image but the one its number names (`HandleMatchesSlot`). `Places` says at which
  label the sketch is between two calls and which numbers it then has, `Ending` what the
  two ways out leave; `Numbers` is what a key stands for in either case (`KeyMeans`).
- `CommandLink_proofs`, for every page size, memory and set of calls: `AlwaysInSync`,
  `OnlyBufferWritten`, `AnswersAlwaysArrive` and `ImplementsBlockDevice`, the
  refinement of `BlockDevice`. `IInv` names the phases of a call (`Phase`) and says in
  each which place of the driver goes with which place of the sketch, and that the
  bytes done on one side, the bytes done on the other and the at most one byte between
  them make the command, or the block (`Collects`, `Reading`, `Writing`). A phase
  `Stuck` is the format call that the model leaves waiting, `Written` the write the
  sketch still stores after the driver has returned. With it every step of the two
  programs is a step of the block device or none: the call is made where the driver
  starts, executed in `do_command()`, and returns where the driver does.
- `SdCard_proofs`: `AlwaysSound` and `KeepsPromises`, the refinement of `DiskIO`, for
  every set of cards, of any size and kind, every sequence of exchanges and every
  choice of limits. `IInv` adds to `DriverSound` what is known of the cards
  (`CardsKnown`: which kind is how far in its initialisation, and what it still has
  to store), of the call (`Serving`, `Commands`: which `send_cmd()` is called from which
  place), of a socket without a card (`Absent`: nothing that it answers is taken for
  success), of an answer that was taken for one (`Granted`, `Settled`: the card has
  finished what it was storing), of what the driver has learned of the card
  (`LowCapacity`: one that is addressed by bytes is never taken for the other kind) and
  of the clocks (`Timed`). With it, a success is returned only where the card in the
  socket has sent its sector or accepted the new one. Every end of a call is then one that `DiskIO`
  allows, and every step of the driver between its beginning and its end a stutter: a
  card accepts a block in the step that ends the call.
- `Ethernet_proofs`: `AlwaysSound` and `KeepsPromises`, the refinement of `FrameIO`, for
  every number of values of a byte, every size of the ring buffers, all frames that fit
  and every limit. `DriverSound` is not inductive: it speaks of the moments between two
  commands. `IInv` says where every byte is in the middle of one. `Turn`: what the
  sketch has taken of a request, the port holds and the program still has to send is the
  request (`Rest`); what the program has of an answer, the port and the sketch hold is
  the answer to the frame that is being delivered (`Flow`). `Places`, `Locals` and
  `Doing`: which locals are in use at which label, and for which request. `Chip`: a
  command and its interrupt belong to the label that waits for them, once `begin()` has
  reset the chip (`Live`). `Filling`: the transmit buffer holds the bytes taken so far,
  and a two-byte register that is read while it changes never shows a frame when none
  waits. `Ringed`: the frames lie in the receive buffer one behind the other, from where
  the driver reads to where the chip writes, and the driver is ahead of what it has told
  the chip only while a `RECV` is outstanding. Pointers count modulo 2^16 and places
  modulo the size of a ring, which divides it: `RingOfMod` and `Distance` are the
  arithmetic. For the refinement, a poll is decided where the size reads as 0 or the
  header is read, a frame posted where `SEND` is written, and the answer returned with
  its last byte.
- `FatOpen_proofs`, of the boot sector: what the checks of `mount_volume()` are worth.
  `AcceptedApart`: boot sector, FATs, root directory and clusters follow each other
  without overlap; `AcceptedEntries`: the entry of every cluster, of 12, 16 or 32
  bits, is looked up inside the first FAT; `AcceptedClusters`: every cluster is
  inside the volume and no two share a sector. They hold for every boot sector that is
  accepted and every sector size; the sums that the code takes modulo 2^32 are
  shown not to wrap for a volume that lies on a card.
- `FatOpen_proofs`, of the search: `MountedVolumeSound`, `OneVolumeForTwoDrives` and
  `SearchStaysInside`. `IInv` says what each place of a call knows: which volume is
  being tried (`Searched`), and that the boot sector in the window is the one of the
  card in the drive and was accepted (`Analysed`). Soundness is then `AcceptedApart`
  and its two companions. For the second, a call works on a drive only after its path
  was resolved, and `PathDrive` and `LookupDrive` show that the path of a drive names
  that drive. For the third, `AtEntry` ties the sector and the offset of `dir_next()`
  to the number of the entry, in a root directory of a fixed size or along a chain of
  clusters, and `AcceptedEntries` and `AcceptedClusters` bound what it asks for,
  whatever the FAT of the card says.
- `FatOpen_proofs`, of the file: `OpenedRight`, the property `OpenIsRight`, for every
  layout of cards, directories and FATs. Its invariant `RInv` adds to the one of the
  search what has been passed: no partition before the one at hand is a volume and the
  one taken is the first (`Found`), every entry before the one at hand is in use and not
  the image's (`Sought`), so that a search that ends has looked at all there is
  (`SearchedInVain`). Three groups of lemmas carry it. Names: the path of an image is
  turned into the name of a directory entry, and that is the name of the image whatever
  its number (`Created`, `EntryIsImage`). Places: the sector, offset and cluster that
  `dir_next()` keeps are those of the numbered entry (`NextPlace`, `SectorAt`). Chains:
  the cluster a FAT32 root directory has reached is the one that many links from its
  start (`Induction`, `Iterated`, `RootClusters`: the one induction of the project, which
  takes a set where the library's theorem takes an operator).
- `ImageFile_proofs`: `CardAlwaysSound`, `PositionAlwaysKnown`, `CalledFullWhenFull`,
  `TheBlockIsTransferred`, `CloseDoesSave` and `ImageIsKept`, for every size of cards,
  clusters and FAT sectors. `IInv` has two halves. `Volume`: the FAT on the card is the
  FAT in memory without the sector in the window (`Snapshot`); the file is a chain in
  memory, and a part of it long enough for its directory entry is a chain on the card
  (`Chained`, `Backed`: what makes a reset harmless); no cluster of another file is
  taken (`Owned`); the free count is never too low (`Counted`). `File`: there are
  clusters for every byte up to the size (`Sized`); the FIL knows its first cluster
  (`Started`), and its cluster is the one of its position, in the middle of
  `f_lseek()` too (`Positioned`); what the card does not have is marked as modified
  (`Marked`). `CardSound` alone is not inductive: whether a FAT sector may be written
  depends on what the FIL still means to do with it. The history variable `chain`, the
  clusters of the file in order, stands for an induction along a FAT that changes:
  the loops of the code append to it and read from it, and `Chained` ties it to the FAT.
- `Wires_proofs`, of the serial bus: `BusAlwaysSound` and `OnlyOneAnswers`, for any number of dummy
  bytes. A driver finds every select high and leaves it high (`AtRest`), except before
  the first call after a reset, when none is an output (`Untouched`); `OneAnswers`
  needs that a deselected card lets go of the line only after another exchange
  (`Talking`).
- `AppleTools_proofs`, of ALLVOLS: `TablesAlwaysSound`, `DevicesAlwaysKept` and `AllPlacesAdded`, for
  every set of drivers and every sound table. The invariant adds what the loop knows
  (`Knows`): the place it looks at is in the range of its drive, so never 0 and never
  beyond the table, and the driver it adds is one; with the checks of `addev` that
  keeps the list without duplicates and within its 14 entries. For the third,
  `Progress` says that the places behind the loop are in use; the list cannot be full
  while a place is free, since each of its entries is a different place.
- `AppleTools_proofs`, of FLASH: `PagesAlwaysInPlace` and `FlashedIsComplete`, for every length of the
  file and of a page. The page is counted three times, in the file, in the pages left and in the bank
  and page of the window, which the unlocking sequence borrows; `Counted` says that
  they agree, `Sent` that what the chip has read and what is left to send make up the
  command, `Written` that the pages before, and the bytes before in this page, are the
  file's. A byte is then only stored where everything before it is new, so a stop leaves
  one place at most where new meets old, and a second run passes it.

The assumptions of the proofs are the named ASSUMEs of the modules; TLC evaluates
each of them in the runs. Two were added for the proofs: the Apple has some call to
make (`RequestsAssumption`), without which `BlockDevice` could not start, and a sector
holds a whole number of directory entries (`SizeAssumption`), as every power of two
above 32 does. One was made stronger: boot sectors lie below sector 0xFFFFFFFF
(`CardAssumption`), which is the number `move_window()` gives the window after a failed
read; a partition that began there would be taken for already read, and no card has
that sector. One was made weaker, so that it includes the sizes of the code: in
`Ethernet` a byte may have any number of values above one, and the commands are numbered
above them (`SizesAssumption`). That a ring is smaller than the range of its pointers and
divides it, and that a frame with its header fits in it (`FramesAssumption`), is what
the arithmetic of the pointers rests on.

A module of proofs may hold those of two components (`SlotManager_proofs`,
`Wires_proofs`, `AppleTools_proofs`). It extends both, so `Flash`, `SpiBus` and
`VolumeSelector` have definitions of names of their own (`FlashInit`, `BusNext`,
`SelectorSpec`).

Only model-checked: the liveness properties (`CallsReturn` of `CommandLink` and
`Ethernet`, `CallEnds` of `SdCard` and `FatOpen`), since liveness under fairness is out
of the prover's reach. Every other property of a passing run is a theorem.

## 6. Where documentation and code disagree

- **Wide mode** (`slot_wide`). README.md:33 and :39 say that with `!` for CARD 1
  both drives go to SLOT 1 and the choice for CARD 2 does not matter.
  `do_set_volume()` brings up drive 2 first (`ino:510-513`); if it comes up raw or
  with an image, `initialize_drive()` refuses wide mode for drive 1 (`ino:247`):
  drive 1 has no device until the next start, when `setup()` takes the drives in
  the other order and the configuration works as documented.

Three more, which no run refutes: the first is about a restriction the code does not
have, the second outside the modelled part, and the third what `CallsReturn` leaves
out by speaking of a card with a chip:

- README.md:39 says only one slot can be in FAT mode at a time. The sketch allows
  both and moves its one mounted volume between them (`ino:191-214`);
  `HandleMatches`, `HandleNeverStale` and `OneVolumeForTwoDrives` show that this is
  safe.
- `flash.asm:152`: ESC goes to `waitenter`, which writes a mode word through
  `ioffset`, and `ioffset` has not been set when no card was found or chosen. The
  store goes to one of the addresses `$BFFB` to `$C0FA`, in the slots or in the
  global page.
- `w5500.h:65`: `begin()` returns whether setting up the interface was successful, and
  the sketch has an answer for either case (`ino:544-558`). Without a chip it does not
  return: it leaves the pull-up of the answer line on (`w5500.cpp:308`), so the command
  register reads as ones, and `setSn_CR()` (`w5500.cpp:160`) waits for it to be 0. In
  `Ethernet` the sketch is then stuck at the label `cr` until RESET.

Behaviour worth knowing that contradicts no text:

- The two orders matter the other way round too: the numbers (0, 255) give two wide
  drives now, and a raw drive 1 and no drive 2 after a reset.
- A failed write is never reported: the status was sent before the data.
- An image on a swapped card answers with errors until a reset or a change of
  volumes. README.md:43 recommends swapping cards in SLOT 2; what is shown here is
  that it is safe, not that it works without a reset.
- In file mode the slot bits of a unit are ignored, so volumes that ALLVOLS added
  to a drive that is an image are all that same image.
- A read beyond the end of an image makes the image longer, because `f_lseek()` of
  a file open for writing does; the new blocks show what the clusters held before.
- A disk error stays with the open image until it is opened again.
- A frame that could not be sent is answered with 0 like one that was.
- A read error on one partition makes the search go on to the next: with a bad
  first read, the image of a later partition may be opened, if it has one of
  that number (`OpenIsRight` allows it only after a failed access).

## 7. Not modelled, and what is left

| Next | What | Properties and theorems |
|---|---|---|
| 1 | `ImageFile` on FAT12, where an entry may straddle two sectors, and with the second copy of the FAT | a reset between the two halves of an entry; the two copies after a reset |

Left out for good: the serial debugging code, which is not compiled in; the boot
screen of the ROM and its search for other slots, which only choose among modelled
calls; the parts of FatFs the sketch does not call (creating, deleting,
formatting, subdirectories, long names) or never reaches (positions inside a
sector); the multiple-block and information commands of the SD driver, the PHY
functions of the Ethernet driver; the board, the cases and the disk images, which
are no program.
