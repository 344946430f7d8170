------------------------------ MODULE AllVols ------------------------------
(***************************************************************************)
(* ALLVOLS.SYSTEM: gives ProDOS the volumes of a card beyond its two       *)
(* drives, by adding the driver of the card to free places of the table of *)
(* drivers and listing them as devices, both in the global page of ProDOS. *)
(*                                                                         *)
(* A place is 0 to 15, the upper four bits of a unit number: drive 1 of    *)
(* slot s is s, drive 2 is s + 8, and place 0 holds the driver that only   *)
(* answers "no device".  The program may be run again and again.           *)
(***************************************************************************)
EXTENDS Naturals

CONSTANTS Drivers,   \* the entry points of drivers
          NoDevice,  \* the one of "no device"
          Tables,    \* the tables ProDOS may have when the program is first run
          Presets    \* confbt and slotbt in copies of the file; both 0: ask the user

Places  == 0..15
Devices == Places \ {0, 8}
LastEntry    == 13                    \* the list has 14 entries

\* What ProDOS keeps: every driver in the table is listed, and listed once.
Sound(t) ==
    /\ t.driver[0] = NoDevice
    /\ {t.list[i] : i \in 0..t.count} = {p \in Devices : t.driver[p] # NoDevice}
    /\ \A i, j \in 0..t.count : t.list[i] = t.list[j] => i = j

IsTable(t) ==
    /\ t.driver \in [Places -> Drivers \cup {NoDevice}]
    /\ t.count \in 0..LastEntry                  \* the number of devices less one
    /\ t.list \in [0..LastEntry -> Places]

ASSUME DriversAssumption == NoDevice \notin Drivers
ASSUME TablesAssumption  == \A t \in Tables : IsTable(t) /\ Sound(t)
ASSUME PresetsAssumption ==
    \A f \in Presets : /\ f.conf \in 0..3 /\ f.slot \in Places
                       /\ \A t \in Tables : f.slot = 0 \/ t.driver[f.slot] # NoDevice

VARIABLES pc,
          confbt, slotbt,               \* what to add, and with whose driver
          devrt,                        \* devrtlo, devrthi
          x, highdev,                   \* the place looked at, the end of the range
          drivertb, countdev, listdev,  \* $BF10, $BF31, $BF32
          lastdev                       \* $BF30, the device used last

tables == <<drivertb, countdev, listdev, lastdev>>
vars   == <<pc, confbt, slotbt, devrt, x, highdev, drivertb, countdev, listdev, lastdev>>

Listed == {listdev[i] : i \in 0..countdev}

Init ==
    /\ \E t \in Tables : drivertb = t.driver /\ countdev = t.count /\ listdev = t.list
    /\ lastdev \in Listed
    /\ \E f \in Presets : confbt = f.conf /\ slotbt = f.slot
    /\ pc = "start"
    /\ devrt = NoDevice /\ x = 0 /\ highdev = 0

-----------------------------------------------------------------------------
\* start1: with nothing preset the user chooses.
Key(c) ==
    /\ pc = "start" /\ confbt = 0
    /\ confbt' = c /\ pc' = "addvols"
    /\ UNCHANGED <<slotbt, devrt, x, highdev, tables>>

Escape ==
    /\ pc = "start" /\ confbt = 0 /\ pc' = "quit"
    /\ UNCHANGED <<confbt, slotbt, devrt, x, highdev, tables>>

Preset ==
    /\ pc = "start" /\ confbt # 0 /\ pc' = "addvols"
    /\ UNCHANGED <<confbt, slotbt, devrt, x, highdev, tables>>

\* Wrong on purpose: drive 2 of slot 0 is taken for a device.
SecondRangeEarly == x' = 8 /\ highdev' = 16

FirstRange  == x' = 1 /\ highdev' = 8
SecondRange == x' = 9 /\ highdev' = 16

\* addvols: the driver is the one of the device in slotbt, or of the device the
\* program was loaded from.
AddVols ==
    /\ pc = "addvols" /\ pc' = "addev"
    /\ slotbt' = IF slotbt = 0 THEN lastdev ELSE slotbt
    /\ devrt' = drivertb[slotbt']
    /\ IF confbt = 2 THEN SecondRange ELSE FirstRange
    /\ UNCHANGED <<confbt, tables>>

\* The end of confrange, and what confbt has left to do.
QuitConf ==
    /\ IF confbt = 3 /\ highdev = 8
         THEN SecondRange /\ UNCHANGED pc
         ELSE pc' = "quit" /\ UNCHANGED <<x, highdev>>
    /\ UNCHANGED <<confbt, slotbt, devrt, tables>>

\* Wrong on purpose: countdev is counted up after it was used.
AddSlotAtCount ==
    /\ drivertb' = [drivertb EXCEPT ![x] = devrt]
    /\ countdev' = countdev + 1
    /\ listdev' = [listdev EXCEPT ![countdev] = x]

\* addslot.
AddSlot ==
    /\ drivertb' = [drivertb EXCEPT ![x] = devrt]
    /\ countdev' = countdev + 1
    /\ listdev' = [listdev EXCEPT ![countdev + 1] = x]

Full == countdev >= LastEntry

\* Wrong on purpose: whatever is in the table is replaced.
FreeAlways == TRUE

Free == drivertb[x] = drivertb[0]

\* addev: one place of the range.
AddDev ==
    /\ pc = "addev"
    /\ IF Full \/ x >= highdev
         THEN QuitConf
         ELSE /\ IF Free THEN AddSlot ELSE UNCHANGED <<drivertb, countdev, listdev>>
              /\ x' = x + 1
              /\ UNCHANGED <<pc, confbt, slotbt, devrt, highdev, lastdev>>

\* ProDOS, other programs, and the program, or another copy of it, once more:
\* any device may have been used last.
Again ==
    /\ pc = "quit" /\ pc' = "start"
    /\ lastdev' \in Listed
    /\ \E f \in Presets : confbt' = f.conf /\ slotbt' = f.slot
    /\ devrt' = NoDevice /\ x' = 0 /\ highdev' = 0
    /\ UNCHANGED <<drivertb, countdev, listdev>>

Next ==
    \/ \E c \in 1..3 : Key(c)
    \/ Escape \/ Preset \/ AddVols \/ AddDev \/ Again

Spec == Init /\ [][Next]_vars

-----------------------------------------------------------------------------
\* Every variable has its type: the list of 14 devices is never overrun.
TypeOK ==
    /\ pc \in {"start", "addvols", "addev", "quit"}
    /\ confbt \in 0..3 /\ slotbt \in Places
    /\ devrt \in Drivers \cup {NoDevice}
    /\ x \in 0..16 /\ highdev \in {0, 8, 16}
    /\ drivertb \in [Places -> Drivers \cup {NoDevice}]
    /\ countdev \in 0..LastEntry /\ listdev \in [0..LastEntry -> Places]
    /\ lastdev \in Places

\* After every addition, and however often the program is run, the tables are
\* what ProDOS expects: a driver behind every listed device, every driver
\* listed, and listed once, no device in slot 0.
TablesSound == Sound([driver |-> drivertb, count |-> countdev, list |-> listdev])

\* What the program knows on the way: the driver it adds is one, the place it
\* looks at is a device's, the device used last is in the list, and so is the one
\* a copy of the file is set to.
Knows ==
    /\ lastdev \in Listed
    /\ pc \in {"start", "addvols"} => slotbt = 0 \/ drivertb[slotbt] # NoDevice
    /\ pc = "addev" => /\ devrt # NoDevice
                       /\ \/ highdev = 8 /\ x \in 1..8
                          \/ highdev = 16 /\ x \in 9..16
    /\ \A f \in Presets : f.slot = 0 \/ drivertb[f.slot] # NoDevice

IInv == TypeOK /\ TablesSound /\ Knows

\* No device that ProDOS has, or that an earlier run added, loses its driver or
\* its place in the list.
DevicesKept ==
    [][/\ \A p \in Devices : drivertb[p] # NoDevice => drivertb'[p] = drivertb[p]
       /\ countdev' >= countdev /\ \A i \in 0..countdev : listdev'[i] = listdev[i]]_vars

\* When the program ends after a choice, the places chosen are all in use: no
\* volume of the slot is left out because the list was taken for full.
Chosen(c) == (IF c # 2 THEN 1..7 ELSE {}) \cup (IF c # 1 THEN 9..15 ELSE {})

AllAdded == pc = "quit" /\ confbt # 0 => \A p \in Chosen(confbt) : drivertb[p] # NoDevice
=============================================================================
