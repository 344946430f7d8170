--------------------------- MODULE AppleTools_proofs ---------------------------
(***************************************************************************)
(* Proofs about the two tools that run on the Apple.  AllVols: for every   *)
(* set of drivers, every table ProDOS may have and every copy of the file, *)
(* the tables stay sound and no device is lost.  Flash: for every length   *)
(* of the image and everything other programs leave in the zero page,      *)
(* wherever the program is stopped and however often it is started again,  *)
(* the ROM is the image up to some byte and what it was from there, and    *)
(* "FLASHING COMPLETE" is said of a ROM that is complete and protected.    *)
(***************************************************************************)
EXTENDS AllVols, Flash, FiniteSetTheorems, SequenceTheorems, TLAPS

Table == [driver |-> drivertb, count |-> countdev, list |-> listdev]

LEMMA SoundTable ==
    TablesSound <=> /\ drivertb[0] = NoDevice
                    /\ Listed = {p \in Devices : drivertb[p] # NoDevice}
                    /\ \A i, j \in 0..countdev : listdev[i] = listdev[j] => i = j
BY DEF TablesSound, Sound, Listed

\* Initially the tables are those of ProDOS.
LEMMA InitIInv == Init => IInv
<1> SUFFICES ASSUME Init PROVE IInv
    OBVIOUS
<1>1. PICK t \in Tables : drivertb = t.driver /\ countdev = t.count /\ listdev = t.list
    BY DEF Init
<1>2. IsTable(t) /\ Sound(t)
    BY TablesAssumption
<1>3. PICK f \in Presets : confbt = f.conf /\ slotbt = f.slot
    BY DEF Init
<1>4. f.conf \in 0..3 /\ f.slot \in Places /\ (f.slot = 0 \/ t.driver[f.slot] # NoDevice)
    BY PresetsAssumption
<1>5. TablesSound
    BY <1>1, <1>2 DEF TablesSound, Sound
<1>6. drivertb \in [Places -> Drivers \cup {NoDevice}] /\ countdev \in 0..LastEntry
        /\ listdev \in [0..LastEntry -> Places]
    BY <1>1, <1>2 DEF IsTable
<1>7. lastdev \in Listed /\ lastdev \in Places
    BY <1>6 DEF Init, Listed, LastEntry
<1>8. TypeOK
    BY <1>3, <1>4, <1>6, <1>7 DEF Init, TypeOK
<1>8a. \A g \in Presets : g.slot = 0 \/ drivertb[g.slot] # NoDevice
    BY <1>1, PresetsAssumption
<1>9. Knows
    BY <1>1, <1>3, <1>4, <1>7, <1>8a DEF Init, Knows
<1> QED BY <1>5, <1>8, <1>9 DEF IInv

\* A device in the list has a driver.
LEMMA ListedHaveDrivers ==
    ASSUME TablesSound, NEW p \in Listed
    PROVE  p \in Devices /\ drivertb[p] # NoDevice
BY SoundTable

\* Adding a free place to tables that are sound and not full keeps them sound.
LEMMA AddSlotSound ==
    ASSUME TypeOK, TablesSound, AddSlot, Free, ~Full,
           x \in Devices, devrt # NoDevice
    PROVE  /\ TablesSound'
           /\ drivertb' \in [Places -> Drivers \cup {NoDevice}]
           /\ countdev' \in 0..LastEntry /\ listdev' \in [0..LastEntry -> Places]
           /\ Listed \subseteq Listed'
<1>1. countdev \in 0..12 /\ countdev' = countdev + 1
    BY DEF TypeOK, Full, LastEntry, AddSlot
<1>2. drivertb[x] = NoDevice
    BY SoundTable DEF Free
<1>3. x \notin Listed
    BY <1>2, ListedHaveDrivers
<1>4. \A i \in 0..countdev : listdev'[i] = listdev[i]
    BY <1>1 DEF TypeOK, AddSlot, LastEntry
<1>5. listdev'[countdev + 1] = x
    BY <1>1 DEF TypeOK, AddSlot, LastEntry
<1>6. 0..countdev' = 0..countdev \cup {countdev + 1}
    BY <1>1
<1>7. Listed' = Listed \cup {x}
    <2>1. Listed' = {listdev'[i] : i \in 0..countdev'}
        BY DEF Listed
    <2>2. ASSUME NEW p \in Listed' PROVE p \in Listed \cup {x}
        <3>1. PICK i \in 0..countdev' : p = listdev'[i]
            BY <2>1
        <3>2. CASE i \in 0..countdev
            BY <3>1, <3>2, <1>4 DEF Listed
        <3>3. CASE i = countdev + 1
            BY <3>1, <3>3, <1>5
        <3> QED BY <3>2, <3>3, <1>6
    <2>3. ASSUME NEW p \in Listed PROVE p \in Listed'
        <3>1. PICK i \in 0..countdev : p = listdev[i]
            BY DEF Listed
        <3> QED BY <3>1, <1>4, <1>6, <2>1
    <2>4. x \in Listed'
        BY <1>5, <1>6, <2>1
    <2> QED BY <2>2, <2>3, <2>4
<1>8. \A p \in Places : drivertb'[p] = IF p = x THEN devrt ELSE drivertb[p]
    BY DEF AddSlot, TypeOK
<1>9. Listed' = {p \in Devices : drivertb'[p] # NoDevice}
    <2>1. Listed = {p \in Devices : drivertb[p] # NoDevice}
        BY SoundTable
    <2> QED BY <2>1, <1>7, <1>8 DEF Devices
<1>10. drivertb'[0] = NoDevice
    BY <1>8, SoundTable DEF Devices, Places
<1>11. \A i, j \in 0..countdev' : listdev'[i] = listdev'[j] => i = j
    <2> SUFFICES ASSUME NEW i \in 0..countdev', NEW j \in 0..countdev',
                        listdev'[i] = listdev'[j]
                 PROVE  i = j
        OBVIOUS
    <2>1. \A n \in 0..countdev : listdev'[n] \in Listed
        BY <1>4 DEF Listed
    <2>2. CASE i \in 0..countdev /\ j \in 0..countdev
        BY <2>2, <1>4, SoundTable
    <2>3. CASE i = countdev + 1 /\ j \in 0..countdev
        BY <2>3, <2>1, <1>3, <1>5
    <2>4. CASE i \in 0..countdev /\ j = countdev + 1
        BY <2>4, <2>1, <1>3, <1>5
    <2>5. CASE i = countdev + 1 /\ j = countdev + 1
        BY <2>5
    <2> QED BY <2>2, <2>3, <2>4, <2>5, <1>6
<1>12. TablesSound'
    BY <1>9, <1>10, <1>11 DEF TablesSound, Sound, Listed
<1>13. /\ drivertb' \in [Places -> Drivers \cup {NoDevice}]
       /\ countdev' \in 0..LastEntry
       /\ listdev' \in [0..LastEntry -> Places]
    BY <1>1 DEF AddSlot, TypeOK, LastEntry, Devices
<1> QED BY <1>7, <1>12, <1>13

-----------------------------------------------------------------------------
\* The tables do not change in a step that leaves them alone.
LEMMA TablesUnchanged ==
    ASSUME TablesSound, UNCHANGED <<drivertb, countdev, listdev>>
    PROVE  TablesSound' /\ Listed' = Listed
BY DEF TablesSound, Sound, Listed

LEMMA NextIInv == IInv /\ [Next]_vars => IInv'
<1> SUFFICES ASSUME IInv, [Next]_vars PROVE IInv'
    OBVIOUS
<1> USE DEF IInv
<1>1. ASSUME NEW c \in 1..3, Key(c) PROVE IInv'
    <2>1. TablesSound' /\ Listed' = Listed
        BY <1>1, TablesUnchanged DEF Key, tables
    <2>2. TypeOK'
        BY <1>1 DEF Key, tables, TypeOK
    <2>3. Knows'
        BY <1>1, <2>1 DEF Key, tables, Knows
    <2> QED BY <2>1, <2>2, <2>3
<1>2. CASE Escape
    <2>1. TablesSound' /\ Listed' = Listed
        BY <1>2, TablesUnchanged DEF Escape, tables
    <2>2. TypeOK'
        BY <1>2 DEF Escape, tables, TypeOK
    <2>3. Knows'
        BY <1>2, <2>1 DEF Escape, tables, Knows
    <2> QED BY <2>1, <2>2, <2>3
<1>3. CASE Preset
    <2>1. TablesSound' /\ Listed' = Listed
        BY <1>3, TablesUnchanged DEF Preset, tables
    <2>2. TypeOK'
        BY <1>3 DEF Preset, tables, TypeOK
    <2>3. Knows'
        BY <1>3, <2>1 DEF Preset, tables, Knows
    <2> QED BY <2>1, <2>2, <2>3
<1>4. CASE AddVols
    <2>1. TablesSound' /\ Listed' = Listed
        BY <1>4, TablesUnchanged DEF AddVols, tables
    <2>2. slotbt' \in Places /\ drivertb[slotbt'] # NoDevice
        BY <1>4, ListedHaveDrivers DEF AddVols, Knows, TypeOK, Devices
    <2>3. devrt' \in Drivers /\ devrt' # NoDevice
        BY <1>4, <2>2 DEF AddVols, TypeOK
    <2>4. (highdev' = 8 /\ x' = 1) \/ (highdev' = 16 /\ x' = 9)
        BY <1>4 DEF AddVols, FirstRange, SecondRange
    <2>5. TypeOK'
        BY <1>4, <2>2, <2>3, <2>4 DEF AddVols, tables, TypeOK
    <2>6. Knows'
        BY <1>4, <2>1, <2>3, <2>4 DEF AddVols, tables, Knows
    <2> QED BY <2>1, <2>5, <2>6
<1>5. CASE AddDev
    <2>1. devrt # NoDevice /\ ((highdev = 8 /\ x \in 1..8) \/ (highdev = 16 /\ x \in 9..16))
        BY <1>5 DEF AddDev, Knows
    <2>2. CASE Full \/ x >= highdev
        <3>1. QuitConf
            BY <1>5, <2>2 DEF AddDev
        <3>2. TablesSound' /\ Listed' = Listed
            BY <3>1, TablesUnchanged DEF QuitConf, tables
        <3>3. TypeOK'
            BY <1>5, <3>1 DEF QuitConf, SecondRange, tables, TypeOK, AddDev
        <3>4. Knows'
            BY <1>5, <2>1, <3>1, <3>2 DEF QuitConf, SecondRange, tables, Knows, AddDev
        <3> QED BY <3>2, <3>3, <3>4
    <2>3. CASE ~(Full \/ x >= highdev)
        <3>1. x \in Devices /\ x < 16 /\ x + 1 \in 0..16
                /\ ((highdev = 8 /\ x + 1 \in 1..8) \/ (highdev = 16 /\ x + 1 \in 9..16))
            BY <2>1, <2>3 DEF Devices, Places
        <3>2. x' = x + 1 /\ UNCHANGED <<pc, confbt, slotbt, devrt, highdev, lastdev>>
            BY <1>5, <2>3 DEF AddDev
        <3>3. /\ TablesSound' /\ Listed \subseteq Listed'
              /\ drivertb' \in [Places -> Drivers \cup {NoDevice}]
              /\ countdev' \in 0..LastEntry /\ listdev' \in [0..LastEntry -> Places]
            <4>1. CASE Free
                <5>1. AddSlot
                    BY <1>5, <2>3, <4>1 DEF AddDev
                <5> QED BY <5>1, <4>1, <2>1, <2>3, <3>1, AddSlotSound
            <4>2. CASE ~Free
                <5>1. UNCHANGED <<drivertb, countdev, listdev>>
                    BY <1>5, <2>3, <4>2 DEF AddDev
                <5> QED BY <5>1, TablesUnchanged DEF TypeOK
            <4> QED BY <4>1, <4>2
        <3>4. TypeOK'
            BY <3>1, <3>2, <3>3 DEF TypeOK
        <3>5. ASSUME NEW q, q = 0 \/ drivertb[q] # NoDevice, q \in Places
              PROVE  q = 0 \/ drivertb'[q] # NoDevice
            BY <1>5, <2>1, <2>3, <3>1, <3>5 DEF AddDev, AddSlot, TypeOK
        <3>6. \A f \in Presets : f.slot = 0 \/ drivertb'[f.slot] # NoDevice
            BY <3>5, PresetsAssumption DEF Knows
        <3>7. lastdev' \in Listed' /\ pc' = "addev" /\ devrt' # NoDevice
            BY <1>5, <2>1, <3>2, <3>3 DEF Knows, AddDev
        <3>8. \/ highdev' = 8 /\ x' \in 1..8
              \/ highdev' = 16 /\ x' \in 9..16
            BY <3>1, <3>2
        <3>9. Knows'
            BY <3>6, <3>7, <3>8 DEF Knows
        <3> QED BY <3>3, <3>4, <3>9
    <2> QED BY <2>2, <2>3
<1>6. CASE Again
    <2>1. TablesSound' /\ Listed' = Listed
        BY <1>6, TablesUnchanged DEF Again
    <2>2. PICK f \in Presets : confbt' = f.conf /\ slotbt' = f.slot
        BY <1>6 DEF Again
    <2>3. f.conf \in 0..3 /\ f.slot \in Places
        BY PresetsAssumption
    <2>4. lastdev' \in Listed /\ lastdev' \in Places
        BY <1>6, ListedHaveDrivers DEF Again, Devices
    <2>5. TypeOK'
        BY <1>6, <2>2, <2>3, <2>4 DEF Again, TypeOK
    <2>6. Knows'
        BY <1>6, <2>1, <2>2, <2>4 DEF Again, Knows
    <2> QED BY <2>1, <2>5, <2>6
<1>7. CASE UNCHANGED vars
    <2>1. TablesSound' /\ Listed' = Listed
        BY <1>7, TablesUnchanged DEF vars
    <2> QED BY <1>7, <2>1 DEF vars, TypeOK, Knows
<1> QED BY <1>1, <1>2, <1>3, <1>4, <1>5, <1>6, <1>7 DEF Next

\* The tables of ProDOS are sound at every moment, for every table ProDOS may
\* have had, and never longer than there is room for (confrange).
THEOREM TablesAlwaysSound == Spec => [](TypeOK /\ TablesSound)
<1>1. IInv => TypeOK /\ TablesSound
    BY DEF IInv
<1> QED BY <1>1, InitIInv, NextIInv, PTL DEF Spec

\* A step that changes the tables keeps what was in them.
LEMMA StepKeepsDevices ==
    ASSUME IInv, [Next]_vars
    PROVE  /\ \A p \in Devices : drivertb[p] # NoDevice => drivertb'[p] = drivertb[p]
           /\ countdev' >= countdev /\ \A i \in 0..countdev : listdev'[i] = listdev[i]
<1>1. CASE AddDev /\ ~(Full \/ x >= highdev) /\ Free
    <2>1. AddSlot
        BY <1>1 DEF AddDev
    <2>2. drivertb[x] = NoDevice
        BY <1>1, SoundTable DEF Free, IInv
    <2>3. countdev \in 0..12 /\ countdev' = countdev + 1
        BY <1>1, <2>1 DEF IInv, TypeOK, Full, LastEntry, AddSlot
    <2>4. \A i \in 0..countdev : listdev'[i] = listdev[i]
        BY <2>1, <2>3 DEF IInv, TypeOK, AddSlot, LastEntry
    <2>5. \A p \in Devices : drivertb[p] # NoDevice => drivertb'[p] = drivertb[p]
        BY <2>1, <2>2 DEF IInv, TypeOK, AddSlot, Devices
    <2> QED BY <2>3, <2>4, <2>5
<1>2. CASE UNCHANGED <<drivertb, countdev, listdev>>
    BY <1>2 DEF IInv, TypeOK
<1>3. \/ AddDev /\ ~(Full \/ x >= highdev) /\ Free
      \/ UNCHANGED <<drivertb, countdev, listdev>>
    BY DEF Next, vars, tables, Key, Escape, Preset, AddVols, AddDev, QuitConf, Again
<1> QED BY <1>1, <1>2, <1>3

\* No device of ProDOS, nor one added before, ever loses its driver or its place
\* in the list.
THEOREM DevicesAlwaysKept == Spec => DevicesKept
<1>1. IInv /\ [Next]_vars =>
        [/\ \A p \in Devices : drivertb[p] # NoDevice => drivertb'[p] = drivertb[p]
         /\ countdev' >= countdev /\ \A i \in 0..countdev : listdev'[i] = listdev[i]]_vars
    BY StepKeepsDevices
<1> QED BY <1>1, InitIInv, NextIInv, PTL DEF Spec, DevicesKept

-----------------------------------------------------------------------------
(* AllAdded.  What the program has done so far: the places of the range it has *)
(* passed are in use, and with both drives asked for the first range is done   *)
(* before the second begins.                                                   *)

First  == 1..7
Second == 9..15
InUse(places) == \A p \in places : drivertb[p] # NoDevice

Progress ==
    /\ pc = "addvols" => confbt # 0
    /\ pc = "addev" => /\ \/ highdev = 8 /\ confbt \in {1, 3}
                          \/ highdev = 16 /\ confbt \in {2, 3}
                       /\ InUse({p \in First : p < x /\ confbt # 2})
                       /\ InUse({p \in Second : p < x})
    /\ AllAdded

\* The places a choice asks for are devices.
LEMMA ChosenAreDevices == \A c : Chosen(c) \subseteq Devices
BY DEF Chosen, Devices, Places

\* How many numbers there are from a to a + n.
LEMMA Interval ==
    ASSUME NEW a \in Nat, NEW n \in Nat
    PROVE  IsFiniteSet(a..(a + n)) /\ Cardinality(a..(a + n)) = n + 1
<1>1. a \in Int /\ a + n \in Int /\ ~(a > a + n) /\ (a + n) - a + 1 = n + 1
    OBVIOUS
<1> DEFINE b == a + n
<1>2. b \in Int /\ ~(a > b) /\ b - a + 1 = n + 1
    BY <1>1
<1> HIDE DEF b
<1>3. IsFiniteSet(a..b) /\ Cardinality(a..b) = n + 1
    BY <1>1, <1>2, FS_Interval
<1> QED BY <1>3 DEF b

\* There are 14 places for devices.
LEMMA DevicesCounted == IsFiniteSet(Devices) /\ Cardinality(Devices) = 14
<1>1. IsFiniteSet(1..(1 + 6)) /\ Cardinality(1..(1 + 6)) = 6 + 1
    BY Interval
<1>2. IsFiniteSet(9..(9 + 6)) /\ Cardinality(9..(9 + 6)) = 6 + 1
    BY Interval
<1>3. (1..7) \cap (9..15) = {}
    OBVIOUS
<1>4. Devices = (1..7) \cup (9..15)
    BY DEF Devices, Places
<1>5. Cardinality({}) = 0
    BY FS_EmptySet
<1> QED BY <1>1, <1>2, <1>3, <1>4, <1>5, FS_Union

\* The list has room for every device there can be: when it is full, each of
\* them is in it (the entries differ, and there are as many as devices).
LEMMA FullMeansAllInUse ==
    ASSUME TypeOK, TablesSound, Full
    PROVE  InUse(Devices)
<1>1. countdev = 13
    BY DEF TypeOK, Full, LastEntry
<1>2. listdev \in [0..13 -> Places]
    BY DEF TypeOK, LastEntry
<1>3. \A i \in 0..13 : listdev[i] \in Devices /\ drivertb[listdev[i]] # NoDevice
    BY <1>1, ListedHaveDrivers DEF Listed
<1>4. \A i, j \in 0..13 : listdev[i] = listdev[j] => i = j
    BY <1>1, SoundTable
<1>5. listdev \in Injection(0..13, Devices)
    BY <1>2, <1>3, <1>4 DEF Injection, IsInjective
<1>6. IsFiniteSet(0..13) /\ Cardinality(0..13) = 14
    <2>1. IsFiniteSet(0..(0 + 13)) /\ Cardinality(0..(0 + 13)) = 13 + 1
        BY Interval
    <2> QED BY <2>1
<1>7. listdev \in Surjection(0..13, Devices)
    BY <1>5, <1>6, DevicesCounted, FS_Injection
<1>8. ASSUME NEW p \in Devices PROVE drivertb[p] # NoDevice
    <2>1. \E i \in 0..13 : listdev[i] = p
        BY <1>7 DEF Surjection
    <2> QED BY <2>1, <1>3
<1> QED BY <1>8 DEF InUse

\* Each step keeps what was done, and the end is only reached when all is.
LEMMA NextProgress ==
    ASSUME IInv, Progress, [Next]_vars
    PROVE  Progress'
<1> USE DEF Progress
<1>1. ASSUME NEW c \in 1..3, Key(c) PROVE Progress'
    BY <1>1 DEF Key, tables, AllAdded
<1>2. CASE Escape
    BY <1>2 DEF Escape, tables, AllAdded
<1>3. CASE Preset
    BY <1>3 DEF Preset, tables, AllAdded
<1>4. CASE AddVols
    <2>1. pc' = "addev" /\ confbt' = confbt /\ confbt \in 1..3
        BY <1>4 DEF AddVols, IInv, TypeOK
    <2>2. CASE confbt = 2
        BY <1>4, <2>1, <2>2 DEF AddVols, SecondRange, InUse, Second, AllAdded
    <2>3. CASE confbt # 2
        BY <1>4, <2>1, <2>3 DEF AddVols, FirstRange, InUse, First, Second, AllAdded
    <2> QED BY <2>2, <2>3
<1>5. CASE AddDev
    <2>1. /\ pc = "addev" /\ devrt # NoDevice
          /\ (highdev = 8 /\ x \in 1..8) \/ (highdev = 16 /\ x \in 9..16)
        BY <1>5 DEF AddDev, IInv, Knows
    <2>2. CASE Full \/ x >= highdev
        <3>1. QuitConf /\ drivertb' = drivertb /\ confbt' = confbt
            BY <1>5, <2>2 DEF AddDev, QuitConf, tables
        <3>2. CASE Full
            <4>1. InUse(Devices)
                BY <3>2, FullMeansAllInUse DEF IInv
            <4>2. \A p \in Devices : drivertb'[p] # NoDevice
                BY <3>1, <4>1 DEF InUse
            <4>3. \A p \in Chosen(confbt') : drivertb'[p] # NoDevice
                BY <4>2, ChosenAreDevices
            <4>4. First \subseteq Devices /\ Second \subseteq Devices
                BY DEF First, Second, Devices, Places
            <4>5. InUse({p \in First : p < x /\ confbt # 2})' /\ InUse({p \in Second : p < x})'
                BY <4>2, <4>4 DEF InUse
            <4>6. AllAdded'
                BY <4>3 DEF AllAdded
            <4> QED BY <2>1, <3>1, <4>5, <4>6 DEF QuitConf, SecondRange
        <3>3. CASE x >= highdev
            <4>1. CASE highdev = 8
                <5>1. x = 8 /\ confbt \in {1, 3} /\ \A p \in 1..7 : drivertb[p] # NoDevice
                    BY <2>1, <3>3, <4>1 DEF InUse, First
                <5>2. CASE confbt = 1
                    BY <2>1, <3>1, <4>1, <5>1, <5>2 DEF QuitConf, AllAdded, Chosen
                <5>3. CASE confbt = 3
                    BY <2>1, <3>1, <4>1, <5>1, <5>3
                    DEF QuitConf, SecondRange, InUse, First, Second, AllAdded
                <5> QED BY <5>1, <5>2, <5>3
            <4>2. CASE highdev = 16
                <5>1. x = 16 /\ confbt \in {2, 3} /\ \A p \in 9..15 : drivertb[p] # NoDevice
                    BY <2>1, <3>3, <4>2 DEF InUse, Second
                <5>2. confbt = 3 => \A p \in 1..7 : drivertb[p] # NoDevice
                    BY <2>1, <5>1 DEF InUse, First
                <5> QED BY <2>1, <3>1, <4>2, <5>1, <5>2 DEF QuitConf, AllAdded, Chosen
            <4> QED BY <2>1, <4>1, <4>2
        <3> QED BY <2>2, <3>2, <3>3
    <2>3. CASE ~(Full \/ x >= highdev)
        <3>1. x' = x + 1 /\ x \in 1..15 /\ UNCHANGED <<pc, confbt, highdev>>
            BY <1>5, <2>1, <2>3 DEF AddDev
        <3>2. \A p \in Devices : drivertb[p] # NoDevice => drivertb'[p] # NoDevice
            BY StepKeepsDevices
        <3>3. drivertb'[x] # NoDevice
            BY SMTT(20), <1>5, <2>1, <2>3, <3>1, SoundTable
            DEF AddDev, AddSlot, Free, IInv, TypeOK, Places
        <3>4. ASSUME NEW p \in First, p < x', confbt # 2
              PROVE  drivertb'[p] # NoDevice
            <4>1. p < x \/ p = x
                BY <3>1, <3>4 DEF First
            <4> QED BY <2>1, <3>2, <3>3, <3>4, <4>1 DEF First, InUse, Devices, Places
        <3>5. ASSUME NEW p \in Second, p < x'
              PROVE  drivertb'[p] # NoDevice
            <4>1. p < x \/ p = x
                BY <3>1, <3>5 DEF Second
            <4> QED BY <2>1, <3>2, <3>3, <3>5, <4>1 DEF Second, InUse, Devices, Places
        <3> QED BY <2>1, <3>1, <3>4, <3>5 DEF InUse, AllAdded
    <2> QED BY <2>2, <2>3
<1>6. CASE Again
    BY <1>6 DEF Again, AllAdded
<1>7. CASE UNCHANGED vars
    BY <1>7 DEF vars, AllAdded, InUse
<1> QED BY <1>1, <1>2, <1>3, <1>4, <1>5, <1>6, <1>7 DEF Next

\* When the program ends after a choice, every place chosen is in use, whatever
\* tables ProDOS had: none is left out because the list was taken for full.
THEOREM AllPlacesAdded == Spec => []AllAdded
<1>1. Init => Progress
    BY DEF Init, Progress, AllAdded
<1>2. IInv /\ Progress /\ [Next]_vars => Progress'
    BY NextProgress
<1>3. Progress => AllAdded
    BY DEF Progress
<1> QED BY <1>1, <1>2, <1>3, InitIInv, NextIInv, PTL DEF Spec

-----------------------------------------------------------------------------
(* FLASH. *)

\* The command that goes before the page being written.
Lead == IF romlength = 1 THEN LockCommand ELSE UnlockCommand

\* The page is counted in three places: the number of the page of the file and of the
\* pages left, the carry of the 16-bit address, and the bank and the page in the window,
\* which the command sequence borrows and gives back.
Counted ==
    /\ at = "getkey" => romlength = Length
    /\ at \in {"move64", "command", "writepg", "writedat", "next"} =>
           move \in 0..Length - 1 /\ romlength = Length - move /\ loclo = move % 4
    /\ at \in {"move64", "writepg", "writedat", "next"} =>
           lochi = move \div 4 /\ romlo = move % 4
    /\ at = "command" => romlo = 0 /\ stack = <<move \div 4, move % 4>>
    /\ at = "writedat" => bank = lochi /\ y \in Offsets
    /\ at # "command" => stack = <<>> /\ cmds = <<>>

\* What the chip has read of the command and what is still to be sent make the command.
Sent == /\ at \in {"getkey", "move64", "waitenter", "quit"} => seq = <<>>
        /\ at = "command" =>
               \E n \in 0..Len(Lead) : /\ seq = SubSeq(Lead, 1, n)
                                       /\ cmds = SubSeq(Lead, n + 1, Len(Lead))
        /\ at \in {"writepg", "writedat"} => seq = Lead

\* The pages before page m are the image's.
Done(m) == \A i \in 0..m - 1, k \in Offsets : rom[i][k] = i

\* What is before this byte is in its place, and the chip is protected with the last page.
Written ==
    /\ at \in {"move64", "command", "writepg", "writedat"} => Done(move)
    /\ at = "writedat" => \A k \in 0..y - 1 : rom[move][k] = move
    /\ at = "next" => Done(move + 1) /\ (romlength = 1 => locked)
    /\ at \in {"waitenter", "quit"} =>
           \/ romlength = Length
           \/ romlength = 0 /\ locked /\ bank = 0 /\ Done(Length)

FlashInv == PagesInPlace /\ Counted /\ Sent /\ Written

-----------------------------------------------------------------------------
(* The commands. *)

Writes == [bank : {42, 85}, byte : {85, 170}, value : 0..255]

LEMMA Commands ==
    /\ LockCommand \in Seq(Writes) /\ Len(LockCommand) = 3
    /\ UnlockCommand \in Seq(Writes) /\ Len(UnlockCommand) = 6
    /\ LockCommand # <<>> /\ UnlockCommand # <<>>
<1>1. \A v \in 0..255 : At5555(v) \in Writes /\ At2AAA(v) \in Writes
    BY DEF At5555, At2AAA, Writes
<1> QED BY <1>1 DEF LockCommand, UnlockCommand

LEMMA FullType == Lead \in {LockCommand, UnlockCommand} /\ Lead \in Seq(Writes) /\ Len(Lead) <= 6
<1>1. Lead = LockCommand \/ Lead = UnlockCommand
    BY DEF Lead
<1>2. CASE Lead = LockCommand
    BY <1>2, Commands
<1>3. CASE Lead = UnlockCommand
    BY <1>3, Commands
<1> QED BY <1>1, <1>2, <1>3

\* Sending the next write of a command: what is read grows by what the rest loses.
LEMMA SendOne ==
    ASSUME NEW s \in Seq(Writes), NEW n \in 0..Len(s), SubSeq(s, n + 1, Len(s)) # <<>>
    PROVE  /\ n + 1 \in 0..Len(s)
           /\ Head(SubSeq(s, n + 1, Len(s))) = s[n + 1] /\ s[n + 1] \in Writes
           /\ Tail(SubSeq(s, n + 1, Len(s))) = SubSeq(s, (n + 1) + 1, Len(s))
           /\ Append(SubSeq(s, 1, n), s[n + 1]) = SubSeq(s, 1, n + 1)
           /\ Len(SubSeq(s, 1, n + 1)) = n + 1
           /\ Len(SubSeq(s, (n + 1) + 1, Len(s))) <= Len(s)
<1>1. n + 1 \in 1..Len(s)
    OBVIOUS
<1>2. Tail(SubSeq(s, n + 1, Len(s))) = SubSeq(s, (n + 1) + 1, Len(s))
    BY <1>1
<1>3. Append(SubSeq(s, 1, n), s[n + 1]) = SubSeq(s, 1, n + 1)
    BY <1>1
<1> QED BY <1>1, <1>2, <1>3

\* When nothing is left, all of it was sent.
LEMMA SentAll ==
    ASSUME NEW s \in Seq(Writes), NEW n \in 0..Len(s), SubSeq(s, n + 1, Len(s)) = <<>>
    PROVE  SubSeq(s, 1, n) = s
<1>1. CASE n < Len(s)
    <2>1. Head(SubSeq(s, n + 1, Len(s))) = s[n + 1] /\ Len(SubSeq(s, n + 1, Len(s))) = Len(s) - n
        BY <1>1
    <2>2. Len(<<>>) = 0
        OBVIOUS
    <2> QED BY <1>1, <2>1, <2>2
<1>2. CASE n = Len(s)
    BY <1>2, SubSeqFull
<1> QED BY <1>1, <1>2

\* The port bits of flashpg show the bank, and of the write of a command nothing is
\* changed by the window when the page in it is the first.
LEMMA BankIs ==
    ASSUME NEW hi \in 0..127
    PROVE  (hi % 8) + 8 * ((hi \div 8) % 16) = hi
OBVIOUS

\* Every page of the image has a place the address bytes can name.
LEMMA PlaceOf ==
    ASSUME NEW m \in 0..Length - 1
    PROVE  /\ m \in 0..Length /\ Length - m \in 0..Length /\ m \in 0..Length + 1
           /\ m \div 4 \in 0..255 /\ m % 4 \in 0..3
BY LengthAssumption

LEMMA SameWrite ==
    ASSUME NEW w \in Writes
    PROVE  [w EXCEPT !.bank = w.bank, !.byte = (64 * 0 + w.byte) % 256] = w
<1>1. w = [bank |-> w.bank, byte |-> w.byte, value |-> w.value] /\ w.byte \in {85, 170}
    BY DEF Writes
<1>2. (64 * 0 + w.byte) % 256 = w.byte
    BY <1>1
<1> QED BY <1>1, <1>2

-----------------------------------------------------------------------------
(* The steps. *)

LEMMA InitFlashInv == FlashInit => FlashInv
<1> SUFFICES ASSUME FlashInit PROVE FlashInv
    OBVIOUS
<1>1. FlashTypeOK
    BY LengthAssumption, JunkAssumption, PageAssumption
    DEF FlashInit, FlashTypeOK, Pages, Old, Spoilt
<1>2. \A i \in Pages, k \in Offsets : rom[i][k] = Old /\ rom[i][k] # i
    BY LengthAssumption DEF FlashInit, Pages, Old
<1>3. PagesInPlace
    BY <1>1, <1>2 DEF PagesInPlace
<1> QED BY <1>3 DEF FlashInit, FlashInv, Counted, Sent, Written, Done

\* A stop keeps the chip, and nothing else is asked of the chip then.
LEMMA StepLoad ==
    ASSUME FlashInv, Load
    PROVE  FlashInv'
<1>1. FlashTypeOK'
    <2>1. locked' \in BOOLEAN
        BY DEF Load, Protection, FlashTypeOK, FlashInv, PagesInPlace
    <2> QED BY <2>1, LengthAssumption, JunkAssumption, PageAssumption
            DEF Load, FlashTypeOK, FlashInv, PagesInPlace
<1>2. rom' = rom
    BY DEF Load
<1> QED BY <1>1, <1>2 DEF Load, FlashInv, PagesInPlace, Counted, Sent, Written, Done

LEMMA StepChooseSlot ==
    ASSUME FlashInv, NEW s \in 1..7, ChooseSlot(s)
    PROVE  FlashInv'
<1> USE DEF FlashInv, PagesInPlace
<1>1. ioffset' \in 0..255 /\ romlength = Length /\ stack = <<>> /\ cmds = <<>> /\ seq = <<>>
    BY DEF ChooseSlot, Counted, Sent
<1>2. rom' = rom /\ seq' = seq
    BY DEF ChooseSlot, chip
<1>3. FlashTypeOK'
    BY <1>1, LengthAssumption DEF ChooseSlot, chip, FlashTypeOK
<1>4. Counted'
    BY <1>1, LengthAssumption DEF ChooseSlot, Counted
<1>5. Sent' /\ Written'
    BY <1>1, <1>2 DEF ChooseSlot, Sent, Written, Done
<1> QED BY <1>2, <1>3, <1>4, <1>5

LEMMA StepGiveUp ==
    ASSUME FlashInv, GiveUp \/ WaitEnter
    PROVE  FlashInv'
<1> USE DEF FlashInv, PagesInPlace
<1>1. /\ at \in {"getkey", "waitenter"} /\ at' \in {"waitenter", "quit"}
      /\ at = "getkey" => at' = "waitenter"
      /\ UNCHANGED <<apple, bank, chip>> /\ control' \in {control, {ioffset}}
    BY DEF GiveUp, WaitEnter
<1>2. FlashTypeOK'
    BY <1>1 DEF apple, chip, FlashTypeOK
<1>3. Counted' /\ Sent'
    BY <1>1 DEF apple, chip, Counted, Sent
<1>4. Written'
    BY <1>1 DEF apple, chip, Written, Done, Counted
<1>5. rom' = rom
    BY <1>1 DEF chip
<1> QED BY <1>2, <1>3, <1>4, <1>5

LEMMA StepMove64 ==
    ASSUME FlashInv, Move64
    PROVE  FlashInv'
<1> USE DEF FlashInv, PagesInPlace
<1>1. /\ at = "move64" /\ at' = "command" /\ stack' = <<lochi, romlo>> /\ romlo' = 0
      /\ cmds' = Lead
      /\ UNCHANGED <<ioffset, lochi, loclo, move, romlength, y, bank, control, rom, locked, seq>>
    BY DEF Move64, LastPage, Lead, chip
<1>2. /\ move \in 0..Length - 1 /\ romlength = Length - move /\ loclo = move % 4
      /\ lochi = move \div 4 /\ romlo = move % 4 /\ seq = <<>>
    BY <1>1 DEF Counted, Sent
<1>3. Lead' = Lead
    BY <1>1 DEF Lead
<1>4. FlashTypeOK'
    <2>1. Len(stack') = 2 /\ Len(cmds') <= 6
        BY <1>1, FullType
    <2> QED BY <1>1, <2>1 DEF FlashTypeOK
<1>5. Counted'
    BY <1>1, <1>2 DEF Counted
<1>6. Sent'
    <2>1. SubSeq(Lead, 1, 0) = <<>> /\ SubSeq(Lead, 0 + 1, Len(Lead)) = Lead /\ 0 \in 0..Len(Lead)
        BY FullType, SubSeqFull
    <2> QED BY <1>1, <1>2, <1>3, <2>1 DEF Sent
<1>7. Written'
    BY <1>1 DEF Written, Done
<1> QED BY <1>1, <1>4, <1>5, <1>6, <1>7

\* No write of a command is taken for a stray one, although the chip is protected or not.
LEMMA StepCommand ==
    ASSUME FlashInv, Command
    PROVE  FlashInv'
<1> USE DEF FlashInv, PagesInPlace
<1> DEFINE w == Head(cmds)
<1>1. /\ at = "command" /\ cmds # <<>> /\ cmds' = Tail(cmds)
      /\ lochi' = w.bank /\ Flashpg(lochi')
      /\ ChipByte([w EXCEPT !.bank = bank', !.byte = (64 * romlo + w.byte) % 256])
      /\ UNCHANGED <<at, ioffset, loclo, romlo, stack, move, romlength, y, control>>
    BY DEF Command
<1>2. PICK n \in 0..Len(Lead) : seq = SubSeq(Lead, 1, n) /\ cmds = SubSeq(Lead, n + 1, Len(Lead))
    BY <1>1 DEF Sent
<1>3. /\ n + 1 \in 0..Len(Lead) /\ w = Lead[n + 1] /\ w \in Writes
      /\ cmds' = SubSeq(Lead, (n + 1) + 1, Len(Lead))
      /\ Append(seq, w) = SubSeq(Lead, 1, n + 1)
      /\ Len(SubSeq(Lead, 1, n + 1)) = n + 1
      /\ Len(cmds') <= 6
    <2>1. Lead \in Seq(Writes) /\ Len(Lead) <= 6
        BY FullType
    <2>2. SubSeq(Lead, n + 1, Len(Lead)) # <<>>
        BY <1>1, <1>2
    <2>3. /\ n + 1 \in 0..Len(Lead)
          /\ Head(SubSeq(Lead, n + 1, Len(Lead))) = Lead[n + 1] /\ Lead[n + 1] \in Writes
          /\ Tail(SubSeq(Lead, n + 1, Len(Lead))) = SubSeq(Lead, (n + 1) + 1, Len(Lead))
          /\ Append(SubSeq(Lead, 1, n), Lead[n + 1]) = SubSeq(Lead, 1, n + 1)
          /\ Len(SubSeq(Lead, 1, n + 1)) = n + 1
          /\ Len(SubSeq(Lead, (n + 1) + 1, Len(Lead))) <= Len(Lead)
        BY <1>2, <2>1, <2>2, SendOne
    <2>4. w = Lead[n + 1] /\ cmds' = SubSeq(Lead, (n + 1) + 1, Len(Lead))
        BY <1>1, <1>2, <2>3
    <2>5. Len(cmds') <= 6
        <3>1. Len(SubSeq(Lead, (n + 1) + 1, Len(Lead))) <= 6
            <4>1. Len(SubSeq(Lead, (n + 1) + 1, Len(Lead))) \in Nat
                BY <2>1, <2>3
            <4> QED BY SMTT(20), <2>1, <2>3, <4>1
        <3> QED BY <2>4, <3>1
    <2> QED BY <1>2, <2>3, <2>4, <2>5
<1>4. lochi' \in {42, 85} /\ bank' = w.bank /\ bank' \in 0..127
    <2>1. w.bank \in {42, 85}
        BY <1>3 DEF Writes
    <2> HIDE DEF w
    <2>2. bank' = (w.bank % 8) + 8 * ((w.bank \div 8) % 16)
        BY <1>1 DEF Flashpg
    <2>3. w.bank \in 0..127
        BY <2>1
    <2> QED BY <1>1, <2>1, <2>2, <2>3, BankIs
<1>5. romlo = 0
    BY <1>1 DEF Counted
<1>6. ChipByte(w)
    <2>1. [w EXCEPT !.bank = bank', !.byte = (64 * romlo + w.byte) % 256] = w
        BY <1>3, <1>4, <1>5, SameWrite
    <2> QED BY <1>1, <2>1
<1>7. IsCommandPrefix(Append(seq, w))
    BY <1>3, FullType DEF IsCommandPrefix
<1>8. seq' = SubSeq(Lead, 1, n + 1) /\ Len(seq') <= 6 /\ UNCHANGED <<rom, locked>>
    <2> HIDE DEF w
    <2>1. seq' = Append(seq, w) /\ UNCHANGED <<rom, locked>>
        BY <1>6, <1>7 DEF ChipByte
    <2>2. n + 1 <= 6
        BY <1>3, FullType
    <2> QED BY <1>3, <2>1, <2>2
<1>9. Lead' = Lead
    BY <1>1 DEF Lead
<1>10. FlashTypeOK'
    <2>1. lochi' \in 0..255
        BY <1>4
    <2> QED BY <1>1, <1>3, <1>4, <1>8, <2>1 DEF FlashTypeOK
<1>11. Counted'
    BY <1>1 DEF Counted
<1>12. Sent'
    BY <1>1, <1>3, <1>8, <1>9 DEF Sent
<1>13. Written'
    BY <1>1, <1>8 DEF Written, Done
<1> QED BY <1>8, <1>10, <1>11, <1>12, <1>13

LEMMA StepCommandDone ==
    ASSUME FlashInv, CommandDone
    PROVE  FlashInv'
<1> USE DEF FlashInv, PagesInPlace
<1>1. /\ at = "command" /\ cmds = <<>> /\ at' = "writepg"
      /\ lochi' = stack[1] /\ romlo' = stack[2] /\ stack' = <<>>
      /\ UNCHANGED <<ioffset, loclo, move, romlength, y, cmds, bank, control, rom, locked, seq>>
    BY DEF CommandDone, chip
<1>2. /\ move \in 0..Length - 1 /\ romlength = Length - move /\ loclo = move % 4
      /\ stack = <<move \div 4, move % 4>>
    BY <1>1 DEF Counted
<1>3. lochi' = move \div 4 /\ romlo' = move % 4
    BY <1>1, <1>2
<1>4. seq = Lead /\ Lead' = Lead
    BY <1>1, FullType, SentAll DEF Sent, Lead
<1>5. FlashTypeOK'
    <2>1. lochi' \in 0..255 /\ romlo' \in 0..3
        BY <1>2, <1>3, LengthAssumption
    <2> QED BY <1>1, <2>1 DEF FlashTypeOK
<1>6. Counted'
    BY <1>1, <1>2, <1>3 DEF Counted
<1>7. Sent' /\ Written'
    BY <1>1, <1>4 DEF Sent, Written, Done
<1> QED BY <1>1, <1>5, <1>6, <1>7

LEMMA StepWritePage ==
    ASSUME FlashInv, WritePage
    PROVE  FlashInv'
<1> USE DEF FlashInv, PagesInPlace
<1>1. /\ at = "writepg" /\ at' = "writedat" /\ Flashpg(lochi) /\ y' = 0
      /\ UNCHANGED <<ioffset, lochi, loclo, romlo, stack, move, romlength, cmds, control,
                     rom, locked, seq>>
    BY DEF WritePage, chip
<1>2. /\ move \in 0..Length - 1 /\ romlength = Length - move /\ loclo = move % 4
      /\ lochi = move \div 4 /\ romlo = move % 4 /\ seq = Lead
    BY <1>1 DEF Counted, Sent
<1>3. bank' = lochi /\ lochi \in 0..127
    <2>1. lochi \in 0..127
        BY <1>2, LengthAssumption
    <2> QED BY <1>1, <2>1, BankIs DEF Flashpg
<1>4. 0 \in Offsets /\ 0 \in 0..PageBytes
    BY PageAssumption DEF Offsets
<1>5. FlashTypeOK'
    BY <1>1, <1>3, <1>4 DEF FlashTypeOK
<1>6. Counted'
    BY <1>1, <1>2, <1>3, <1>4 DEF Counted
<1>7. Sent'
    BY <1>1, <1>2 DEF Sent, Lead
<1>8. Written'
    BY <1>1 DEF Written, Done
<1> QED BY <1>1, <1>5, <1>6, <1>7, <1>8

\* A byte of the page goes to its place behind those before it, and the last page
\* protects the chip.
LEMMA StepWriteData ==
    ASSUME FlashInv, WriteData
    PROVE  FlashInv'
<1> USE DEF FlashInv, PagesInPlace
<1>1. /\ at = "writedat" /\ ChipData(4 * bank + romlo, y, move)
      /\ y' = y + 1 /\ at' = (IF y' = PageBytes THEN "next" ELSE "writedat")
      /\ UNCHANGED <<ioffset, lochi, loclo, romlo, stack, move, romlength, cmds, bank, control>>
    BY DEF WriteData
<1>2. /\ move \in 0..Length - 1 /\ romlength = Length - move /\ loclo = move % 4
      /\ lochi = move \div 4 /\ romlo = move % 4
      /\ bank = lochi /\ y \in Offsets /\ seq = Lead
    BY <1>1 DEF Counted, Sent
<1>3. 4 * bank + romlo = move /\ move \in Pages
    BY <1>2, LengthAssumption DEF Pages
<1>4. seq \in {LockCommand, UnlockCommand} /\ seq # <<>>
    BY <1>2, FullType, Commands
<1>5. rom' = [rom EXCEPT ![move][y] = move] /\ seq' = seq /\ locked' = Protection
    BY <1>1, <1>3, <1>4 DEF ChipData
<1>6. romlength = 1 => locked'
    BY <1>2, <1>5 DEF Protection, Lead
<1>7. FlashTypeOK'
    <2>1. rom' \in [Pages -> [Offsets -> 0..Spoilt]]
        <3>1. move \in 0..Spoilt
            BY <1>2, LengthAssumption DEF Spoilt
        <3> QED BY <1>2, <1>3, <1>5, <3>1 DEF FlashTypeOK
    <2>2. locked' \in BOOLEAN
        BY <1>5 DEF Protection, FlashTypeOK
    <2>3. y' \in 0..PageBytes
        BY <1>1, <1>2, PageAssumption DEF Offsets
    <2> QED BY <1>1, <1>5, <2>1, <2>2, <2>3 DEF FlashTypeOK
<1>8. \A i \in Pages, k \in Offsets :
          rom'[i][k] = IF i = move /\ k = y THEN move ELSE rom[i][k]
    BY <1>2, <1>3, <1>5 DEF FlashTypeOK
\* The image is there up to the byte that was stored.
<1>9. ASSUME NEW i \in Pages, NEW k \in Offsets, Before(i, k, move, y)
      PROVE  rom[i][k] = i
    <2>1. CASE i < move
        <3>1. i \in 0..move - 1
            BY <1>2, <2>1 DEF Pages
        <3> QED BY <1>1, <3>1 DEF Written, Done
    <2>2. CASE i = move /\ k < y
        <3>1. k \in 0..y - 1
            BY <1>2, <2>2 DEF Offsets
        <3> QED BY <1>1, <2>2, <3>1 DEF Written
    <2> QED BY <1>9, <2>1, <2>2 DEF Before
<1>10. ASSUME NEW i \in Pages, NEW j \in Pages, NEW k \in Offsets, NEW l \in Offsets
       PROVE  /\ rom'[i][k] \in {Old, i}
              /\ Before(i, k, j, l) /\ rom'[j][l] = j => rom'[i][k] = i
    <2>1. rom'[i][k] \in {rom[i][k], i} /\ rom[i][k] \in {Old, i}
        BY <1>8
    <2>2. ASSUME Before(i, k, j, l), rom'[j][l] = j PROVE rom[i][k] = i
        <3>1. CASE j = move /\ l = y
            BY <1>9, <2>2, <3>1
        <3>2. CASE ~(j = move /\ l = y)
            BY <1>8, <2>2, <3>2
        <3> QED BY <3>1, <3>2
    <2>3. rom[i][k] = i => rom'[i][k] = i
        BY <1>8
    <2> QED BY <2>1, <2>2, <2>3
<1>11. Done(move)'
    <2> SUFFICES ASSUME NEW i \in 0..move - 1, NEW k \in Offsets PROVE rom'[i][k] = i
        BY <1>1 DEF Done
    <2>1. i \in Pages /\ i # move
        BY <1>2, LengthAssumption DEF Pages
    <2> QED BY <1>1, <1>8, <2>1 DEF Written, Done
<1>12. \A k \in 0..y' - 1 : rom'[move][k] = move
    <2> SUFFICES ASSUME NEW k \in 0..y PROVE rom'[move][k] = move
        BY <1>1, <1>2 DEF Offsets
    <2>1. k \in Offsets /\ (k = y \/ k \in 0..y - 1)
        BY <1>2, PageAssumption DEF Offsets
    <2> QED BY <1>1, <1>3, <1>8, <2>1 DEF Written
<1>13. at' = "next" => Done(move + 1)'
    <2> SUFFICES ASSUME at' = "next", NEW i \in 0..move, NEW k \in Offsets PROVE rom'[i][k] = i
        BY <1>1, <1>2 DEF Done
    <2>1. k \in 0..y' - 1
        BY <1>1 DEF Offsets
    <2>2. i = move \/ i \in 0..move - 1
        BY <1>2
    <2> QED BY <1>1, <1>11, <1>12, <2>1, <2>2 DEF Done
<1>14. Counted'
    <2>1. ASSUME at' = "writedat" PROVE y' \in Offsets
        <3>1. y' # PageBytes
            BY <1>1, <2>1
        <3>2. y' = y + 1 /\ y \in 0..PageBytes - 1
            BY <1>1, <1>2 DEF Offsets
        <3> QED BY <3>1, <3>2, PageAssumption DEF Offsets
    <2> QED BY <1>1, <1>2, <2>1 DEF Counted
<1>15. Sent'
    BY <1>1, <1>2, <1>5 DEF Sent, Lead
<1>16. Written'
    BY <1>1, <1>6, <1>11, <1>12, <1>13 DEF Written
<1> QED BY <1>7, <1>10, <1>14, <1>15, <1>16

LEMMA StepNextPage ==
    ASSUME FlashInv, NextPage
    PROVE  FlashInv'
<1> USE DEF FlashInv, PagesInPlace
<1>1. /\ at = "next" /\ move' = move + 1 /\ romlo' = (romlo + 1) % 4 /\ romlength' = romlength - 1
      /\ seq' = <<>> /\ UNCHANGED <<ioffset, stack, y, cmds, control, rom, locked>>
    BY DEF NextPage, ChipStores
<1>2. /\ move \in 0..Length - 1 /\ romlength = Length - move /\ loclo = move % 4
      /\ lochi = move \div 4 /\ romlo = move % 4
      /\ stack = <<>> /\ cmds = <<>>
    BY <1>1 DEF Counted
<1>3. Done(move + 1) /\ (romlength = 1 => locked)
    BY <1>1 DEF Written, Done
<1>4. CASE romlength' # 0
    <2>1. at' = "move64" /\ loclo' = (loclo + 1) % 4 /\ bank' = bank
          /\ lochi' = IF loclo = 3 THEN lochi + 1 ELSE lochi
        BY <1>4 DEF NextPage, Carry
    <2>2. /\ move' \in 0..Length - 1 /\ romlength' = Length - move' /\ loclo' = move' % 4
          /\ lochi' = move' \div 4 /\ romlo' = move' % 4
        BY <1>1, <1>2, <1>4, <2>1, LengthAssumption
    <2>3. lochi' \in 0..255 /\ loclo' \in 0..3 /\ romlo' \in 0..3 /\ move' \in 0..Length
          /\ romlength' \in 0..Length
        BY <2>2, PlaceOf
    <2>4. FlashTypeOK'
        BY <1>1, <2>1, <2>3 DEF FlashTypeOK
    <2>5. Counted'
        BY <1>1, <1>2, <2>1, <2>2 DEF Counted
    <2>6. Sent' /\ Written'
        <3>1. Done(move)'
            BY <1>1, <1>2, <1>3 DEF Done
        <3> QED BY <1>1, <1>2, <2>1, <3>1 DEF Sent, Written, Done
    <2> QED BY <1>1, <2>4, <2>5, <2>6
<1>5. CASE romlength' = 0
    <2>1. at' = "waitenter" /\ lochi' = 0 /\ loclo' = loclo /\ bank' = 0
        <3>1. at' = "waitenter" /\ lochi' = 0 /\ loclo' = loclo /\ Flashpg(0)
            BY <1>5 DEF NextPage, FirstBank
        <3> QED BY <3>1, BankIs DEF Flashpg
    <2>2. romlength = 1 /\ move = Length - 1 /\ move' = Length
        BY <1>1, <1>2, <1>5, LengthAssumption
    <2>3. romlo' \in 0..3
        BY <1>1, <1>2
    <2>4. FlashTypeOK'
        BY <1>1, <1>5, <2>1, <2>2, <2>3, LengthAssumption DEF FlashTypeOK
    <2>5. Counted'
        BY <1>1, <1>2, <2>1 DEF Counted
    <2>6. Sent' /\ Written'
        <3>1. Done(Length)'
            BY <1>1, <1>3, <2>2 DEF Done
        <3> QED BY <1>1, <1>2, <1>3, <1>5, <2>1, <2>2, <3>1 DEF Sent, Written
    <2> QED BY <1>1, <2>4, <2>5, <2>6
<1> QED BY <1>4, <1>5

LEMMA NextFlashInv ==
    ASSUME FlashInv, [FlashNext]_flashVars
    PROVE  FlashInv'
<1>1. CASE UNCHANGED flashVars
    <2>1. FlashTypeOK' /\ Counted' /\ Written' /\ rom' = rom
        BY <1>1 DEF flashVars, FlashInv, PagesInPlace, FlashTypeOK, Counted, Written, Done
    <2>2. Sent'
        BY <1>1 DEF flashVars, FlashInv, Sent, Lead
    <2> QED BY <2>1, <2>2 DEF FlashInv, PagesInPlace
<1>2. CASE FlashReset \/ RunAgain
    BY <1>2, StepLoad DEF FlashReset, RunAgain
<1> QED BY <1>1, <1>2, StepChooseSlot, StepGiveUp, StepMove64, StepCommand, StepCommandDone,
        StepWritePage, StepWriteData, StepNextPage DEF FlashNext

LEMMA FlashInductive == FlashSpec => []FlashInv
BY InitFlashInv, NextFlashInv, PTL DEF FlashSpec

-----------------------------------------------------------------------------
\* Wherever the program is stopped, and however often, the ROM is the image up to some
\* byte and what it was from there, although the commands go through the window and the
\* variables of the pages.
THEOREM PagesAlwaysInPlace == FlashSpec => []PagesInPlace
<1>1. FlashInv => PagesInPlace
    BY DEF FlashInv
<1> QED BY <1>1, FlashInductive, PTL

\* When the program says it is done, the ROM is the whole image and the chip is
\* protected, shows its first bank and waits for no rest of a command.
THEOREM FlashedIsComplete == FlashSpec => []Flashed
<1>1. FlashInv => Flashed
    BY LengthAssumption
    DEF FlashInv, PagesInPlace, FlashTypeOK, Counted, Sent, Written, Done, Pages, Flashed
<1> QED BY <1>1, FlashInductive, PTL
=============================================================================
