-------------------------- MODULE SlotManager_proofs --------------------------
(***************************************************************************)
(* Proofs about SlotManager, BlockMap and VolumeSelector, for every set of *)
(* cards, images, file numbers, units, block numbers and keys: type        *)
(* correctness, the drive modes, the shared image handle, the saving of    *)
(* the modes; that two blocks never share a sector; and that the volume    *)
(* selector shows what is in the images and leaves behind what was typed.  *)
(***************************************************************************)
EXTENDS BlockMap, VolumeSelector, SequenceTheorems, TLAPS

\* Two file numbers never name the same image: the two digits that
\* set_blockdev_filename() writes determine the number.
THEOREM HexNameInjective ==
    ASSUME NEW f \in 0..255, NEW g \in 0..255, HexName(f) = HexName(g)
    PROVE  f = g
<1>1. f \div 16 = g \div 16 /\ f % 16 = g % 16
    BY DEF HexName
<1>2. f = 16 * (f \div 16) + (f % 16) /\ g = 16 * (g \div 16) + (g % 16)
    OBVIOUS
<1> QED BY <1>1, <1>2

LEMMA HexNameType ==
    ASSUME NEW f \in 0..255
    PROVE  HexName(f) \in HexNames
BY DEF HexName, HexNames

LEMMA BytesType == Bytes \subseteq 0..255 /\ Files \subseteq 0..255 /\ 1 \in Bytes
BY FilesAssumption DEF Bytes

LEMMA LoadedType ==
    ASSUME TypeOK
    PROVE  Loaded(eeprom) \in [Drives -> Bytes]
BY BytesType DEF TypeOK, Loaded, Bytes, Drives

-----------------------------------------------------------------------------
\* What disk_initialize() and f_open() leave well typed.
LEMMA DiskInitializeType ==
    ASSUME TypeOK, NEW d \in Drives, NEW up \in BOOLEAN, DiskInitialize(d, up)
    PROVE  stat' \in [Drives -> BOOLEAN] /\ live' \in [Drives -> BOOLEAN]
BY DEF TypeOK, DiskInitialize

LEMMA OpenImageType ==
    ASSUME TypeOK, NEW d \in Drives, NEW nm,
           NEW up \in BOOLEAN, NEW opened \in BOOLEAN, NEW err \in BOOLEAN,
           OpenImage(d, nm, up, opened, err)
    PROVE  /\ stat' \in [Drives -> BOOLEAN] /\ live' \in [Drives -> BOOLEAN]
           /\ lastDrive' \in Drives \cup {255}
           /\ slotfile' \in [vol : Drives, card : Cards, name : HexNames, err : BOOLEAN]
                               \cup {Closed}
<1>1. DiskInitialize(d, up)
    BY DEF OpenImage
<1>2. opened => sock[d] \in Cards
    BY DEF OpenImage, DiskInitialize, TypeOK
<1>3. opened => nm \in HexNames
    BY <1>2, ImagesAssumption DEF OpenImage, HexNames
<1>4. stat' \in [Drives -> BOOLEAN] /\ live' \in [Drives -> BOOLEAN]
    BY <1>1, DiskInitializeType
<1>5. lastDrive' \in Drives \cup {255}
    BY DEF OpenImage
<1>6. slotfile' \in [vol : Drives, card : Cards, name : HexNames, err : BOOLEAN] \cup {Closed}
    BY <1>2, <1>3 DEF OpenImage
<1> QED BY <1>4, <1>5, <1>6

LEMMA InitializeDriveType ==
    ASSUME TypeOK, NEW d \in Drives, InitializeDrive(d)
    PROVE  /\ state' \in [Drives -> {"NODEV", "BLOCK", "WIDE", "FILE"}]
           /\ name' \in [Drives -> HexNames \cup {NoName}]
           /\ lastDrive' \in Drives \cup {255}
           /\ slotfile' \in [vol : Drives, card : Cards, name : HexNames, err : BOOLEAN]
                               \cup {Closed}
           /\ stat' \in [Drives -> BOOLEAN]
           /\ live' \in [Drives -> BOOLEAN]
<1>1. CASE state[d] # "NODEV"
    BY <1>1 DEF InitializeDrive, TypeOK
<1>2. CASE \E up \in BOOLEAN : InitWide(d, up)
    <2> PICK up \in BOOLEAN : InitWide(d, up)
        BY <1>2
    <2>1. 0 \in Drives
        BY DEF Drives
    <2> QED BY <2>1, DiskInitializeType DEF InitWide, TypeOK
<1>3. CASE \E up \in BOOLEAN : InitBlock(d, up)
    <2> PICK up \in BOOLEAN : InitBlock(d, up)
        BY <1>3
    <2> QED BY DiskInitializeType DEF InitBlock, TypeOK
<1>4. CASE \E up, opened \in BOOLEAN : InitFile(d, up, opened)
    <2> PICK up \in BOOLEAN, opened \in BOOLEAN : InitFile(d, up, opened)
        BY <1>4
    <2>1. HexName(fileno[d]) \in HexNames
        <3>1. fileno[d] \in 0..255
            BY BytesType DEF InitFile
        <3> QED BY <3>1, HexNameType
    <2>2. OpenImage(d, HexName(fileno[d]), up, opened, FALSE)
        BY DEF InitFile
    <2>3. /\ stat' \in [Drives -> BOOLEAN] /\ live' \in [Drives -> BOOLEAN]
          /\ lastDrive' \in Drives \cup {255}
          /\ slotfile' \in [vol : Drives, card : Cards, name : HexNames, err : BOOLEAN]
                              \cup {Closed}
        BY <2>2, OpenImageType
    <2>4. name' \in [Drives -> HexNames \cup {NoName}]
        BY <2>1 DEF InitFile, TypeOK
    <2>5. state' \in [Drives -> {"NODEV", "BLOCK", "WIDE", "FILE"}]
        BY DEF InitFile, TypeOK
    <2> QED BY <2>3, <2>4, <2>5
<1> QED BY <1>1, <1>2, <1>3, <1>4 DEF InitializeDrive

-----------------------------------------------------------------------------
\* Bringing up a drive keeps the modes, the handle and the cards in step.
LEMMA InitializeDriveSafe ==
    ASSUME IInv, NEW d \in Drives, InitializeDrive(d), fileno' = fileno, sock' = sock
    PROVE  /\ ModeMatchesConfig' /\ HandleMatchesSlot'
           /\ HandleOnInsertedCard' /\ LiveCardPresent'
<1> USE DEF IInv, TypeOK
<1>d. d = 0 \/ d = 1
    BY DEF Drives
<1>1. CASE state[d] # "NODEV"
    BY <1>1 DEF InitializeDrive, ModeMatchesConfig, HandleMatchesSlot,
                HandleOnInsertedCard, LiveCardPresent
<1>2. CASE state[d] = "NODEV" /\ \E up \in BOOLEAN : InitWide(d, up)
    <2> PICK up \in BOOLEAN : InitWide(d, up)
        BY <1>2
    <2>1. CASE state[Other(d)] = "NODEV"
        <3>1. lastDrive = 255 /\ slotfile = Closed
            BY <1>2, <1>d, <2>1 DEF HandleMatchesSlot, Other, Drives, Closed
        <3>2. LiveCardPresent'
            BY <2>1, <1>d DEF InitWide, DiskInitialize, LiveCardPresent, Drives
        <3>3. ModeMatchesConfig'
            BY <2>1, <1>d DEF InitWide, ModeMatchesConfig, Drives, Other
        <3>4. HandleMatchesSlot' /\ HandleOnInsertedCard'
            BY <2>1, <3>1, <1>d DEF InitWide, HandleMatchesSlot, HandleOnInsertedCard,
                                    Drives, Closed
        <3> QED BY <3>2, <3>3, <3>4
    <2>2. CASE state[Other(d)] # "NODEV"
        BY <2>2 DEF InitWide, ModeMatchesConfig, HandleMatchesSlot,
                    HandleOnInsertedCard, LiveCardPresent
    <2> QED BY <2>1, <2>2
<1>3. CASE state[d] = "NODEV" /\ \E up \in BOOLEAN : InitBlock(d, up)
    <2> PICK up \in BOOLEAN : InitBlock(d, up)
        BY <1>3
    <2>1. lastDrive # d
        BY <1>3 DEF HandleMatchesSlot, Drives
    <2>2. LiveCardPresent'
        BY DEF InitBlock, DiskInitialize, LiveCardPresent
    <2>3. ModeMatchesConfig'
        BY <1>3, <1>d DEF InitBlock, ModeMatchesConfig, Drives, Other
    <2>4. HandleMatchesSlot'
        BY <1>3, <2>1, <1>d DEF InitBlock, HandleMatchesSlot, Drives
    <2>5. HandleOnInsertedCard'
        BY <2>1 DEF InitBlock, DiskInitialize, HandleMatchesSlot, HandleOnInsertedCard, Closed
    <2> QED BY <2>2, <2>3, <2>4, <2>5
<1>4. CASE state[d] = "NODEV" /\ \E up, opened \in BOOLEAN : InitFile(d, up, opened)
    <2> PICK up \in BOOLEAN, opened \in BOOLEAN : InitFile(d, up, opened)
        BY <1>4
    <2>1. OpenImage(d, HexName(fileno[d]), up, opened, FALSE) /\ fileno[d] \in Files
        BY DEF InitFile
    <2>2. LiveCardPresent'
        BY <2>1 DEF OpenImage, DiskInitialize, LiveCardPresent
    <2>3. ModeMatchesConfig'
        BY <1>4, <2>1, <1>d DEF InitFile, ModeMatchesConfig, Drives, Other
    <2>4. HandleMatchesSlot'
        BY <1>4, <2>1, <1>d DEF InitFile, OpenImage, HandleMatchesSlot, Drives, Closed
    <2>5. HandleOnInsertedCard'
        BY <2>1 DEF OpenImage, DiskInitialize, HandleOnInsertedCard, Closed
    <2> QED BY <2>2, <2>3, <2>4, <2>5
<1> QED BY <1>1, <1>2, <1>3, <1>4 DEF InitializeDrive

\* Accessing an image from either drive keeps them in step as well.
LEMMA UseImageSafe ==
    ASSUME IInv, NEW d \in Drives, NEW up \in BOOLEAN, NEW opened \in BOOLEAN,
           NEW served \in BOOLEAN, NEW err \in BOOLEAN,
           UseImage(d, up, opened, served, err)
    PROVE  IInv'
<1> USE DEF IInv
<1>1. CASE lastDrive # d
    <2>1. OpenImage(d, name[d], up, opened, err)
        BY <1>1 DEF UseImage
    <2>2. TypeOK'
        <3>1. /\ stat' \in [Drives -> BOOLEAN] /\ live' \in [Drives -> BOOLEAN]
              /\ lastDrive' \in Drives \cup {255}
              /\ slotfile' \in [vol : Drives, card : Cards, name : HexNames, err : BOOLEAN]
                                  \cup {Closed}
            BY <2>1, OpenImageType
        <3>2. UNCHANGED <<eeprom, fileno, state, name, sock, cmd, pc>>
            BY DEF UseImage
        <3> QED BY <3>1, <3>2 DEF TypeOK
    <2>3. LiveCardPresent'
        BY <2>1 DEF OpenImage, DiskInitialize, UseImage, LiveCardPresent, TypeOK
    <2>4. ModeMatchesConfig'
        BY DEF UseImage, ModeMatchesConfig
    <2>5. HandleMatchesSlot'
        BY <2>1 DEF OpenImage, UseImage, HandleMatchesSlot, Drives, Closed
    <2>6. HandleOnInsertedCard'
        BY <2>1 DEF OpenImage, DiskInitialize, UseImage, HandleOnInsertedCard, Closed, TypeOK
    <2> QED BY <2>2, <2>3, <2>4, <2>5, <2>6
<1>2. CASE lastDrive = d
    <2>0. slotfile # Closed
        <3>1. slotfile.vol = d /\ d # 255
            BY <1>2 DEF HandleMatchesSlot, Drives
        <3>2. Closed.vol = 255
            BY DEF Closed
        <3> QED BY <3>1, <3>2
    <2>1. slotfile \in [vol : Drives, card : Cards, name : HexNames, err : BOOLEAN]
        BY <2>0 DEF TypeOK
    <2>2. slotfile' = [slotfile EXCEPT !.err = err]
        BY <1>2 DEF UseImage
    <2>3. TypeOK'
        BY <1>2, <2>1, <2>2 DEF UseImage, TypeOK
    <2>4. ModeMatchesConfig' /\ LiveCardPresent'
        BY <1>2 DEF UseImage, ModeMatchesConfig, LiveCardPresent
    <2>5. HandleMatchesSlot'
        BY <1>2, <2>1, <2>2 DEF UseImage, HandleMatchesSlot
    <2>6. HandleOnInsertedCard'
        <3>1. slotfile'.vol = slotfile.vol /\ slotfile'.card = slotfile.card
            BY <2>1, <2>2
        <3>2. sock' = sock /\ live' = live
            BY <1>2 DEF UseImage
        <3> QED BY <2>0, <3>1, <3>2 DEF HandleOnInsertedCard
    <2> QED BY <2>3, <2>4, <2>5, <2>6
<1> QED BY <1>1, <1>2

LEMMA InitIInv == Init => IInv
<1> SUFFICES ASSUME Init PROVE IInv
    OBVIOUS
<1>1. TypeOK
    BY BytesType DEF Init, TypeOK, Loaded, Bytes, Drives, HexNames
<1>2. ModeMatchesConfig /\ HandleMatchesSlot /\ HandleOnInsertedCard /\ LiveCardPresent
    BY DEF Init, ModeMatchesConfig, HandleMatchesSlot, HandleOnInsertedCard,
           LiveCardPresent, Closed, Drives, Other
<1> QED BY <1>1, <1>2 DEF IInv

LEMMA NextIInv == IInv /\ [Next]_vars => IInv'
<1> SUFFICES ASSUME IInv, [Next]_vars PROVE IInv'
    OBVIOUS
<1> USE DEF IInv
<1>1. CASE Reset
    <2>1. TypeOK'
        BY <1>1, LoadedType DEF Reset, TypeOK
    <2>2. ModeMatchesConfig' /\ HandleMatchesSlot' /\ HandleOnInsertedCard' /\ LiveCardPresent'
        BY <1>1 DEF Reset, ModeMatchesConfig, HandleMatchesSlot, HandleOnInsertedCard,
                    LiveCardPresent, Closed, Drives, Other
    <2> QED BY <2>1, <2>2
<1>2. CASE SetupDrive0 \/ SetupDrive1 \/ SetVolumeDrive1 \/ SetVolumeDrive0
    <2>1. PICK d \in Drives : InitializeDrive(d)
        BY <1>2 DEF SetupDrive0, SetupDrive1, SetVolumeDrive1, SetVolumeDrive0, Drives
    <2>2. /\ eeprom' = eeprom /\ fileno' = fileno /\ sock' = sock
          /\ pc' \in {"boot1", "idle", "init0"} /\ cmd' \in {cmd, 0}
        BY <1>2 DEF SetupDrive0, SetupDrive1, SetVolumeDrive1, SetVolumeDrive0
    <2>3. TypeOK'
        BY <2>1, <2>2, InitializeDriveType DEF TypeOK
    <2> QED BY <2>1, <2>2, <2>3, InitializeDriveSafe
<1>3. CASE \E c \in {4, 6, 7}, b \in [Drives -> Bytes] : SetVolume(c, b)
    <2>1. TypeOK'
        BY <1>3 DEF SetVolume, UnmountDrives, CloseImage, TypeOK
    <2>2. lastDrive' = 255 /\ slotfile' = Closed
        BY <1>3 DEF SetVolume, UnmountDrives, CloseImage, TypeOK, HandleMatchesSlot,
                    Closed, Drives
    <2>3. ModeMatchesConfig' /\ HandleMatchesSlot' /\ HandleOnInsertedCard' /\ LiveCardPresent'
        BY <1>3, <2>2 DEF SetVolume, UnmountDrives, ModeMatchesConfig, HandleMatchesSlot,
                    HandleOnInsertedCard, LiveCardPresent, Closed, Drives, Other
    <2> QED BY <2>1, <2>3
<1>4. CASE SaveSlot0 \/ SaveSlot1 \/ SaveInit
    <2>1. TypeOK'
        BY <1>4 DEF SaveSlot0, SaveSlot1, SaveInit, ram, TypeOK, Drives
    <2>2. ModeMatchesConfig' /\ HandleMatchesSlot' /\ HandleOnInsertedCard' /\ LiveCardPresent'
        BY <1>4 DEF SaveSlot0, SaveSlot1, SaveInit, ram, ModeMatchesConfig,
                    HandleMatchesSlot, HandleOnInsertedCard, LiveCardPresent
    <2> QED BY <2>1, <2>2
<1>5. CASE \E d \in Drives, up, opened, served, err \in BOOLEAN :
              UseImage(d, up, opened, served, err)
    BY <1>5, UseImageSafe
<1>6. CASE \E d \in Drives, c \in Cards : InsertCard(d, c)
    <2> PICK d \in Drives, c \in Cards : InsertCard(d, c)
        BY <1>6
    <2>1. TypeOK'
        BY DEF InsertCard, ram, TypeOK
    <2>2. ~live[d]
        BY DEF InsertCard, LiveCardPresent
    <2>3. ModeMatchesConfig' /\ HandleMatchesSlot'
        BY DEF InsertCard, ram, ModeMatchesConfig, HandleMatchesSlot
    <2>4. HandleOnInsertedCard' /\ LiveCardPresent'
        BY <2>2 DEF InsertCard, ram, HandleOnInsertedCard, LiveCardPresent, TypeOK, Closed
    <2> QED BY <2>1, <2>3, <2>4
<1>7. CASE \E d \in Drives : RemoveCard(d)
    <2> PICK d \in Drives : RemoveCard(d)
        BY <1>7
    <2>1. TypeOK'
        BY DEF RemoveCard, ram, TypeOK
    <2>2. ModeMatchesConfig' /\ HandleMatchesSlot'
        BY DEF RemoveCard, ram, ModeMatchesConfig, HandleMatchesSlot
    <2>3. HandleOnInsertedCard' /\ LiveCardPresent'
        BY DEF RemoveCard, ram, HandleOnInsertedCard, LiveCardPresent, TypeOK, Closed
    <2> QED BY <2>1, <2>2, <2>3
<1>8. CASE UNCHANGED vars
    BY <1>8 DEF vars, TypeOK, ModeMatchesConfig, HandleMatchesSlot, HandleOnInsertedCard,
                LiveCardPresent
<1> QED BY <1>1, <1>2, <1>3, <1>4, <1>5, <1>6, <1>7, <1>8 DEF Next

LEMMA Inductive == Spec => []IInv
BY InitIInv, NextIInv, PTL DEF Spec

-----------------------------------------------------------------------------
\* Every variable keeps its type: in particular slotfile is either closed or
\* names a card that exists, whatever f_open() and the cards do.
THEOREM TypeCorrect == Spec => []TypeOK
<1>1. IInv => TypeOK
    BY DEF IInv
<1> QED BY <1>1, Inductive, PTL

\* do_set_volume() and setup() never leave a drive in a mode its file number
\* does not ask for, nor one drive wide and the other not.
THEOREM ModesMatchConfig == Spec => []ModeMatchesConfig
<1>1. IInv => ModeMatchesConfig
    BY DEF IInv
<1> QED BY <1>1, Inductive, PTL

\* The one open image is always the image of the drive last_drive names, under
\* the name its file number asks for.
THEOREM HandleMatches == Spec => []HandleMatchesSlot
<1>1. IInv => HandleMatchesSlot
    BY DEF IInv
<1> QED BY <1>1, Inductive, PTL

\* A card swap never lets a handle of the old card reach the new one.
THEOREM HandleNeverStale == Spec => []HandleOnInsertedCard
<1>1. IInv => HandleOnInsertedCard
    BY DEF IInv
<1> QED BY <1>1, Inductive, PTL
-----------------------------------------------------------------------------
(* The order of the EEPROM writes, and of the drives in setup(). *)

LEMMA InitProgress == Init => Progress
BY DEF Init, Progress, SaveProgress, BootProgress

LEMMA NextProgress == IInv /\ Progress /\ [Next]_vars => Progress'
<1> SUFFICES ASSUME IInv, Progress, [Next]_vars PROVE Progress'
    OBVIOUS
<1> USE DEF Progress, SaveProgress, BootProgress
<1>1. CASE Reset
    BY <1>1 DEF Reset
<1>2. CASE SetupDrive0
    <2>1. state = [d \in Drives |-> "NODEV"] /\ pc' = "boot1" /\ fileno' = fileno
        BY <1>2 DEF SetupDrive0
    <2>2. ASSUME fileno[0] = 255, stat'[0]
          PROVE  state' = [d \in Drives |-> "WIDE"]
        <3>1. \E up \in BOOLEAN : InitWide(0, up)
            <4>1. state[0] = "NODEV" /\ InitializeDrive(0)
                BY <1>2, <2>1 DEF SetupDrive0, Drives
            <4>2. PICK up, opened \in BOOLEAN :
                      InitWide(0, up) \/ InitBlock(0, up) \/ InitFile(0, up, opened)
                BY <4>1 DEF InitializeDrive
            <4>3. ~InitBlock(0, up)
                BY <2>2 DEF InitBlock
            <4>4. ~InitFile(0, up, opened)
                <5>1. 255 \notin Files
                    BY FilesAssumption
                <5> QED BY <2>2, <5>1 DEF InitFile
            <4> QED BY <4>2, <4>3, <4>4
        <3> PICK up \in BOOLEAN : InitWide(0, up)
            BY <3>1
        <3>2. DiskInitialize(0, up) /\ state' = IF up THEN [e \in Drives |-> "WIDE"] ELSE state
            BY <2>1 DEF InitWide, Drives, Other
        <3>3. up
            BY <3>2, <2>2 DEF DiskInitialize, IInv, TypeOK, Drives
        <3> QED BY <3>2, <3>3
    <2> QED BY <2>1, <2>2
<1>3. CASE SetupDrive1 \/ SetVolumeDrive1 \/ SetVolumeDrive0
    <2>1. /\ eeprom' = eeprom /\ fileno' = fileno /\ cmd' \in {cmd, 0}
          /\ pc' = "idle" \/ (pc = "init1" /\ pc' = "init0")
        BY <1>3 DEF SetupDrive1, SetVolumeDrive1, SetVolumeDrive0
    <2> QED BY <2>1 DEF Loaded
<1>4. CASE \E c \in {4, 6, 7}, b \in [Drives -> Bytes] : SetVolume(c, b)
    BY <1>4 DEF SetVolume, Saves
<1>5. CASE SaveSlot0
    BY <1>5 DEF SaveSlot0, ram, IInv, TypeOK, Drives
<1>6. CASE SaveSlot1
    <2>1. eeprom'.slot = [eeprom.slot EXCEPT ![1] = fileno[1]] /\ fileno' = fileno
        BY <1>6 DEF SaveSlot1, ram, IInv, TypeOK
    <2>2. eeprom.slot[0] = fileno[0]
        BY <1>6 DEF SaveSlot1
    <2>3. eeprom'.slot = fileno
        BY <2>1, <2>2 DEF IInv, TypeOK, Drives
    <2> QED BY <1>6, <2>1, <2>3 DEF SaveSlot1, ram
<1>7. CASE SaveInit
    <2>1. eeprom'.init = 0 /\ eeprom'.slot = eeprom.slot /\ fileno' = fileno /\ pc' = "init1"
        BY <1>7 DEF SaveInit, ram, IInv, TypeOK
    <2>2. eeprom.slot = fileno
        BY <1>7 DEF SaveInit
    <2> QED BY <2>1, <2>2 DEF Loaded
<1>8. CASE \E d \in Drives, up, opened, served, err \in BOOLEAN :
              UseImage(d, up, opened, served, err)
    BY <1>8 DEF UseImage
<1>9. CASE \E d \in Drives, c \in Cards : InsertCard(d, c)
    BY <1>9 DEF InsertCard, ram, Loaded
<1>10. CASE \E d \in Drives : RemoveCard(d)
    BY <1>10 DEF RemoveCard, ram, Loaded
<1>11. CASE UNCHANGED vars
    BY <1>11 DEF vars, Loaded
<1> QED BY <1>1, <1>2, <1>3, <1>4, <1>5, <1>6, <1>7, <1>8, <1>9, <1>10, <1>11 DEF Next

LEMMA InductiveProgress == Spec => [](IInv /\ Progress)
<1>1. Init => IInv /\ Progress
    BY InitIInv, InitProgress
<1>2. (IInv /\ Progress) /\ [Next]_vars => (IInv /\ Progress)'
    BY NextIInv, NextProgress
<1> QED BY <1>1, <1>2, PTL DEF Spec

\* Only the three writes of write_eeprom() change what the next start loads.
LEMMA OnlySavesWrite ==
    ASSUME [Next]_vars, eeprom' # eeprom
    PROVE  SaveSlot0 \/ SaveSlot1 \/ SaveInit
BY DEF Next, Reset, SetupDrive0, SetupDrive1, SetVolume, SetVolumeDrive1, SetVolumeDrive0,
       UseImage, InsertCard, RemoveCard, vars

\* A reset between any two EEPROM cells leaves the old configuration, the new
\* one, or the new number of drive 0 with the old one of drive 1, and the very
\* first save is atomic (write_eeprom).
THEOREM SavesOrdered == Spec => SaveIsOrdered
<1>1. IInv /\ Progress /\ [Next]_vars => [SaveOrder]_vars
    <2> SUFFICES ASSUME IInv, Progress, [Next]_vars, Loaded(eeprom)' # Loaded(eeprom)
                 PROVE  SaveOrder
        BY DEF SaveOrder
    <2>0. eeprom' # eeprom
        OBVIOUS
    <2> USE DEF IInv, TypeOK, Loaded, Drives, ram
    <2>1. CASE SaveSlot0
        <3>1. /\ eeprom.init # 255 /\ eeprom'.init # 255
              /\ eeprom'.slot = [eeprom.slot EXCEPT ![0] = fileno[0]]
            BY <2>1 DEF SaveSlot0
        <3> QED BY <3>1 DEF SaveOrder
    <2>2. CASE SaveSlot1
        <3>1. /\ eeprom.init # 255 /\ eeprom'.init # 255
              /\ eeprom'.slot = [eeprom.slot EXCEPT ![1] = fileno[1]]
            BY <2>2 DEF SaveSlot1
        <3>2. eeprom.slot[0] = fileno[0]
            BY <2>2 DEF SaveSlot1, Progress, SaveProgress
        <3> QED BY <3>1, <3>2 DEF SaveOrder
    <2>3. CASE SaveInit
        <3>1. eeprom.init = 255 /\ eeprom'.init = 0 /\ eeprom'.slot = eeprom.slot
            BY <2>3 DEF SaveInit
        <3>2. eeprom.slot = fileno /\ fileno' = fileno
            BY <2>3 DEF SaveInit, Progress, SaveProgress
        <3> QED BY <3>1, <3>2 DEF SaveOrder
    <2> QED BY <2>0, <2>1, <2>2, <2>3, OnlySavesWrite
<1> QED BY <1>1, InductiveProgress, PTL DEF Spec, SaveIsOrdered

\* Only commands 4 and 7 ever write the EEPROM: a browsing volume selector (command 6), a
\* start and an access leave the saved configuration alone.  When a 4 or a 7 is answered,
\* the next start loads what runs now (do_set_volume).
THEOREM SavesTakeEffect == Spec => SaveTakesEffect
<1>1. IInv /\ Progress /\ [Next]_vars => [SaveEffect]_vars
    <2> SUFFICES ASSUME IInv, Progress, [Next]_vars PROVE SaveEffect
        OBVIOUS
    <2>1. ASSUME eeprom' # eeprom PROVE cmd \in {4, 7}
        <3>1. pc \in {"save0", "save1", "saveInit"}
            BY <2>1, OnlySavesWrite DEF SaveSlot0, SaveSlot1, SaveInit
        <3> QED BY <3>1 DEF Progress, SaveProgress
    <2>2. ASSUME pc = "init0", pc' = "idle", cmd \in {4, 7} PROVE Loaded(eeprom)' = fileno'
        <3>1. SetVolumeDrive0
            BY <2>2
            DEF Next, Reset, SetupDrive0, SetupDrive1, SetVolume, SaveSlot0, SaveSlot1, SaveInit,
                SetVolumeDrive1, UseImage, InsertCard, RemoveCard, ram, vars
        <3>2. eeprom' = eeprom /\ fileno' = fileno
            BY <3>1 DEF SetVolumeDrive0
        <3>3. Loaded(eeprom) = fileno
            BY <2>2 DEF Progress, SaveProgress
        <3> QED BY <3>2, <3>3 DEF Loaded
    <2> QED BY <2>1, <2>2 DEF SaveEffect
<1> QED BY <1>1, InductiveProgress, PTL DEF Spec, SaveTakesEffect

\* At the start a wide drive 0 whose card comes up takes both drives, whatever
\* the file number of drive 1 (setup).
THEOREM WideAtBoot == Spec => WideHonouredAtBoot
<1>1. IInv /\ Progress /\ [Next]_vars => [WideBoot]_vars
    <2> SUFFICES ASSUME IInv, Progress, [Next]_vars,
                        pc = "boot1", pc' = "idle", fileno[0] = 255, stat[0]
                 PROVE  state' = [d \in Drives |-> "WIDE"]
        BY DEF WideBoot
    <2>1. state = [d \in Drives |-> "WIDE"]
        BY DEF Progress, BootProgress
    <2>2. SetupDrive1
        BY DEF Next, Reset, SetupDrive0, SetVolume, SaveSlot0, SaveSlot1, SaveInit,
               SetVolumeDrive1, SetVolumeDrive0, UseImage, InsertCard, RemoveCard, ram, vars
    <2> QED BY <2>1, <2>2 DEF SetupDrive1, InitializeDrive, Drives
<1> QED BY <1>1, InductiveProgress, PTL DEF Spec, WideHonouredAtBoot

-----------------------------------------------------------------------------
(* The map from blocks to sectors. *)

\* A sector address determines the volume and the block number.
LEMMA LocationInjective ==
    ASSUME NEW m \in Int, NEW n \in Int, NEW b \in Nat, NEW c \in Nat,
           b < 65536, c < 65536, 65536 * m + b = 65536 * n + c
    PROVE  m = n /\ b = c
OBVIOUS

\* What the two address calculations see of a unit byte determines it.
LEMMA UnitParts ==
    ASSUME NEW u \in Units
    PROVE  /\ u \in Nat /\ u = 16 * (u \div 16)
           /\ u \div 16 \in 0..15
           /\ DriveOf(u) \in Drives
           /\ u \div 16 = 8 * DriveOf(u) + ((u \div 16) % 8)
<1>1. PICK n \in 0..15 : u = 16 * n
    BY UnitsAssumption
<1>2. u \div 16 = n
    BY <1>1
<1>3. u \div 128 = n \div 8
    BY <1>1
<1>4. n \div 8 \in {0, 1}
    OBVIOUS
<1>5. n = 8 * (n \div 8) + (n % 8)
    OBVIOUS
<1> QED BY <1>1, <1>2, <1>3, <1>4, <1>5 DEF DriveOf, Drives

\* With the modes of the slot manager, the place determines volume and block.
LEMMA ModesKeepApart == TypeOK /\ ModeMatchesConfig => BlocksApart
<1> SUFFICES ASSUME TypeOK, ModeMatchesConfig,
                    NEW u \in Units, NEW v \in Units, NEW b \in Blks, NEW c \in Blks,
                    Served(u), Served(v), Place(u, b) = Place(v, c)
             PROVE  SameVolume(u, v) /\ b = c
    BY DEF BlocksApart
<1> DEFINE d == DriveOf(u)
           e == DriveOf(v)
<1>1. d \in Drives /\ e \in Drives /\ b \in Nat /\ c \in Nat /\ b < 65536 /\ c < 65536
    BY UnitParts, BlksAssumption
<1>2. /\ state[d] \in {"BLOCK", "WIDE", "FILE"} /\ state[e] \in {"BLOCK", "WIDE", "FILE"}
    BY <1>1 DEF TypeOK, Served
<1>3. /\ Socket(d) = Socket(e)
      /\ (IF state[d] = "FILE" THEN <<name[d]>> ELSE <<>>)
            = (IF state[e] = "FILE" THEN <<name[e]>> ELSE <<>>)
      /\ (IF state[d] = "FILE" THEN FileLocation(b) ELSE BlockLocation(u, b, state[d]))
            = (IF state[e] = "FILE" THEN FileLocation(c) ELSE BlockLocation(v, c, state[e]))
    BY DEF Place
<1>4. state[d] = "FILE" <=> state[e] = "FILE"
    BY <1>3
<1>5. CASE state[d] = "FILE"
  <2>1. d = e
      BY <1>3, <1>4, <1>5 DEF Socket
  <2>2. b = c
      BY <1>1, <1>3, <1>4, <1>5 DEF FileLocation
  <2> QED BY <2>1, <2>2, <1>5 DEF SameVolume
<1>6. CASE state[d] = "WIDE"
  <2>1. state[e] = "WIDE"
      BY <1>1, <1>6 DEF ModeMatchesConfig, Drives, Other
  <2>2. 65536 * (u \div 16) + b = 65536 * (v \div 16) + c
      BY <1>3, <1>6, <2>1 DEF BlockLocation, Volume
  <2>3. u \div 16 \in Int /\ v \div 16 \in Int
      BY UnitParts
  <2>4. u \div 16 = v \div 16 /\ b = c
      BY <1>1, <2>2, <2>3, LocationInjective
  <2>5. u = v
      BY <2>4, UnitParts
  <2> QED BY <2>4, <2>5 DEF SameVolume
<1>7. CASE state[d] = "BLOCK"
  <2>1. state[e] = "BLOCK"
      BY <1>1, <1>2, <1>4, <1>7 DEF ModeMatchesConfig, Drives, Other
  <2>2. d = e
      BY <1>3, <1>7, <2>1 DEF Socket
  <2>3. 65536 * ((u \div 16) % 8) + b = 65536 * ((v \div 16) % 8) + c
      BY <1>3, <1>7, <2>1 DEF BlockLocation, Volume
  <2>4. (u \div 16) % 8 \in Int /\ (v \div 16) % 8 \in Int
      BY UnitParts
  <2>5. (u \div 16) % 8 = (v \div 16) % 8 /\ b = c
      BY <1>1, <2>3, <2>4, LocationInjective
  <2>6. u \div 16 = v \div 16
      BY <1>1, <2>2, <2>5, UnitParts DEF Drives
  <2>7. u = v
      BY <2>6, UnitParts
  <2> QED BY <2>5, <2>7 DEF SameVolume
<1> QED BY <1>2, <1>5, <1>6, <1>7

\* Two blocks never share a sector, whatever the configurations, resets, cards
\* and failures (calculate_block_location, do_read, do_write, initialize_drive).
THEOREM BlocksNeverShared == Spec => []BlocksApart
<1>1. IInv => BlocksApart
    BY ModesKeepApart DEF IInv
<1> QED BY <1>1, Inductive, PTL

\* A sector address of any unit and block is below 2^20, so neither the 32 bits
\* of "blockloc" nor a byte address (512 times as much) of a small card wraps.
THEOREM LocationFits ==
    ASSUME NEW u \in Units, NEW b \in Blks, NEW mode \in {"BLOCK", "WIDE"}
    PROVE  /\ BlockLocation(u, b, mode) \in Nat /\ BlockLocation(u, b, mode) < 1048576
           /\ FileLocation(b) \in Nat /\ FileLocation(b) < 33554432
<1>1. b \in Nat /\ b < 65536
    BY BlksAssumption
<1>2. Volume(u, mode) \in 0..15
    BY UnitParts DEF Volume
<1> QED BY <1>1, <1>2 DEF BlockLocation, FileLocation
-----------------------------------------------------------------------------
(* The volume selector. *)

\* Where the program is, with where the sketch is: which numbers are tried, which are
\* remembered, and what has been typed so far.
Places ==
    /\ high = (at = "read1")
    /\ at = "boot" => pc \in {"boot0", "boot1", "idle"}
    /\ at \in {"row", "read1", "key0", "key1", "config0", "config1"} => pc = "idle"
    /\ at = "read0" => pc \in {"init1", "init0", "idle"}
    /\ at \in {"read0", "read1"} => fileno = Both(cv)
    /\ at \in {"row", "read0", "read1", "key0", "key1"} =>
          ended = "none" /\ gvoldrive = entry.ram /\ Saved = entry.saved
    /\ at \in {"config0", "config1"} => ended = "none"
    /\ at \in {"key1", "config1"} => \E k \in Keys : typed = <<k>> /\ Means(k, voldrive[0])

\* How it ends: the numbers are already the right ones when the sketch brings up the drives.
Ending ==
    at = "reboot" =>
       \/ /\ ended = "abort" /\ pc \in {"init1", "init0", "idle"}
          /\ fileno = entry.ram /\ Saved = entry.saved
       \/ /\ ended = "chosen" /\ pc \notin {"boot0", "boot1"}
          /\ \A d \in Drives : Means(typed[d + 1], fileno[d])
          /\ pc \in {"init1", "init0", "idle"} => Saved = fileno

ScreenTrue ==
    \A v \in 0..Rows - 1, d \in Drives :
       screen[v][d] # NoVolume => screen[v][d] = <<d, HexName(v)>>

SelectorInv == IInv /\ Progress /\ SelectorTypeOK /\ Places /\ Ending /\ ScreenTrue /\ Outcome

\* A key is taken for the number it shows.
LEMMA KeyMeans ==
    ASSUME NEW k \in Keys, NEW v \in Numbers(k)
    PROVE  Means(k, v) /\ v \in Bytes
<1>1. k \in 128..255 /\ v \in Bytes
    BY KeysAssumption
<1>2. Means(k, v)
    BY <1>1 DEF Numbers, Upper, Means
<1> QED BY <1>1, <1>2

\* On the configuration page too.
LEMMA ConfigKeyMeans ==
    ASSUME NEW k \in Keys, k \in {161} \cup 176..185,
           NEW v, v = IF k = 161 THEN 255 ELSE k % 16
    PROVE  Means(k, v) /\ v \in Bytes
<1>1. v \in Numbers(k)
    BY DEF Numbers, Upper
<1> QED BY <1>1, KeyMeans

\* The numbers of the rows can be chosen.
LEMMA RowNumbers == ASSUME NEW v \in 0..Rows - 1 PROVE v \in Bytes /\ v \in 0..15
BY RowsAssumption DEF Bytes

LEMMA RowBoth == ASSUME NEW v \in 0..Rows - 1 PROVE Both(v) \in [Drives -> Bytes]
BY RowNumbers DEF Both

LEMMA ShownVolumes == Shown \subseteq Volumes
<1> SUFFICES ASSUME NEW d \in Drives, NEW v \in 0..Rows - 1
             PROVE  <<d, HexName(v)>> \in Drives \X HexNames
    BY DEF Shown, Volumes
<1>1. HexName(v) \in HexNames
    BY RowNumbers, HexNameType
<1> QED BY <1>1

\* Block 2 of a drive, while both drives have the number of the row.
LEMMA ReadBlockIs ==
    ASSUME SelectorInv, NEW d \in Drives, NEW got, fileno = Both(cv), ReadBlock(d, got)
    PROVE  /\ got # NoVolume => got = <<d, HexName(cv)>>
           /\ [Next]_vars
           /\ pc' = pc /\ fileno' = fileno /\ eeprom' = eeprom
<1>1. cv \in 0..15 /\ fileno[d] = cv
    <2>1. cv \in 0..Rows - 1
        BY DEF SelectorInv, SelectorTypeOK
    <2> QED BY <2>1, RowNumbers DEF Both
<1>2. CASE state[d] = "NODEV"
    BY <1>2 DEF ReadBlock, sketch, vars
<1>3. CASE state[d] = "FILE"
    <2>1. PICK up, opened, served, err \in BOOLEAN :
             /\ UseImage(d, up, opened, served, err)
             /\ got = IF served THEN <<slotfile'.vol, slotfile'.name>> ELSE NoVolume
        BY <1>3 DEF ReadBlock
    <2>2. Next
        BY <2>1 DEF Next
    <2>3. IInv'
        BY <2>2, NextIInv DEF SelectorInv
    <2>4. pc' = pc /\ fileno' = fileno /\ eeprom' = eeprom /\ state' = state
        BY <2>1 DEF UseImage
    <2>5. served => lastDrive' = d
        BY <2>1 DEF UseImage, OpenImage
    <2>6. served => slotfile'.vol = d /\ slotfile'.name = HexName(cv)
        <3>1. name'[d] = HexName(fileno'[d])
            BY <1>3, <2>3, <2>4 DEF IInv, HandleMatchesSlot
        <3>2. d # 255
            BY DEF Drives
        <3> QED BY <1>1, <2>3, <2>4, <2>5, <3>1, <3>2 DEF IInv, HandleMatchesSlot
    <2> QED BY <2>1, <2>2, <2>4, <2>6
<1>4. CASE state[d] \in {"BLOCK", "WIDE"}
    <2>1. state[d] = "BLOCK" /\ fileno[d] = 0
        <3>1. state[d] = "WIDE" => \E e \in Drives : fileno[e] = 255
            BY DEF SelectorInv, IInv, ModeMatchesConfig, Drives, Other
        <3>2. \A e \in Drives : fileno[e] = cv
            BY DEF Both
        <3>3. state[d] = "BLOCK"
            BY <1>1, <1>4, <3>1, <3>2
        <3> QED BY <3>3 DEF SelectorInv, IInv, ModeMatchesConfig
    <2>2. got \in {NoVolume, <<d, <<0, 0>>>>} /\ UNCHANGED vars
        BY <2>1 DEF ReadBlock, sketch
    <2>3. HexName(cv) = <<0, 0>>
        BY <1>1, <2>1 DEF HexName
    <2> QED BY <2>2, <2>3 DEF vars
<1>5. state[d] \in {"NODEV", "BLOCK", "WIDE", "FILE"}
    BY DEF SelectorInv, IInv, TypeOK
<1> QED BY <1>2, <1>3, <1>4, <1>5

\* What a step of the program keeps, besides the state of the sketch.
Kept == SelectorTypeOK /\ Places /\ Ending /\ ScreenTrue /\ Outcome

LEMMA SketchKeeps ==
    ASSUME SelectorInv, [Next]_vars
    PROVE  IInv' /\ Progress' /\ TypeOK'
BY NextIInv, NextProgress DEF SelectorInv, IInv

LEMMA BlankScreen == Blank \in [0..Rows - 1 -> [Drives -> Volumes]]
BY DEF Blank, Volumes

LEMMA BothZero == Both(0) \in [Drives -> Bytes]
BY DEF Both, Bytes

\* A new screen shows nothing yet.
LEMMA NothingShown == ASSUME screen' = Blank PROVE ScreenTrue'
BY DEF Blank, ScreenTrue

LEMMA SelectorInitInv == SelectorInit => SelectorInv
<1> SUFFICES ASSUME SelectorInit PROVE SelectorInv
    OBVIOUS
<1>1. IInv /\ Progress
    BY InitIInv, InitProgress DEF SelectorInit
<1>2. cv \in 0..Rows - 1
    BY RowsAssumption DEF SelectorInit, AppleInit
<1>3. SelectorTypeOK
    BY <1>1, <1>2, BlankScreen, BothZero DEF SelectorInit, AppleInit, SelectorTypeOK, IInv
<1>4. Places /\ Ending /\ Outcome
    BY DEF SelectorInit, AppleInit, Init, Places, Ending, Outcome
<1>5. ScreenTrue
    BY DEF SelectorInit, AppleInit, Blank, ScreenTrue
<1> QED BY <1>1, <1>3, <1>4, <1>5 DEF SelectorInv

LEMMA ResetKeeps == ASSUME SelectorInv, SelectorReset PROVE [Next]_vars /\ Kept'
<1>1. Next
    BY DEF SelectorReset, Next
<1>2. cv' \in 0..Rows - 1
    BY RowsAssumption DEF SelectorReset
<1>3. SelectorTypeOK'
    BY <1>1, <1>2, SketchKeeps, BlankScreen, BothZero DEF SelectorReset, SelectorTypeOK
<1>4. Places' /\ Ending' /\ Outcome'
    BY DEF SelectorReset, Reset, Places, Ending, Outcome
<1> QED BY <1>1, <1>3, <1>4, NothingShown DEF Kept, SelectorReset

LEMMA StartKeeps == ASSUME SelectorInv, Start PROVE [Next]_vars /\ Kept'
<1>1. UNCHANGED vars
    BY DEF Start, sketch
<1>2. cv' \in 0..Rows - 1
    BY RowsAssumption DEF Start
<1>3. SelectorTypeOK'
    BY <1>1, <1>2, SketchKeeps, BlankScreen DEF Start, SelectorTypeOK, SelectorInv, TypeOK
<1>4. Places' /\ Ending' /\ Outcome'
    BY <1>1 DEF Start, vars, Places, Ending, Outcome, SelectorInv, Saved, Loaded
<1> QED BY <1>1, <1>3, <1>4, NothingShown DEF Kept, Start

LEMMA SelectRowKeeps == ASSUME SelectorInv, SelectRow PROVE [Next]_vars /\ Kept'
<1>1. Both(cv) \in [Drives -> Bytes]
    BY RowBoth DEF SelectorInv, SelectorTypeOK
<1>2. SetVolume(6, Both(cv))
    BY DEF SelectRow
<1>3. Next
    BY <1>1, <1>2 DEF Next
<1>4. SelectorTypeOK'
    BY <1>1, <1>3, SketchKeeps DEF SelectRow, SelectorTypeOK, SelectorInv
<1>5. Places' /\ Ending' /\ Outcome'
    BY <1>2
    DEF SelectRow, SetVolume, Saves, Places, Ending, Outcome, SelectorInv, Saved, Loaded, Both
<1>6. ScreenTrue'
    BY DEF SelectRow, SelectorInv, ScreenTrue
<1> QED BY <1>3, <1>4, <1>5, <1>6 DEF Kept

\* A name is shown in its row and column.
LEMMA ShowKeeps ==
    ASSUME SelectorInv, fileno = Both(cv), NEW d \in Drives, d = (IF high THEN 1 ELSE 0),
           NEW got \in Shown, ShowName(d, got)
    PROVE  /\ [Next]_vars /\ ScreenTrue' /\ screen' \in [0..Rows - 1 -> [Drives -> Volumes]]
           /\ pc' = pc /\ fileno' = fileno /\ eeprom' = eeprom
<1>1. ReadBlock(d, got)
    BY DEF ShowName
<1>2. PICK shown \in {got, NoVolume} : screen' = [screen EXCEPT ![cv][d] = shown]
    BY DEF ShowName
<1>3. shown # NoVolume => shown = <<d, HexName(cv)>>
    BY <1>1, ReadBlockIs
<1>4. shown \in Volumes
    BY ShownVolumes DEF Volumes
<1>5. screen \in [0..Rows - 1 -> [Drives -> Volumes]] /\ cv \in 0..Rows - 1
    BY DEF SelectorInv, SelectorTypeOK
<1>6. \A v \in 0..Rows - 1, e \in Drives :
          screen'[v][e] = IF v = cv /\ e = d THEN shown ELSE screen[v][e]
    BY <1>2, <1>5
<1>7. ScreenTrue'
    BY <1>3, <1>6 DEF SelectorInv, ScreenTrue
<1>8. screen' \in [0..Rows - 1 -> [Drives -> Volumes]]
    BY <1>2, <1>4, <1>5
<1> QED BY <1>1, <1>7, <1>8, ReadBlockIs

LEMMA ShowDrive0Keeps == ASSUME SelectorInv, ShowDrive0 PROVE [Next]_vars /\ Kept'
<1>1. fileno = Both(cv) /\ ~high /\ 0 \in Drives
    BY DEF ShowDrive0, SelectorInv, Places, Drives
<1>2. PICK got \in Shown : ShowName(0, got)
    BY DEF ShowDrive0
<1>3. /\ [Next]_vars /\ ScreenTrue' /\ screen' \in [0..Rows - 1 -> [Drives -> Volumes]]
      /\ pc' = pc /\ fileno' = fileno /\ eeprom' = eeprom
    BY <1>1, <1>2, ShowKeeps
<1>4. pc = "idle"
    BY <1>2 DEF ShowName, ReadBlock
<1>5. SelectorTypeOK'
    BY <1>3, SketchKeeps DEF ShowDrive0, SelectorTypeOK, SelectorInv
<1>6. Places'
    <2>1. high' = (at' = "read1")
        BY DEF ShowDrive0
    <2> QED BY <1>3, <1>4, <2>1 DEF ShowDrive0, Places, SelectorInv, Saved, Loaded, Both
<1>7. Ending' /\ Outcome'
    BY DEF ShowDrive0, Ending, Outcome
<1> QED BY <1>3, <1>5, <1>6, <1>7 DEF Kept

LEMMA ShowDrive1Keeps == ASSUME SelectorInv, ShowDrive1 PROVE [Next]_vars /\ Kept'
<1>1. fileno = Both(cv) /\ high /\ 1 \in Drives
    BY DEF ShowDrive1, SelectorInv, Places, Drives
<1>2. PICK got \in Shown : ShowName(1, got)
    BY DEF ShowDrive1
<1>3. /\ [Next]_vars /\ ScreenTrue' /\ screen' \in [0..Rows - 1 -> [Drives -> Volumes]]
      /\ pc' = pc /\ fileno' = fileno /\ eeprom' = eeprom
    BY <1>1, <1>2, ShowKeeps
<1>4. pc = "idle"
    BY <1>2 DEF ShowName, ReadBlock
<1>5. cv' \in 0..Rows - 1 /\ at' \in {"row", "key0"} /\ high' = FALSE
    BY RowsAssumption DEF ShowDrive1, NextRow, SelectorInv, SelectorTypeOK
<1>6. SelectorTypeOK'
    BY <1>3, <1>5, SketchKeeps DEF ShowDrive1, SelectorTypeOK, SelectorInv
<1>7. Places' /\ Ending' /\ Outcome'
    BY <1>3, <1>4, <1>5 DEF ShowDrive1, Places, Ending, Outcome, SelectorInv, Saved, Loaded, Both
<1> QED BY <1>3, <1>6, <1>7 DEF Kept

-----------------------------------------------------------------------------
(* The keys. *)

\* The first number, at the prompt or on the configuration page.
LEMMA FirstKeyKeeps ==
    ASSUME SelectorInv, NEW k \in Keys, TypeCard1(k) \/ ConfigCard1(k)
    PROVE  [Next]_vars /\ Kept'
<1>1. PICK v \in Bytes : voldrive' = [voldrive EXCEPT ![0] = v] /\ Means(k, v)
    <2>1. CASE TypeCard1(k)
        <3>1. PICK v \in Numbers(k) : voldrive' = [voldrive EXCEPT ![0] = v]
            BY <2>1 DEF TypeCard1
        <3> QED BY <3>1, KeyMeans
    <2>2. CASE ConfigCard1(k)
        <3> DEFINE u == IF k = 161 THEN 255 ELSE k % 16
        <3>1. voldrive' = [voldrive EXCEPT ![0] = u] /\ k \in {161} \cup 176..185
            <4>1. k \in 128..255
                BY KeysAssumption
            <4> QED BY <2>2, <4>1 DEF ConfigCard1
        <3>2. u = IF k = 161 THEN 255 ELSE k % 16
            OBVIOUS
        <3> HIDE DEF u
        <3>3. Means(k, u) /\ u \in Bytes
            BY <3>1, <3>2, ConfigKeyMeans
        <3> QED BY <3>1, <3>3
    <2> QED BY <2>1, <2>2
<1>2. UNCHANGED vars /\ typed' = <<k>>
    BY DEF TypeCard1, ConfigCard1, sketch
<1>3. /\ \/ at = "key0" /\ at' = "key1"
         \/ at = "config0" /\ at' = "config1"
      /\ UNCHANGED <<cv, gvoldrive, high, screen, entry, ended>>
    BY DEF TypeCard1, ConfigCard1
<1>4. voldrive' \in [Drives -> Bytes] /\ voldrive'[0] = v
    BY <1>1 DEF SelectorInv, SelectorTypeOK, Drives
<1>5. SelectorTypeOK'
    BY <1>2, <1>3, <1>4, SketchKeeps DEF SelectorTypeOK, SelectorInv
<1>6. Places'
    BY <1>1, <1>2, <1>3, <1>4 DEF Places, SelectorInv, vars, Saved, Loaded
<1>7. Ending' /\ Outcome'
    BY <1>3 DEF Ending, Outcome
<1>8. ScreenTrue'
    BY <1>3 DEF SelectorInv, ScreenTrue
<1> QED BY <1>2, <1>5, <1>6, <1>7, <1>8 DEF Kept

LEMMA Pair == ASSUME NEW j \in Keys, NEW k \in Keys PROVE Append(<<j>>, k) = <<j, k>>
<1> DEFINE s == Append(<<j>>, k)
<1>1. <<j>> \in Seq(Keys) /\ Len(<<j>>) = 1 /\ <<j>>[1] = j
    OBVIOUS
<1>2. s \in Seq(Keys) /\ Len(s) = 2 /\ s[1] = j /\ s[2] = k
    BY <1>1, AppendProperties
<1> HIDE DEF s
<1>3. s = <<j, k>>
    BY <1>2
<1> QED BY <1>3 DEF s

\* The second number is set and saved with the first.
LEMMA SecondKeyKeeps ==
    ASSUME SelectorInv, NEW k \in Keys, TypeCard2(k) \/ ConfigCard2(k)
    PROVE  [Next]_vars /\ Kept'
<1>1. PICK v \in Bytes : voldrive' = [voldrive EXCEPT ![1] = v] /\ Means(k, v)
    <2>1. CASE TypeCard2(k)
        <3>1. PICK v \in Numbers(k) : voldrive' = [voldrive EXCEPT ![1] = v]
            BY <2>1 DEF TypeCard2
        <3> QED BY <3>1, KeyMeans
    <2>2. CASE ConfigCard2(k)
        <3> DEFINE u == IF k = 161 THEN 255 ELSE k % 16
        <3>1. voldrive' = [voldrive EXCEPT ![1] = u] /\ k \in {161} \cup 176..185
            <4>1. k \in 176..185 /\ voldrive' = [voldrive EXCEPT ![1] = k % 16]
                BY <2>2 DEF ConfigCard2
            <4>2. u = k % 16
                BY <4>1
            <4> HIDE DEF u
            <4> QED BY <4>1, <4>2
        <3>2. u = IF k = 161 THEN 255 ELSE k % 16
            OBVIOUS
        <3> HIDE DEF u
        <3>3. Means(k, u) /\ u \in Bytes
            BY <3>1, <3>2, ConfigKeyMeans
        <3> QED BY <3>1, <3>3
    <2> QED BY <2>1, <2>2
<1>2. PICK c \in {4, 7} : SetVolume(c, voldrive')
    BY DEF TypeCard2, ConfigCard2
<1>3. /\ at \in {"key1", "config1"} /\ at' = "reboot" /\ ended' = "chosen"
      /\ UNCHANGED <<cv, gvoldrive, high, screen, entry>> /\ typed' = Append(typed, k)
    BY DEF TypeCard2, ConfigCard2
<1>4. PICK j \in Keys : typed = <<j>> /\ Means(j, voldrive[0])
    BY <1>3 DEF SelectorInv, Places
<1>5. typed' = <<j, k>>
    BY <1>3, <1>4, Pair
<1>6. voldrive' \in [Drives -> Bytes] /\ voldrive'[0] = voldrive[0] /\ voldrive'[1] = v
    BY <1>1 DEF SelectorInv, SelectorTypeOK, Drives
<1>7. Next
    BY <1>2, <1>6 DEF Next
<1>8. SelectorTypeOK'
    BY <1>3, <1>5, <1>6, <1>7, SketchKeeps DEF SelectorTypeOK, SelectorInv
<1>9. Places'
    BY <1>3 DEF Places, SelectorInv
<1>10. \A d \in Drives : Means(typed'[d + 1], voldrive'[d])
    BY <1>1, <1>4, <1>5, <1>6 DEF Drives
<1>11. Ending' /\ Outcome'
    <2>1. fileno' = voldrive' /\ pc' = "save0"
        BY <1>2 DEF SetVolume, Saves
    <2>2. \A d \in Drives : Means(typed'[d + 1], fileno'[d])
        BY <1>10, <2>1
    <2> QED BY <1>3, <2>1, <2>2 DEF Ending, Outcome
<1>12. ScreenTrue'
    BY <1>3 DEF SelectorInv, ScreenTrue
<1> QED BY <1>7, <1>8, <1>9, <1>11, <1>12 DEF Kept

\* ESC sets what the program found, and saves nothing.
LEMMA AbortKeeps == ASSUME SelectorInv, Abort PROVE [Next]_vars /\ Kept'
<1>1. SetVolume(6, gvoldrive) /\ gvoldrive \in [Drives -> Bytes]
    BY DEF Abort, SelectorInv, SelectorTypeOK
<1>2. Next
    BY <1>1 DEF Next
<1>3. SelectorTypeOK'
    BY <1>1, <1>2, SketchKeeps DEF Abort, SelectorTypeOK, SelectorInv
<1>4. Places' /\ Ending' /\ Outcome'
    BY <1>1 DEF Abort, SetVolume, Saves, Places, Ending, Outcome, SelectorInv, Saved, Loaded
<1>5. ScreenTrue'
    BY DEF Abort, SelectorInv, ScreenTrue
<1> QED BY <1>2, <1>3, <1>4, <1>5 DEF Kept

LEMMA RebootKeeps == ASSUME SelectorInv, Reboot PROVE [Next]_vars /\ Kept'
<1>1. UNCHANGED vars
    BY DEF Reboot, sketch
<1>2. SelectorTypeOK'
    BY <1>1, SketchKeeps, BlankScreen, BothZero DEF Reboot, SelectorTypeOK, SelectorInv
<1>3. Places' /\ Ending'
    BY <1>1 DEF Reboot, vars, Places, Ending, SelectorInv, Saved, Loaded
<1>4. Outcome'
    BY <1>1 DEF Reboot, vars, Ending, Outcome, SelectorInv, Saved, Loaded
<1> QED BY <1>1, <1>2, <1>3, <1>4, NothingShown DEF Kept, Reboot

LEMMA ConfigureKeeps == ASSUME SelectorInv, Configure PROVE [Next]_vars /\ Kept'
<1>1. UNCHANGED vars
    BY DEF Configure, sketch
<1>2. SelectorTypeOK'
    BY <1>1, SketchKeeps DEF Configure, SelectorTypeOK, SelectorInv
<1>3. Places' /\ Ending' /\ Outcome'
    BY <1>1 DEF Configure, vars, Places, Ending, Outcome, SelectorInv
<1>4. ScreenTrue'
    BY DEF Configure, SelectorInv, ScreenTrue
<1> QED BY <1>1, <1>2, <1>3, <1>4 DEF Kept

-----------------------------------------------------------------------------
\* The sketch saves the numbers in use, one by one, and then brings up the drives.
LEMMA SketchStepKeeps == ASSUME SelectorInv, SketchStep PROVE [Next]_vars /\ Kept'
<1>1. Next /\ UNCHANGED apple
    BY DEF SketchStep, Next
<1>2. SelectorTypeOK' /\ ScreenTrue'
    BY <1>1, SketchKeeps DEF apple, SelectorTypeOK, SelectorInv, ScreenTrue
<1>3. fileno' = fileno
    BY DEF SketchStep, SetupDrive0, SetupDrive1, SaveSlot0, SaveSlot1, SaveInit,
           SetVolumeDrive1, SetVolumeDrive0, ram
<1>4. CASE SetupDrive0 \/ SetupDrive1
    <2>1. pc \in {"boot0", "boot1"} /\ pc' \in {"boot1", "idle"} /\ eeprom' = eeprom
        BY <1>4 DEF SetupDrive0, SetupDrive1
    <2>2. at = "boot"
        BY <2>1 DEF SelectorInv, SelectorTypeOK, Places, Ending
    <2> QED BY <1>1, <1>2, <1>3, <2>1, <2>2
            DEF Kept, Places, Ending, Outcome, SelectorInv, apple, Saved, Loaded
<1>5. CASE SetVolumeDrive1 \/ SetVolumeDrive0
    <2>1. pc \in {"init1", "init0"} /\ pc' \in {"init0", "idle"} /\ eeprom' = eeprom
        BY <1>5 DEF SetVolumeDrive1, SetVolumeDrive0
    <2>2. at \in {"read0", "reboot"}
        BY <2>1 DEF SelectorInv, SelectorTypeOK, Places
    <2> QED BY <1>1, <1>2, <1>3, <2>1, <2>2
            DEF Kept, Places, Ending, Outcome, SelectorInv, apple, Saved, Loaded, Both
<1>6. CASE SaveSlot0 \/ SaveSlot1 \/ SaveInit
    <2>1. pc \in {"save0", "save1", "saveInit"} /\ pc' \in {"save1", "saveInit", "init1"}
        BY <1>6 DEF SaveSlot0, SaveSlot1, SaveInit
    <2>2. at = "reboot" /\ ended = "chosen"
        BY <2>1 DEF SelectorInv, SelectorTypeOK, Places, Ending
    <2>3. pc' = "init1" => Saved' = fileno
        <3> SUFFICES ASSUME pc' = "init1" PROVE Saved' = fileno
            OBVIOUS
        <3>1. SaveInit
            BY <1>6 DEF SaveSlot0, SaveSlot1
        <3>2. eeprom'.init = 0 /\ eeprom'.slot = eeprom.slot /\ eeprom.slot = fileno
            BY <3>1 DEF SaveInit, SelectorInv, IInv, TypeOK, Progress, SaveProgress
        <3> QED BY <3>2 DEF Saved, Loaded
    <2>4. Places' /\ Ending' /\ Outcome'
        BY <1>1, <1>3, <2>1, <2>2, <2>3 DEF Places, Ending, Outcome, SelectorInv, apple
    <2> QED BY <1>1, <1>2, <2>4 DEF Kept
<1> QED BY <1>4, <1>5, <1>6 DEF SketchStep

LEMMA SelectorKeeps == ASSUME SelectorInv, [SelectorNext]_both PROVE [Next]_vars /\ Kept'
<1>1. CASE UNCHANGED both
    <2>1. UNCHANGED vars /\ UNCHANGED apple
        BY <1>1 DEF both, sketch
    <2>2. SelectorTypeOK' /\ ScreenTrue'
        BY <2>1, SketchKeeps DEF apple, SelectorTypeOK, SelectorInv, ScreenTrue
    <2>3. Places' /\ Ending' /\ Outcome'
        BY <2>1 DEF vars, apple, Places, Ending, Outcome, SelectorInv, Saved, Loaded, Both
    <2> QED BY <2>1, <2>2, <2>3 DEF Kept
<1>2. CASE ProgramStep
    BY <1>2, SelectRowKeeps, ShowDrive0Keeps, ShowDrive1Keeps, RebootKeeps DEF ProgramStep
<1>3. CASE SelectorNext /\ ~ProgramStep
    BY <1>3, ResetKeeps, StartKeeps, ConfigureKeeps, FirstKeyKeeps, SecondKeyKeeps,
       AbortKeeps, SketchStepKeeps DEF SelectorNext
<1> QED BY <1>1, <1>2, <1>3

LEMMA SelectorInductive == SelectorSpec => []SelectorInv
<1>1. SelectorInv /\ [SelectorNext]_both => SelectorInv'
    BY SelectorKeeps, SketchKeeps DEF SelectorInv, Kept
<1> QED BY <1>1, SelectorInitInv, PTL DEF SelectorSpec

\* What the screen offers is what a choice gives: each name was read from the drive of its
\* column while that drive had the number of its row, although one open image serves both.
THEOREM RowsAlwaysTrue == SelectorSpec => []RowsTrue
<1>1. SelectorInv => RowsTrue
    BY DEF SelectorInv, ScreenTrue, RowsTrue
<1> QED BY <1>1, SelectorInductive, PTL

\* After ESC the numbers in use and the saved ones are those the program found; after two
\* digits both are what the keys say.
THEOREM OutcomeAsTyped == SelectorSpec => []Outcome
<1>1. SelectorInv => Outcome
    BY DEF SelectorInv
<1> QED BY <1>1, SelectorInductive, PTL

\* The saved numbers change only after the second digit, each to the one typed for it,
\* whatever RESET interrupts.
THEOREM OnlyTypedSaved == SelectorSpec => OnlyChosenSaved
<1> DEFINE Step == \A d \in Drives : Saved'[d] # Saved[d] =>
                      ended = "chosen" /\ Means(typed[d + 1], Saved'[d])
<1>1. SelectorInv /\ [SelectorNext]_both => [Step]_both
    <2> SUFFICES ASSUME SelectorInv, [SelectorNext]_both,
                        NEW d \in Drives, Saved'[d] # Saved[d]
                 PROVE  ended = "chosen" /\ Means(typed[d + 1], Saved'[d])
        BY DEF Step
    <2>1. [Next]_vars /\ eeprom' # eeprom
        BY SelectorKeeps DEF Saved
    <2>2. SaveSlot0 \/ SaveSlot1 \/ SaveInit
        BY <2>1, OnlySavesWrite
    <2>3. pc \in {"save0", "save1", "saveInit"}
        BY <2>2 DEF SaveSlot0, SaveSlot1, SaveInit
    <2>4. ended = "chosen" /\ Means(typed[d + 1], fileno[d])
        BY <2>3 DEF SelectorInv, SelectorTypeOK, Places, Ending
    <2>5. Saved'[d] = fileno[d]
        <3> USE DEF SelectorInv, IInv, TypeOK, Saved, Loaded, Drives
        <3>1. CASE SaveSlot0
            BY <3>1 DEF SaveSlot0
        <3>2. CASE SaveSlot1
            BY <3>2 DEF SaveSlot1
        <3>3. CASE SaveInit
            BY <3>3 DEF SaveInit, Progress, SaveProgress
        <3> QED BY <2>2, <3>1, <3>2, <3>3
    <2> QED BY <2>4, <2>5
<1> QED BY <1>1, SelectorInductive, PTL DEF SelectorSpec, OnlyChosenSaved
=============================================================================
