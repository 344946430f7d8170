\* ALLVOLS run over and over on the tables of ProDOS.
SPECIFICATION Spec
CONSTANTS
    card = card
    disk = disk
    NoDevice = NoDevice
    Drivers <- MCDrivers
    Tables <- MCTables
    Presets <- MCPresets
INVARIANTS
    TablesSound
    AllAdded
PROPERTIES
    DevicesKept
