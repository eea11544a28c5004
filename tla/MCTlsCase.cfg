\* Every configuration, one or two workers, a read and a write case.
CONSTANTS
    Calls = {"r", "w"}
    CommandOf <- MCCommands
    Configs <- MCAllConfigs
SPECIFICATION Spec
INVARIANTS TypeOK GatesHold ControllersAccounted OwnConnection
PROPERTY KeepsContract
