\* Two workers in the per-case lifecycle share the controller of one NQN.
CONSTANTS
    Calls = {"r", "w"}
    CommandOf <- MCCommands
    Configs <- MCPerCase
SPECIFICATION Spec
INVARIANT BusyHasCause
