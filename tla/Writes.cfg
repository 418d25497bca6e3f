SPECIFICATION Spec
CONSTANTS
 edit1 = edit1
 edit2 = edit2
 create1 = create1
 Edits = {edit1, edit2}
 Creates = {create1}
 MaxSignIns = 1
 MaxFaults = 1
INVARIANT RowsConfirmed
INVARIANT GuardFresh
INVARIANT WipeKept
SYMMETRY Symmetry
