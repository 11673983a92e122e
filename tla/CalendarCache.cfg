SPECIFICATION Spec
CONSTANTS
    Days = 2
    Mutations = {m1, m2}
    MaxStarts = 2
    MaxStays = 4
    MaxOthers = 1
INVARIANTS QuietMonthIsTheServers
PROPERTIES OldMonthsDoNotReturn PhantomsGo
