SPECIFICATION Spec
CONSTANTS
    Tasks = {t, u}
    Keys = {"x", "y"}
    Configured <- SomeRules
    Texts <- Lines
    Batches <- Lists
    Delimiters = {"none", "single", "several"}
    None = None
INVARIANTS TypeOK PassesWhatIsWanted
SYMMETRY Symmetry
