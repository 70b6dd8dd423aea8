SPECIFICATION PipelineSpec
CONSTANTS
    Name = {"Tectra", "TECTRA*88", "Netflix", "Rent", "POS DEBIT 1234"}
    Merchant = {"tectra", "netflix", "rent", ""}
    Nameless = ""
    Category = {"Shops", "Music", "Software"}
    Canonical <- CanonicalNames
    Keyworded = {"netflix"}
    Hinted = {"rent"}
    Statements <- BankStatements
    MaxAICalls = 2
    Brand = {"Tectra Pro"}
    Guesses = {"weekly"}
    Sureness = {40, 90}
    Topics = {"Software"}
    Orders <- OrdersTried
INVARIANTS
    ForecastInTime
    SiblingsDistinct
    SteadyFound
PROPERTIES
    OrderIrrelevant
CHECK_DEADLOCK FALSE
