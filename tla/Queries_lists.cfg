SPECIFICATION QuerySpec
CONSTANTS
    noname = noname
    null = null
    NoName <- noname
    None <- null
    Definitions <- MCDefinitions
    Keywords = {"class", "def"}
    CustomModels = {"ConcreteRole"}
    UserNames = {"level", "uid"}
    ModelNames = {"created_by", "uid"}
    UserAttributes = {"username", "manager", "uid", "Meta"}
    ModelAttributes = {"created_by", "uid", "Meta"}
    Lower <- MCLower
    Served <- MCServed
    Rows <- MCRows
    Cell <- MCCell
    Level <- MCLevel
    ClientQueries <- MCClientQueries
    SecondLen = 2
    DayLen = 4
    MaxPageSize = 2
    MaxNestedPageSize = 1
INVARIANTS
    QueryTypeOK
    
    NoRowTwice
    AcceptsWellFormed
    OmittedFieldsStored
CHECK_DEADLOCK FALSE
