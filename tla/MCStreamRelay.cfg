SPECIFICATION Brief
CONSTANTS
    Index = {0, 1}
    NoCall = NoCall
    Dialects = {"chat", "responses", "commandcode"}
    Coalescing = {TRUE, FALSE}
    Timeout = 1
    MaxIdle = 2
    MaxEvents = 3
    Horizon = 3
INVARIANTS
    
    WholeAnswer
    StallNoticed
PROPERTIES
    OnlySilenceIsPunished
    WatchdogEnds
