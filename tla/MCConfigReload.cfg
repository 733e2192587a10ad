SPECIFICATION ReloadSpec
CONSTANTS
    Config = {small, large}
    Broken = Broken
    Operator = {o1, o2}
    Pushed <- PushedInOrder
    LastVersion = 3

    
PROPERTY EventuallySettled
