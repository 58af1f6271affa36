SPECIFICATION Spec
CONSTANTS
    Rdp = {"rdp"}
    Budget = 2
    Posts = 1
PROPERTIES
    Settles
    
    OneReading
CHECK_DEADLOCK FALSE
