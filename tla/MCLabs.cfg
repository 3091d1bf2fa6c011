SPECIFICATION Spec
CONSTANT Run <- AllLabs
 
 
PROPERTY AllFinish
CHECK_DEADLOCK FALSE
