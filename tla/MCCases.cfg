SPECIFICATION Spec
CONSTANT BusyTicks = 1
 
PROPERTY CasesFinish
CHECK_DEADLOCK FALSE
