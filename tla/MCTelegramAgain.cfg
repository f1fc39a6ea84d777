SPECIFICATION Spec
CONSTANTS
 MaxRuns = 2
 MaxFaults = 0
 MaxKills = 0
 MaxEvents = 0
 MaxRelease = 1
INVARIANT TelegramRerun
CHECK_DEADLOCK FALSE
