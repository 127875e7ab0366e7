SPECIFICATION LiveSpec
CONSTANT SameTask = FALSE
INVARIANT NoLostWakeup
PROPERTY WokenEventually
