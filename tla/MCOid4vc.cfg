SPECIFICATION Oid4vcSpec
CONSTANT Setting <- SettingOf
CHECK_DEADLOCK FALSE
INVARIANT Oid4vcInv
