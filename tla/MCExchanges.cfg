SPECIFICATION RecordsSpec
CONSTANT Setting <- SettingOf
CHECK_DEADLOCK FALSE
INVARIANTS ExchangeInv CloudWalletInv
PROPERTY SchemaIdKept
