SPECIFICATION Spec
CONSTANTS
  Subcommands <- MCSubcommands
  HasDevice = TRUE
  Lines <- MCLines
  SplitLong <- MCLong
  SplitShort <- MCShort
  Dash <- MCDash
  Digits = {"5"}
  Unsigned = {"5"}
PROPERTY
  EndsAsMeant
CHECK_DEADLOCK FALSE
