SPECIFICATION Spec
CONSTANTS
  IntBytes = 3
  maxNanoSecondDigits = 2
  Numbers <- SomeNumbers
  FieldSizes = {2, 3, 4, 5}
  FieldBytes <- SomeFields
  Strings <- SomeStrings
  Keys <- SomeKeys
  Values <- SomeValues
  Rests <- SomeRests
  TimeTexts <- SomeTimeTexts
  Bodies <- SomeBodies
  Perms <- SomePerms
  Times <- SomeTimes
  Zones <- SomeZones
  OldTimes <- SomeOldTimes
  Settings <- SomeSettings
INVARIANT NumbersExact
INVARIANT HeadersKept
INVARIANT TimesExact
INVARIANT ModesKept
INVARIANT SettingsUsed
CHECK_DEADLOCK FALSE
