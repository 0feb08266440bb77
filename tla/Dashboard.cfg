SPECIFICATION IndicatorsSpec
CONSTANTS
  Hosts = {h1}
  Strict = {}
  Lenient = {"transceiver"}
  TypeOf <- MCTypeOf
  Viewers = {}
  MaxCount = 1
  MaxStored = 2
  Blank = Blank
  Never = Never
INVARIANT ErrorsShown
CHECK_DEADLOCK FALSE
