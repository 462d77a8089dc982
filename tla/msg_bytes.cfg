SPECIFICATION Spec
CONSTANTS
  Eids = {11}
  Durations = {1000, 32767}
  Gains = {0, 64, 127, 128, 255}
  Levels = {0, 64, 127}
  Times = {127, 128}
  Periods = {149, 383, 10001}
  Magnitudes = {0, 1, 128, 255}
  RampEnds = {128, 255, 127}
  Coefficients = {0, 50, 51, 100}
INVARIANTS
  TypeOK
  ValidMessages
  LouderNotSofter
