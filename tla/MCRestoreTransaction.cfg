CONSTANTS
  Image = {s1, s2}
  Rom = {r1, r2}
  Header = {"h1"}
  HeaderOf <- MCHeaderOf
  WriteEnabled = TRUE
  Cart = {c1, c2}
  NoRom = NoRom
  Prepared <- WellFormedOnly
  MaxFaults = 0
  Held = {"FINAL_SAVE", "PROGRAM"}
SPECIFICATION MCSpec
SYMMETRY Alike
PROPERTIES RightCartridge CommittedOnly PromiseKept
