SPECIFICATION Spec
CONSTANTS
  Jobs = {j1, j2}
  Mocks = {m1, m2}
  NoMock = NoMock
  Names = {cppcheck, gcc}
  Loose = {gcc}
  Upgrades = 1
   
PROPERTY StampsStay
SYMMETRY Alike
