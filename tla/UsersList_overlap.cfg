SPECIFICATION FairSpec
CONSTANTS
  Users = {ann, bob, eve}
  Listed = {ann, bob}
  Searches = {{ann}, {bob, eve}}
  MaxHUDs = 4
INVARIANTS
  TypeOK
  RowsAreOfArray
  ListIsExact
  IndicatorsAreAccounted
PROPERTIES
  IndicatorsGo
