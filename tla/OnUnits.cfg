CONSTANTS
  Conds = {"ERROR", "FINISH"}
  Finish = "FINISH"
  Programs <- Kinds
  OnInit = 2
SPECIFICATION Spec
INVARIANTS
  UnitsScoped
  
PROPERTIES
  EnclosingUnitsKept
