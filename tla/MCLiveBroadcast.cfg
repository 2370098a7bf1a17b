SPECIFICATION Spec
CONSTANTS
  MaxTasks = 2
  Nil = Nil
INVARIANTS
  StatusFits
  ReportTellsAction

  
