SPECIFICATION Spec
CONSTANTS
  Rooms = {r1}
  Filters = {f1, f2}
  MaxRetries = 2
  Nil = Nil
  Me = me
  Others = {o1}
  MaxAsked = 1
  MaxPolls = 1
  Nobody = Nobody

  
  
PROPERTIES
  
  SidebarSettles
