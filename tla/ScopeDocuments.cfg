SPECIFICATION DocumentsSpec
CONSTANTS
  ProjectId = {"p1"}
  Format = {"pdf", "docx"}
  Zone = {0, 1}
  Client = {c1, c2}
  MaxDocument = 3
  MaxMinute = 1
  Nothing = Nothing
SYMMETRY Symmetry
INVARIANT DocumentsKept
CHECK_DEADLOCK FALSE
