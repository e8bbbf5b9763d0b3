SPECIFICATION Spec
CONSTANTS
  Roles = {editor}
  Patterns = {file}
  file = file
  Questions <- BothQuestions
  Contexts = {tenant}
  Admins = {h1}
  MaxTime = 1
  Windows <- ShortWindows
  MaxCommits = 2
  None = None
INVARIANTS
  TypeOK
  AnswerIsOfOneState
  EnduringBlockersDeny
  DecisionIsEffective
  QueriesAgree
