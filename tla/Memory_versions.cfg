\* Two processes, one subject, a group and a direct conversation.
SPECIFICATION Spec
CONSTANTS
  s1 = s1
  grp = grp
  dm = dm
  p1 = p1
  p2 = p2
  persona = persona
  Proc = {p1, p2}
  Editor = {p1, p2}
  Sweeper = {p1, p2}
  gone = gone
  Chat = {grp, gone}
  Reachable = {grp}
  NoChat = None
  Interval = 2
  Day = 3
  QuietStart = 2
  QuietEnd = 0
  MaxBeats = 5
  Subject = {s1}
  Conversation = {grp, dm}
  Direct = {dm}
  Members <- EveryoneTalks
  Global = Global
  None = None
  NoBlock = None
  Block = {persona}
  ToolBudget = 1
  Budgets = {2}
  MaxNotes = 3
  MaxJobs = 4
  MaxTime = 2
CONSTRAINT LooseAlone
SYMMETRY Symmetric
INVARIANTS OneVersion LinksAgree NotesAreKept CheckInsSpaced
PROPERTY RevokedIsFrozen
CHECK_DEADLOCK FALSE
