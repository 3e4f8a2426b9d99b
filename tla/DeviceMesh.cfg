SPECIFICATION FairSpec
CONSTANTS
  s1 = s1
  s2 = s2
  s3 = s3
  laptop = laptop
  phone = phone
  p1 = p1
  p2 = p2
  Sockets = {s1, s2, s3}
  Sessions = {laptop, phone}
  Prompts = {p1, p2}
  None = None
  SessionOf <- TabsOf
INVARIANTS TypeOK NoGhostSession AnnouncementsBalance
 
CHECK_DEADLOCK FALSE
