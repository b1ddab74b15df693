SPECIFICATION Spec
CONSTANTS
  t1 = t1  t2 = t2  q1 = q1  q2 = q2
  Tab = {t1, t2}
  Request = {q1, q2}
  TabOf <- OnePageAsks
  Token = {k1, k2, k3}
  MaxSignIns = 1
  None = None  Asked = Asked  Absent = Absent
INVARIANTS TypeOK 
PROPERTIES ReplaysAreExplained RequestsSettle DoorIsShown
