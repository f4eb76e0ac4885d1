SPECIFICATION DashboardSpec
CONSTANTS
  Accounts = {ada, bob}
  Admins = {ada}
  Nobody = Nobody
  MaxEvents = 3
INVARIANTS ListsLeaveWithAccount OrdersInOwnName SettledPageIsCurrent
\* a page at rest waits for its user
CHECK_DEADLOCK FALSE
