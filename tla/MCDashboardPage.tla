--------------------------- MODULE MCDashboardPage ---------------------------
EXTENDS DashboardPage
=============================================================================
