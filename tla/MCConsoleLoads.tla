---------------------------- MODULE MCConsoleLoads ----------------------------
EXTENDS ConsoleLoads
\* the oldest preview run is rendered, later ones are planned
MCRendered == {1}
MCPlanned == {2}
=============================================================================
