--------------------------- MODULE MCTerminalCommit ---------------------------
\* Two boundary finals and one with facts compete for two turns.
EXTENDS TerminalCommit
=============================================================================
