----------------------------- MODULE CcipShellMC -----------------------------
EXTENDS CcipShell

\* Three buckets with a gap where the second and the last do not meet, as
\* between 700 and 800 in the shell.
MCLower == <<0, 2, 4>>
MCUpper == <<2, 3, 5>>
=============================================================================
