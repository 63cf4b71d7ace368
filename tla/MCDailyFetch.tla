----------------------------- MODULE MCDailyFetch -----------------------------
\* Instances of DailyFetch for TLC.
EXTENDS DailyFetch
=============================================================================
