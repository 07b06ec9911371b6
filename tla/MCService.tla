----------------------------- MODULE MCService -----------------------------
\* Received, Saved and one runner that stands for the others.
EXTENDS Service

CONSTANTS received, saved, other, t1, t2

=============================================================================
