----------------------------- MODULE MCRotation -----------------------------
\* Three findings on file, one more to come whose upstream is quarantined;
\* half of those that take part are due a night.
EXTENDS Rotation

CONSTANTS f1, f2, f3, f4
=============================================================================
