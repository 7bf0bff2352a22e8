------------------------ MODULE MCAIInstructionQueue ------------------------
EXTENDS AIInstructionQueue

CONSTANTS s1, s2, s3, w1, w2

MCSenders == {s1, s2, s3}
MCWorkers == {w1, w2}
=============================================================================
