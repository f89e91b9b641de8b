--------------------------- MODULE MCSessionQueue ---------------------------
EXTENDS SessionQueue
CONSTANTS s1, s2, s3
MCSessions == {s1, s2, s3}
====
