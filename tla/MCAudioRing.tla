---- MODULE MCAudioRing ----
\* AudioRing instantiated for TLC.
EXTENDS AudioRing
====
