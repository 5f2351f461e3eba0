---- MODULE MCSaveFile ----
\* SaveFile instantiated for TLC.
EXTENDS SaveFile
====
