---- MODULE MCSaveStore ----
\* SaveStore instantiated for TLC.
EXTENDS SaveStore
====
