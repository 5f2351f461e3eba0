---- MODULE MCPlaybackClock ----
\* PlaybackClock instantiated for TLC.
EXTENDS PlaybackClock
====
