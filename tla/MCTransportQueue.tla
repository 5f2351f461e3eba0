---- MODULE MCTransportQueue ----
\* TransportQueue instantiated for TLC.
EXTENDS TransportQueue
====
