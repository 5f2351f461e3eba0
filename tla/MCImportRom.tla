---- MODULE MCImportRom ----
\* ImportRom instantiated for TLC: a destination two levels deep; with one
\* upset, every number of descriptors from too few to enough for all pins; with
\* two, both during the take-back, just enough to take the innermost level back.
EXTENDS ImportRom
MCLevelNames == <<"a", "b">>
MCHosts ==
  [slots : 2..4, pin_limit : 0..2, upsets : {1}, late : {FALSE}]
    \union [slots : {5}, pin_limit : {2}, upsets : {1}, late : {FALSE}]
    \union [slots : {3}, pin_limit : {1}, upsets : {2}, late : {TRUE}]
====
