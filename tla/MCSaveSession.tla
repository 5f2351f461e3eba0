---- MODULE MCSaveSession ----
\* SaveSession instantiated for TLC: the images a run starts from and those a
\* player may copy over the file. Stamps 1-3 are saves made before the run.
EXTENDS SaveSession, TLC

\* Two adjacent full generations, the newer under `counter`.
FullPair(counter) ==
  [s \in {0, 1} |->
    IF s = counter % 2 THEN
      [integrity |-> "Ok", counter |-> counter, legacy |-> FALSE,
       box_counter |-> counter, blocks |-> 2, boxes |-> 2]
    ELSE
      [integrity |-> "Ok", counter |-> (counter - 1) % CounterModulus, legacy |-> FALSE,
       box_counter |-> (counter - 1) % CounterModulus, blocks |-> 1, boxes |-> 1]]

\* A five-sector head over its own stale boxes, newer than a full generation.
LegacyOverFull(counter) ==
  [FullPair(counter) EXCEPT ![counter % 2] =
    [@ EXCEPT !.legacy = TRUE, !.box_counter = (counter - 2) % CounterModulus, !.boxes = 3]]

\* Another player's save; 22 is half the range from a session that stored once.
Foreign(counter) ==
  [FullPair(counter) EXCEPT ![counter % 2] = [@ EXCEPT !.blocks = 3, !.boxes = 3]]

Erased ==
  [s \in {0, 1} |->
    [integrity |-> "Empty", counter |-> 0, legacy |-> FALSE, box_counter |-> -1,
     blocks |-> 0, boxes |-> 0]]

AllStamps == 1 .. 8
SaveImages ==
  {Erased, FullPair(5), LegacyOverFull(4), FullPair(0), LegacyOverFull(CounterModulus - 1)}
ForeignSaves ==
  {Foreign(3), Foreign(5), Foreign(6), Foreign(22), Foreign(CounterModulus - 2), Erased}
Symmetry == Permutations(Procs)
====
