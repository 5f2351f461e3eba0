---- MODULE SaveResolve ----
(***************************************************************************)
(* The cross-slot verdict of the save store: which of the two slots of a   *)
(* flash image a load adopts, and which slot lends its box storage.        *)
(* Pure operators over slot scans (survey.rs `SlotScan`), shared by        *)
(* SaveStore (scans computed from sectors) and SaveSession (scans stated). *)
(***************************************************************************)
EXTENDS Integers

CONSTANT CounterModulus      \* 2^32 in the code: save counters are u32

\* Even, so that the slot parity of a counter survives its wrap.
ASSUME CounterModulusAssumption ==
  /\ CounterModulus \in Nat
  /\ CounterModulus >= 4
  /\ CounterModulus % 2 = 0

Counter == 0 .. CounterModulus - 1
NoCounter == -1              \* Option::None for a counter
NoSlot == -1                 \* Option::None for a slot index

WrappingAdd(c, n) ==
  IF c + n < CounterModulus THEN c + n ELSE c + n - CounterModulus

WrappingSub(a, b) == IF b <= a THEN a - b ELSE a - b + CounterModulus

\* Serial-number order: `candidate` is strictly ahead of `baseline` by less
\* than half the range; equal and antipodal counters are not ordered.
CounterIsAhead(baseline, candidate) ==
  /\ candidate # baseline
  /\ 2 * WrappingSub(candidate, baseline) < CounterModulus

OlderGenerationPrecedes(older, newer) == CounterIsAhead(older, newer)

\* Mutant: plain order, blind to the wrap.
SecondCounterIsNewerNoWrap(first, second) == first < second

\* Adjacent generations only: the one wrap it knows is the last counter to 0.
SecondCounterIsNewer(first, second) ==
  \/ first = CounterModulus - 1 /\ second = 0
  \/ /\ ~(first = 0 /\ second = CounterModulus - 1)
     /\ first < second

PhysicalSlotForCounter(counter) == counter % 2

----------------------------------------------------------------------------
\* A slot scan: integrity "Empty" | "Ok" | "Error"; the slot's counter; whether
\* an Ok verdict came from a five-sector head; the generation of a complete
\* storage set; the counter most of its valid sectors carry.
SlotScan == [integrity : {"Empty", "Ok", "Error"}, counter : Counter,
             legacy : BOOLEAN, storage_counter : Counter \union {NoCounter},
             majority_counter : Counter \union {NoCounter}]

\* Mutant: the donor is the legacy head's own slot, whatever its age.
NewestStorageSetFirst(left, right) ==
  IF left # NoCounter THEN 0 ELSE IF right # NoCounter THEN 1 ELSE NoSlot

NewestStorageSet(left, right) ==
  IF right = NoCounter THEN IF left = NoCounter THEN NoSlot ELSE 0
  ELSE IF left = NoCounter \/ OlderGenerationPrecedes(left, right) THEN 1
  ELSE 0

StorageDonor(adopted_is_legacy, scan) ==
  IF adopted_is_legacy
  THEN NewestStorageSet(scan[0].storage_counter, scan[1].storage_counter)
  ELSE NoSlot

\* The counter an Ok full slot's storage stands under in a mixed pair.
FullStorageCounter(full) ==
  IF full.storage_counter # NoCounter THEN full.storage_counter
  ELSE IF full.majority_counter # NoCounter THEN full.majority_counter
  ELSE full.counter

Resolution(status, counter, donor, legacy) ==
  [status |-> status, counter |-> counter, storage_from_slot |-> donor,
   legacy |-> legacy]

ResolveBothOk(scan) ==
  IF scan[0].legacy = scan[1].legacy
  THEN Resolution("Ok",
         IF SecondCounterIsNewer(scan[0].counter, scan[1].counter)
         THEN scan[1].counter ELSE scan[0].counter,
         StorageDonor(scan[0].legacy, scan), scan[0].legacy)
  ELSE LET legacy == IF scan[0].legacy THEN 0 ELSE 1
           full == 1 - legacy
           offered == [s \in {0, 1} |->
             IF s = full THEN FullStorageCounter(scan[s])
             ELSE scan[s].storage_counter]
       IN IF SecondCounterIsNewer(scan[full].counter, scan[legacy].counter)
          THEN Resolution("Ok", scan[legacy].counter,
                 NewestStorageSet(offered[0], offered[1]), TRUE)
          ELSE Resolution("Ok", scan[full].counter, NoSlot, FALSE)

Resolve(scan) ==
  LET intact == {s \in {0, 1} : scan[s].integrity = "Ok"}
      only == CHOOSE s \in intact : TRUE
  IN IF intact = {0, 1} THEN ResolveBothOk(scan)
     ELSE IF intact # {}
     THEN Resolution(IF scan[1 - only].integrity = "Error"
                     THEN "Error" ELSE "Ok",
                     scan[only].counter,
                     StorageDonor(scan[only].legacy, scan),
                     scan[only].legacy)
     ELSE Resolution(IF \A s \in {0, 1} : scan[s].integrity = "Empty"
                     THEN "Empty" ELSE "Corrupt",
                     0, NoSlot, FALSE)

MenuShowsContinue(status) == status \in {"Ok", "Error"}
====
