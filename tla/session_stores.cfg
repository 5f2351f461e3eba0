SPECIFICATION Spec
CONSTANTS
  CounterModulus = 32
  Procs = {a, b}
  NoProc = NoProc
  Stamps <- AllStamps
  InitialImages <- SaveImages
  ForeignImages <- ForeignSaves
  FirstStamp = 4
  LastStamp = 5
  MaxDamage = 1
SYMMETRY Symmetry
INVARIANTS StoreSeesTheDisk
PROPERTIES NoUnseenProgressBuried StoreComesBack NoNewerProgressBuried EveryOverwriteConfirmed LedgerSpec
