SPECIFICATION Spec
CONSTANTS
  r1 = r1
  r2 = r2
  b1 = b1
  p1 = p1
  p2 = p2
  Rec = {r1, r2}
  Bad = {}
  Part = {p1, p2}
  PartOf <- MCPartOf
  MaxSeg = 6
  Faults = {"create", "read", "quarantine", "stage", "commit",
            "commitsync", "promote", "delete", "close", "closesync",
            "crash", "power", "damage", "upgrade", "orphan"}
  MaxMishaps = 3
INVARIANTS IInv NoLoss NoDuplicate
PROPERTIES CommittedFilesStay
