SPECIFICATION FairSpec
CONSTANTS
  r1 = r1
  r2 = r2
  b1 = b1
  p1 = p1
  p2 = p2
  Rec = {r1, b1}
  Bad = {b1}
  Part = {p1, p2}
  PartOf <- MCPartOf
  MaxSeg = 6
  Faults = {"read", "quarantine", "stage", "commit", "commitsync",
            "promote", "delete", "close", "closesync", "crash", "power", "damage", "orphan"}
  MaxMishaps = 3

PROPERTIES EventuallyPublished ImplementsLedger
