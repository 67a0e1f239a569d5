CONSTANTS
  a1 = a1
  a2 = a2
  t1 = t1
  t2 = t2
  m1 = m1
  Uploads <- MCUploads
  Units <- MCUnits
  Local <- MCLocal
  Merges = {m1}
  MaxCrashes = 1
SPECIFICATION FairSpec
PROPERTIES StartsAgain
CHECK_DEADLOCK FALSE
