SPECIFICATION FairInstallSpec
CONSTANTS
  t1 = t1
  t2 = t2
  noTeam = noTeam
  Teams = {t1, t2}
  Identities <- MCIdentities
  Groups = {0, 1, 2}
  Wildcards = {0}
  AppProfiles <- MCAppProfiles
  ExtProfiles <- MCExtProfiles
  None = None
INVARIANTS InstallInv SharesEndpoint
PROPERTY RequestEnds
