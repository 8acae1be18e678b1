SPECIFICATION FairSpec
CONSTANTS
  lib = lib  core = core  public = public  private = private
  Plugins = {public, private}
  Lib = lib
  Core = core
  Last = 3
  Pin <- MCPin
  Catalog <- MCCatalog
  Runs <- MCRuns
  Required = {public}
  Private = {private}
  Manual = {}
  DefaultOn = {public, private}
  MaxEdits = 2
  MaxFaults = 2
INVARIANT MenuRunsInstalled AvailableIsTrue
PROPERTY SuccessIsComplete UpdateArrives
