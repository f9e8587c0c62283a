\* One Add and one Download now, of any of three URLs, with the user in Review.
SPECIFICATION IntakeSpec
CONSTANTS
  MaxLinks = 3
  MaxPackages = 2
  MaxGrab = 2
  PosBound = 5
  Priorities = {}
  MaxActives = {1}
  Delegates = {FALSE}
  Toggles = {TRUE}
  MoveDirs = {}
  Crawlers = {"add"}
  Directs = {"now"}
  ArchiveUrls = {"item"}
  FileUrls = {"file"}
  PageUrls = {"page"}
  HttpUrls = {"item", "file", "page"}
  MaxStatus = 2
  HostOf <- MCHostOf
INVARIANTS
  SpinnerHonest
  FallbackOnlyAfterRun
  DownloadNowNotParked
PROPERTIES
  ReviewKept
  SpinnerStops
