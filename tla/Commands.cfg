\* Every command with every profile; the name changes its meaning once.
CONSTANTS
  Gateway = Gateway
  BitbucketHost = BitbucketHost
  Blank = Blank
  Relative = Relative
  Malformed = Malformed
  NoThing = NoThing
  site = site
  elsewhere = elsewhere
  t1 = t1
  t2 = t2
  w1 = w1
  w2 = w2
  EmptyPart = EmptyPart
  DotGit = DotGit
  NoTarget = NoTarget
  Origin <- Origins
  Thing <- Things
  Texts <- TextChoices
  BitbucketHosts <- Hosts
  Checkouts <- CheckoutChoices
  MaxChanges = 1
  IssueKeys = {"K-1"}
  ProjectKeys = {"KEY"}
  Digits = {"7"}
  Slugs <- SlugWords
  SpaceKeys <- SlugWords
  Words <- Segments
  SiteHosts <- WebHosts
  Paths <- PathChoices
SPECIFICATION Spec
INVARIANTS RightTarget BrowsesSame ExitTells RefusedUnsent ActsOnNamed TrustedTargets
CHECK_DEADLOCK FALSE
