SPECIFICATION FairSpec
CONSTANTS
  Base = {b1, b2}
  Tags = {none, zone}
  NoTags = none
  NoKey = NoKey
  Id = {1, 2}
PROPERTY MigrationSucceeds
