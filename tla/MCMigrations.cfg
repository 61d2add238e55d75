SPECIFICATION MigrationSpec
CONSTANTS
  s1 = s1
  s2 = s2
  s3 = s3
  Servers = {s1, s2, s3}
  Embedded <- Rollout
  retryAttempts = 2
  MaxCrashes = 1
  DownCounts = {1, 2}
  NoTx = NoTx
INVARIANTS
  SchemaMatchesVersions
  MigrationsRunOnce
PROPERTY
  StartsMigrated
CHECK_DEADLOCK FALSE
