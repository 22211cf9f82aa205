SPECIFICATION Spec
CONSTANT Calls = {c1, c2}
INVARIANT TypeOK NoOrphanedCall NoLeakedEntry DeadIsDrained OwnAnswer
PROPERTY DeathReleasesCalls
