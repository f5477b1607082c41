SPECIFICATION FairSpec
INVARIANTS TypeOK HealthSettles
PROPERTIES OutageIsShown ComesBack
