\* init and two more slots, fair scheduling; after init's panic the system may stop.
CONSTANT NPROC = 3
SPECIFICATION FairSpec
INVARIANT ParentAttends
 
CHECK_DEADLOCK FALSE
