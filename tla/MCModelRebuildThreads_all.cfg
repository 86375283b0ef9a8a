SPECIFICATION FairSpec
CONSTANTS
    t1 = t1
    t2 = t2
    t3 = t3
    Threads = {t1, t2}
    CallKinds = {"use", "rebuild", "force"}
    InitMissing = {"nothing", "own", "nested"}
INVARIANT DeletedAttributeIsOwed
INVARIANT QuietClassIsTogether
PROPERTY CallsEnd
