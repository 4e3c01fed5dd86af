SPECIFICATION CertSpec
CONSTANT CertTargets = {t1, t2}
CHECK_DEADLOCK FALSE
INVARIANT CertReliesOnTarget
