SPECIFICATION FairSpec
CONSTANTS
    d1 = d1  d2 = d2  u1 = u1  p1 = p1  p2 = p2
    Devices = {d1, d2}
    Mailboxes = {u1}
    Scenarios <- EnrolScenarios
    MaxReqs = 5
    MaxPending = 2
    EdgeCapacity = 1
    MaxAttempts = 2
    ChallengeTtl = 2
    AuthTtl = 1
    WindowSize = 2
    FirstTick = 2
    MaxRevoking = 1
CHECK_DEADLOCK FALSE
INVARIANTS CertificateIsEarned WhatIsToldIsHeld
PROPERTIES EndsAreFinal RevocationIsPublished
