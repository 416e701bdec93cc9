SPECIFICATION Spec
CONSTANTS
    Node <- Three
    Seeds <- Seed1
    Scenarios <- WhatGoesWrong
INVARIANT MembersOK
PROPERTIES NothingIsTakenBack CrashIsNoticed
