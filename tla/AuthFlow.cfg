\* Up to three submissions of each kind: a rejected answer, one sent too early
\* and one sent again all fit in.
CONSTANT MAX_SUBMIT = 3
SPECIFICATION FairSpec
INVARIANTS TypeOK AuthorizedIsGranted UsedOnce CodePromptHasLiveHash
PROPERTIES SettlesForUser CancelEndsRun AuthorizedGetsReady
\* Run returns, after which only submissions happen until their bound.
CHECK_DEADLOCK FALSE
