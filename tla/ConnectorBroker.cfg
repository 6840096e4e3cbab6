CONSTANTS
    Calls = {c1, c2}
    Proposals = {p1}
    Writes = {send, delete, redirected}
    Reads = {search}
    Redirects = {redirected}
    NoProposal = NoProposal
    Ttl = 0
    MaxTime = 1
SPECIFICATION FairSpec
INVARIANTS TypeOK ApprovedOnce HonestAnswers
PROPERTIES DeadlineKept AnswersSettle
CHECK_DEADLOCK FALSE
