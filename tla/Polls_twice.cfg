CONSTANTS
    Poll = {q1}
    User = {u1}
    Option = {yes, no}
    MaxVotes = 2
SPECIFICATION Spec
INVARIANT OneBallotEach
CHECK_DEADLOCK FALSE
