\* Six kinds of tests in any order, servers that die, restarts on request.
CONSTANTS
    NumServers = 2
    Slaves = {2}
    Template <- MCTemplate
    Tests <- MCTests
    Extra = "e"
    None = None
    MaxDeaths = 2
SPECIFICATION Spec
INVARIANTS
    QueueSound
PROPERTIES
    StartsRight
    HonestVerdict
    Restarted
    TestEnds
