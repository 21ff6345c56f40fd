\* The storage services beside every server that is started.
CONSTANTS
    NumServers = 2
    Slaves = {2}
    Template <- MCTemplate
    Tests <- MCTests
    Extra = "e"
    None = None
    MaxDeaths = 2
SPECIFICATION Spec
INVARIANTS
    ServicesUp
