SPECIFICATION Spec
CONSTANTS
    main = main
    sweep = sweep
    capital = capital
    Tasks = {main, sweep, capital}
    Placer = main
    Daily = capital
    MaxRetry = 2
    Threshold = 3
    Recovery = 2
    MaxRestarts = 1
    Full = 3
    Cost = 2
    Ttl = 5
    Missing = Missing
INVARIANT
    BurstBounded
    OpenShields
PROPERTY
    OpenLasts
    RecoveryCloses
