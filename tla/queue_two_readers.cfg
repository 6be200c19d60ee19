SPECIFICATION QueueSpec
CONSTANTS
    main = main
    net = net
    Readers <- TwoReaders
    MaxPush = 3
INVARIANTS
    TakenOnce
