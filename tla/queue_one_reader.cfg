SPECIFICATION QueueFairSpec
CONSTANTS
    main = main
    net = net
    Readers <- OneReader
    MaxPush = 5
INVARIANT
    NoDanglingNode
PROPERTIES
    ImplementsFifo
    EveryPushTaken
