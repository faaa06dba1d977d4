\* Two clients, each slot used twice, packets of one or two filters, more
\* filters than the trie has nodes for.
SPECIFICATION Spec
CONSTANTS
  Slots = {c1, c2}
  NoSlot = NoSlot
  Root = Root
  Nodes = {n1, n2}
  Levels <- MCLevels
  SystemLevels = {"$SYS"}
  Cut <- MCCut
  Hash <- MCHash
  HashSize = 2
  MaxChildren = 2
  MaxMatches = 2
  MaxFilters = 2
  MaxGen = 2
  Filters <- MCFilters
  SubQos = {0}
  Packets = {1, 2}
  TopicNames <- MCTopicNames
SYMMETRY Symmetry
INVARIANTS TypeOK ChildrenFindable SubCountExact ViewExact RoutedAsHeld
PROPERTY ImplementsSubscriptions
\* Once every slot is dormant, or has used up MaxGen, nothing is left to do.
CHECK_DEADLOCK FALSE
