CONSTANTS
  Card = {c1, c2}
  NoCard = NoCard
  IdLimit = 3
SPECIFICATION FairSpec
INVARIANTS MediaAgrees NamedMediaOnly
PROPERTY PresenceFollowed
