SPECIFICATION FairSpec
CONSTANTS
  star = star
  cell = cell
  Wans = {star, cell}
  NoWan = NoWan
  WgIface = WgIface
  DefaultMaster = star
  CellWan = cell
  Rank <- McRank
  Hold = 2
  Dwell = 2
  RttMargin = 2
  LossMargin = 2
  LocalViews <- McLocalViews
  RelayViews <- McRelayViews
  Qualities <- McQualities
  Overlays <- McOverlays
  FetchEvery = 2
  Faults = {"nft_list"}
  MaxEvents = 2
PROPERTY DropsConverge
