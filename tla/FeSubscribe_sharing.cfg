SPECIFICATION Spec
CONSTANTS
  NumFe = 3
  FeInfo <- SharedFe
  Lnb = {1, 2}
  LnbInfo <- SharedLnb
  RfPath <- SharedPaths
  PathInfo <- SharedPathInfo
  Dish = {0, 1}
  Positioner = {0}
  h5 = h5
  v5 = v5
  h9 = h9
  c1 = c1
  pk = pk
  news = news
  film = film
  sport = sport
  Mux = {h5, h9}
  MuxInfo <- AllMuxInfo
  NoMux = NoMux
  Service = {news}
  ServiceMux <- OnlyNews
  NoService = NoService
  Pos = {1, 3}
  Tolerance = 1
  Proc = {p1}
  SubId = {a, b, c}
  p1 = p1
  p2 = p2
  p3 = p3
  c = c
  a = a
  b = b
  MuxOptions <- BothOptions
  BandOptions <- BothOptions
  BandRequest <- SharedBands
  LnbRequest <- ControlLnb1
  MotorTarget <- Unknown
  MaxInstances = 2
INVARIANTS TypeOK RecordWhole LnbReservationUnique UniqueSubscription NoConflict ServiceOnTunedMux NoDuplicateTuning
PROPERTIES SharersKeepTuning
SYMMETRY Symmetry
CHECK_DEADLOCK FALSE
