SPECIFICATION Spec
CONSTANTS
  NumFe = 4
  FeInfo <- UnicableFe
  Lnb = {3}
  LnbInfo <- UnicableLnb
  RfPath <- UnicablePaths
  PathInfo <- UnicablePathInfo
  Dish = {1}
  Positioner = {}
  h5 = h5
  v5 = v5
  h9 = h9
  c1 = c1
  pk = pk
  news = news
  film = film
  sport = sport
  Mux = {h5, v5, c1, pk}
  MuxInfo <- AllMuxInfo
  NoMux = NoMux
  Service = {}
  ServiceMux <- NoServices
  NoService = NoService
  Pos = {1, 3}
  Tolerance = 1
  Proc = {p1, p2}
  SubId = {a, b, c}
  p1 = p1
  p2 = p2
  p3 = p3
  c = c
  a = a
  b = b
  MuxOptions <- UnicableOptions
  BandOptions = {}
  BandRequest = {}
  LnbRequest <- ControlLnb3
  MotorTarget = {}
  MaxInstances = 1
INVARIANTS UnicableDistinct AdapterShared
SYMMETRY Symmetry
CHECK_DEADLOCK FALSE
