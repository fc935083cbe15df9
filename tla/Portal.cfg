SPECIFICATION Spec
CONSTANTS
  a = a  b = b  h1 = h1  h2 = h2  h3 = h3  alice = alice  bob = bob  k1 = k1  f1 = f1
  p1 = p1  p2 = p2  govpay = govpay  lanka = lanka  i1 = i1  i2 = i2  v1 = v1  v2 = v2  o1 = o1  o2 = o2
  cargo1 = cargo1  cargo2 = cargo2  cargo3 = cargo3  row1 = row1  row2 = row2  cont1 = cont1  cont2 = cont2
  tea = tea  soil = soil  permit = permit  report = report  video = video
  hs1 = hs1  hs2 = hs2  hs3 = hs3  board = board  customs = customs  npqs = npqs
  crane = crane  scale = scale  page1 = page1  page2 = page2  NoService = NoService  NoContent = NoContent
  NoForm = NoForm  NoContainer = NoContainer  NotANumber = NotANumber
  NoHandle = NoHandle  NoCompany = NoCompany  NoUser = NoUser  NoCaller = NoCaller  NoFile = NoFile
  NoDraft = NoDraft  NoMethod = NoMethod  NoIdentity = NoIdentity  NoInput = NoInput
  Missing = Missing  Nothing = Nothing  Object = Object  Given = Given
  Cases = {1}
  Handles = {h1, h2, h3}
  Companies = {a, b}
  Subjects = {alice, bob}
  UserIDs = {"r1", "r2"}
  Requests = {"r1", "r2"}
  Flows = {"certificate"}
  ExportFlow = "export"
  StartableBy <- MCStartable
  TokenRoles <- MCTokenRoles
  MaxEdits = 1
  MaxMoves = 1
  MaxFlows = 2
  MaxSelections = 1
  MaxFailures = 1
  Users = {alice, bob}
  Clients = {k1}
  Files = {f1}
  UserTypes = {f1}
  ClientTypes <- MCClientTypes
  Tasks = {"t1"}
  CaseOf <- MCCaseOf
  Steps = 1
  Rules <- MCRules
  DraftCommand <- MCDraft
  ReadRoles <- MCReadRoles
  Claimable = TRUE
  OUOf <- MCToken
  HeldRoles <- MCHeldRoles
  Calls = {"r1", "r2"}
  MaxCalls = 3
  MaxReplacements = 1
  ClientFlows <- MCClientFlows
  ReviewClient = k1
  ReviewFlow = "review"
  AgencyOU = h2
  OwnerRole = "agency"
  Officers = {o1, o2}
  OfficerOU <- MCOfficerOU
  OfficerRoles <- MCOfficerRoles
  MaxRounds = 3
  MaxLosses = 2
  AdminRequests = {"x", "y"}
  MaxNodeSteps = 2
  MaxAdminFailures = 1
  Payees = {p1, p2}
  Methods = {govpay, lanka}
  Identities = {i1, i2}
  FirstMapping <- MCMapping
  Inputs = {15, 20, 90}
  FeeAmount <- MCFee
  MaxAmount = 50
  MaxPaySteps = 2
  MaxSessions = 2
  MaxCrashes = 1
  MaxRemaps = 1
  SlpaCalls = {"v", "w"}
  MaxEvents = 3
  MaxWaitSteps = 2
  MaxSlpaFailures = 1
  Values = {v1, v2}
  MaxRows = 3
  Elements = {1, 2}
  Fields = {"a", "b"}
  Generators = {"x", "y"}
  MaxNumber = 8
  MaxRefIdFailures = 1
  Texts <- MCTexts
  Declarations = {cargo1, cargo2, cargo3}
  Mappable = {cargo1, cargo2}
  Valid = {cargo1}
  MaxAttempts = 3
  MaxMessages = 4
  MaxEdgeLosses = 1
  OrderRows <- MCOrderRows
  RealContainers = {cont1, cont2}
  MaxContainers = 2
  MaxOrders = 2
  MaxCmsLosses = 1
  Services = {crane, scale}
  SundryForms <- MCSundryForms
  ParentInvoice = 1
  MaxSundries = 2
  Contents = {page1, page2}
  MaxDocumentRounds = 2
  MaxDocumentFailures = 2
  Certificates <- MCCertificates
  Items = {tea, soil}
  Describable = {tea}
  Papers = {permit, report, video}
  HubTypes = {permit, report, video}
  SizeOf <- MCSize
  MaxAttachment = 3
  MaxCertificate = 4
  MaxEnvelopes = 3
  MaxHubCalls = 4
  MaxResets = 1
  HSCodes = {hs1, hs2, hs3}
  AgencyFlows = {board, customs, npqs}
  Mappings <- MCMappings
  Selections <- MCSelections
  Counts = {0, 1, 2, 3, NotANumber}
  MaxContainersPerDeclaration = 2
  MaxRaised = 1
  SchemaNodes = {1, 2, 3, 4}
  MaxDepth = 3
CHECK_DEADLOCK FALSE
INVARIANTS
  PortalType
  CommittedWhole ColumnsMatchParties SameAccess
  FilesStayInTheirCase StoredFilesWereTheirs
  OneSideWaits
  ForceParkedIsClosed OpenTasksAreAwaited
  OneRegistrationPerSubmission
  RecordsMatchOutside
  SplitsAreWhole
  AnsweredWasApplied
  ReadOnlyIsKept
  FilledAsAsked
PROPERTIES
  ClaimsAreHandedOver
  AnswersWhatWasAsked
  PaymentCompletesItsStep
