------------------------------ MODULE MC_Screens ------------------------------
(***************************************************************************)
(* Every screen of the tables, with two subjects and two rows that are     *)
(* alike, and which screens need their person to wait.                     *)
(***************************************************************************)
EXTENDS StaffScreens, StockroomScreens, WorkScreens, DesignScreens,
        ConsoleScreens, OrderScreens, CustomerScreens, Screens
CONSTANTS week1, week2, row1, row2

StaffPanels ==
  [payroll |-> PayrollPanel, liveSessions |-> LiveSessionsPanel, myDay |->
   MyDayPanel, floor |-> FloorPanel, timesheet |-> TimesheetPanel, month |->
   MonthPanel, roster |-> RosterPanel, documents |-> DocumentsPanel,
   staffDetail |-> StaffDetailPanel, performance |-> PerformancePanel,
   teamTasks |-> TeamTasksPanel, access |-> AccessPanel, myDetails |->
   MyDetailsPanel]
StockroomPanels ==
  [items |-> ItemsPanel, ledger |-> LedgerPanel, itemPlaces |->
   ItemPlacesPanel, groupItems |-> GroupItemsPanel, locations |->
   LocationsPanel, putAway |-> PutAwayPanel, move |-> MovePanel, count |->
   CountPanel, problems |-> ProblemsPanel, rack |-> RackPanel, spot |->
   SpotPanel, find |-> FindPanel, scan |-> ScanPanel, recipes |->
   RecipesPanel, purchases |-> PurchasesPanel, catalog |-> CatalogPanel,
   report |-> ReportPanel, notShelved |-> NotShelvedPanel, production |->
   ProductionPanel, inHouse |-> InHousePanel, finance |-> FinancePanelTable]
WorkPanels ==
  [job |-> JobPanel, assign |-> AssignPanel, split |-> SplitPanel, alteration
   |-> AlterationPanel, alterationList |-> AlterationListPanel, request |->
   RequestPanel]
DesignPanels ==
  [library |-> LibraryPanel, design |-> DesignPanel, board |-> BoardPanel,
   work |-> WorkPanelTable, designers |-> DesignersPanel, brought |->
   BroughtPanel, parts |-> PartsPanel, partTab |-> PartTabPanel, draw |->
   DrawPanel]
ConsolePanels ==
  [boutiques |-> BoutiquesPanel, data |-> DataPanel, tables |-> TablesPanel,
   appearance |-> AppearancePanel, portal |-> PortalPanel, leads |->
   LeadsPanel, search |-> SearchPanel, bell |-> BellPanel, handling |->
   HandlingPanel, feed |-> FeedPanel, flags |-> FlagsPanel, config |->
   ConfigPanel, users |-> UsersPanel, sessions |-> SessionsPanel, modules |->
   ModulesPanel, audit |-> AuditPanel, health |-> HealthPanel, checklist |->
   ChecklistPanel, support |-> SupportPanel, overview |-> OverviewPanel,
   monitor |-> MonitorPanel, backlog |-> BacklogPanel, signins |->
   SigninsPanel, signIn |-> SignInPanel]
OrderPanels ==
  [order |-> OrderPanel, checks |-> ChecksPanel, notes |-> NotesPanel,
   handover |-> HandoverPanel, prices |-> PricesPanel, gallery |->
   GalleryPanel, stage |-> StagePanel, stagePhotos |-> StagePhotosPanel,
   reversal |-> ReversalPanel, kanban |-> KanbanPanel, invoices |->
   InvoicesPanel, cutting |-> CuttingPanel, materials |-> MaterialsPanel,
   diary |-> DiaryPanel, collection |-> CollectionPanel, messages |->
   MessagesPanel, notices |-> NoticesPanel, drafts |-> DraftsPanel, boutique
   |-> BoutiquePanel, pairing |-> PairingPanel, summary |-> SummaryPanel,
   tiers |-> TiersPanel, updates |-> UpdatesPanel]
CustomerPanels ==
  [book |-> BookPanel, wipe |-> WipePanel, import |-> ImportPanel, customer
   |-> CustomerPanel, edit |-> EditPanel, referrals |-> ReferralsPanel, picker
   |-> PickerPanel, referrer |-> ReferrerPanel, garmentForm |->
   GarmentFormPanel, brief |-> BriefPanel, template |-> TemplatePanel]

AppPanels ==
  StaffPanels @@ StockroomPanels @@ WorkPanels @@ DesignPanels @@
    ConsolePanels @@ OrderPanels @@ CustomerPanels

\* A reload may be answered by a read that was sent before the save.
ReloadMayMissASave ==
  {"payroll", "liveSessions", "myDay", "floor", "timesheet", "roster",
   "documents", "staffDetail", "items", "locations", "putAway", "move", "count",
   "problems", "rack", "recipes", "purchases", "finance", "job", "assign",
   "split", "alteration", "library", "design", "board", "work", "designers",
   "brought", "boutiques", "leads", "bell", "handling", "feed", "flags",
   "config", "users", "sessions", "order", "checks", "notes", "handover",
   "prices", "gallery", "stage", "stagePhotos", "reversal", "kanban",
   "invoices", "cutting", "materials", "diary", "collection", "messages",
   "notices", "drafts", "boutique", "pairing", "summary", "tiers", "updates",
   "book", "wipe", "import", "customer", "edit", "referrals", "template"}

\* A late reply may cover what is chosen.
LateReplyStays ==
  {"payroll", "floor", "timesheet", "performance", "items", "ledger",
   "locations", "putAway", "move", "count", "problems", "rack", "purchases",
   "catalog", "report", "finance", "alterationList", "library", "design",
   "board", "work", "brought", "data", "handling", "feed", "users",
   "sessions", "audit", "cutting", "materials", "updates", "edit"}

\* A form can be dismissed while it is sending.
FormsDismissable ==
  {"liveSessions", "floor", "timesheet", "roster", "staffDetail", "items",
   "locations", "putAway", "problems", "rack", "recipes", "purchases",
   "finance", "job", "assign", "alteration", "request", "library", "board",
   "brought", "boutiques", "flags", "config", "stage", "reversal", "diary",
   "collection", "drafts", "template"}

\* One busy flag for all rows: the second row worked on hides the first.
OneBusyRow ==
  {<<"liveSessions", "recalculate">>, <<"stage", "move">>, <<"leads", "save">>,
   <<"leads", "resend">>, <<"flags", "change">>, <<"flags", "create">>,
   <<"flags", "delete">>, <<"config", "save">>, <<"config", "maintenance">>,
   <<"config", "lockOut">>, <<"kanban", "move">>, <<"materials", "photo">>}

TwoSubjects == {week1, week2}
TwoRows == {row1, row2}
Alike == Permutations(TwoSubjects) \cup Permutations(TwoRows)
===============================================================================
