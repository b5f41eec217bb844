-------------------------- MODULE StockroomScreens --------------------------
(***************************************************************************)
(* The inventory section's screens (frontend/src/features/inventory), the  *)
(* boutique's own production and its finances.  What is chosen on one of   *)
(* them is a location, a search, an item or a range of days.               *)
(***************************************************************************)
EXTENDS ScreenParts

\* A form that saves once, closes, and has the screen read R again.
SavesIn(form, call, R) ==
  [form |-> form, sets |-> {"saving"}, own |-> TRUE, closes |-> TRUE,
   changes |-> R, reloads |-> R] @@ Op(call)

-----------------------------------------------------------------------------
\* Items by search and category; movements, items, stock and suppliers.
ItemsRead == [keyed |-> TRUE, sets |-> {"loading"}] @@ Read("getInventoryItems")

RecordMovement == SavesIn("movement", "moveStock", {"items"})

MovementControls == [movement |-> [checks |-> {"saving"}]]

SaveItem == SavesIn("item", "saveInventoryItem", {"items"})

AddItemPhotos ==
  [form |-> "item", sets |-> {"uploading"}, own |-> TRUE] @@ Op("uploadInventoryImages")

ItemControls ==
  [item  |-> [checks |-> {"saving", "uploading"}],
   photo |-> [checks |-> {"uploading"}]]

\* The sheet stays open for another item, or when a shelf refused.
StockItem(stays) ==
  [closes |-> ~stays] @@ SavesIn("stocking", "saveInventoryItem", {"items"})

StockControls ==
  [o \in {"stock", "stockAnother"} |-> [checks |-> {"saving", "uploading"}]]

SaveSupplier == SavesIn("supplier", "createSupplier", {"items"})

SupplierControls == [supplier |-> [checks |-> {"saving"}]]

ItemsPanel ==
  Panel({}, [items |-> ItemsRead],
    Merge([movement |-> RecordMovement, item |-> SaveItem, photo |-> AddItemPhotos,
           stock |-> StockItem(FALSE), stockAnother |-> StockItem(TRUE),
           supplier |-> SaveSupplier],
          MovementControls @@ ItemControls @@ StockControls @@ SupplierControls))

\* One item's history, opened for one item after another.
LedgerPanel ==
  Panel({}, [ledger |-> [keyed |-> TRUE, sets |-> {"ledgerLoading"}]
                          @@ Read("getItemMovements")], NoOps)

\* Where the item chosen for a transfer lies.
ItemPlacesPanel ==
  Panel({}, [places |-> [keyed |-> TRUE, latest |-> TRUE, sets |-> {"breakdownLoading"}]
                          @@ Read("getItemLocations")], NoOps)

\* What may be stocked of a section, chosen in the sheet.
GroupItemsPanel ==
  Panel({}, [group |-> [keyed |-> TRUE, latest |-> TRUE, sets |-> {"itemsLoading"}]
                         @@ Read("getCatalogItems")], NoOps)

-----------------------------------------------------------------------------
\* Stock by location: locations added and removed, stock transferred.
LocationsRead == Read("getStockLocations")

HeldRead == [keyed |-> TRUE] @@ Read("getLocationStock")

AddLocation == SavesIn("location", "createStockLocation", {"locations"})

TransferStock == SavesIn("transfer", "transferStock", {"held"})

AddLocationControls == [add |-> [checks |-> {"saving"}]]

TransferControls == [transfer |-> [checks |-> {"saving"}]]

LocationsPanel ==
  Panel({}, [locations |-> LocationsRead, held |-> HeldRead],
    Merge([add |-> AddLocation, transfer |-> TransferStock,
           remove |-> [changes |-> {"locations"}, reloads |-> {"locations"}]
                        @@ Op("deleteStockLocation")],
          AddLocationControls @@ TransferControls))

-----------------------------------------------------------------------------
\* The shelves of a location.  Each tool waits for what it reloads.
TreeRead == [keyed |-> TRUE] @@ Read("getShelfTree")

ShelfWork(call, R) ==
  [sets |-> {"busy"}, changes |-> R, reloads |-> R, waits |-> TRUE] @@ Op(call)

WaitingRead == [keyed |-> TRUE] @@ Read("getNotShelved")

PutItAway ==
  [form |-> "picked", closes |-> TRUE] @@ ShelfWork("putAwayOnShelf", {"tree", "waiting"})

PutAwayControls == [putAway |-> [checks |-> {"busy"}]]

PutAwayPanel ==
  Panel({}, [tree |-> TreeRead, waiting |-> WaitingRead],
        Merge([putAway |-> PutItAway], PutAwayControls))

MoveOne == ShelfWork("moveOnShelves", {"tree"})
MoveAll == ShelfWork("moveWholeShelf", {"tree"})

MoveControls == [o \in {"move", "moveAll"} |-> [checks |-> {"busy"}]]

SaveCount == ShelfWork("countShelf", {"tree"})

CountControls == [count |-> [checks |-> {"busy"}]]

\* Each tool is a tab of its own, with a flag of its own.
MovePanel ==
  Panel({}, [tree |-> TreeRead],
        Merge([move |-> MoveOne, moveAll |-> MoveAll], MoveControls))
CountPanel ==
  Panel({}, [tree |-> TreeRead], Merge([count |-> SaveCount], CountControls))

IssuesRead == [keyed |-> TRUE] @@ Read("getShelfIssues")

MarkFixed ==
  [form |-> "fixing", closes |-> TRUE, changes |-> {"tree", "issues"},
   reloads |-> {"tree", "issues"}] @@ Op("resolveShelfIssue")

\* Mark fixed is never turned off.
ProblemsPanel ==
  Panel({}, [tree |-> TreeRead, issues |-> IssuesRead], [fix |-> MarkFixed])

RackEdit(call) ==
  [rows |-> "each", changes |-> {"tree"}, reloads |-> {"tree"}] @@ Op(call)

\* A form of the rack: success takes it away, so only a failure lowers busy.
DescribeRack ==
  [form |-> "describing", closes |-> TRUE, sets |-> {"busy"}, own |-> TRUE,
   changes |-> {"tree"}, reloads |-> {"tree"}] @@ Op("saveShelfSetup")
PreviewRack ==
  [form |-> "describing", sets |-> {"busy"}, own |-> TRUE] @@ Op("previewShelfSetup")

AddRack == [form |-> "addingSpot"] @@ [DescribeRack EXCEPT !.call = "createShelfSpot"]

EditRack == [form |-> "editingSpot"] @@ [DescribeRack EXCEPT !.call = "updateShelfSpot"]

DescribeControls == [o \in {"describe", "preview"} |-> [checks |-> {"busy"}]]

AddControls == [add |-> [checks |-> {"busy"}]]

EditControls == [edit |-> [checks |-> {"busy"}]]

RackPanel ==
  Panel({}, [tree |-> TreeRead],
    Merge([describe |-> DescribeRack, preview |-> PreviewRack, add |-> AddRack,
           edit |-> EditRack, reorder |-> RackEdit("updateShelfSpot"),
           remove |-> RackEdit("deleteShelfSpot")],
          DescribeControls @@ AddControls @@ EditControls))

\* What is in one spot, seen from the rack's list.
SpotPanel ==
  Panel({}, [inside |-> [keyed |-> TRUE, latest |-> TRUE] @@ Read("getShelfSpot")], NoOps)

\* A search over the shelves, and a scanned label.
FindPanel ==
  Panel({}, NoReads, [find |-> [checks |-> {"busy"}, sets |-> {"busy"}] @@ Op("findOnShelves")])

ScanPanel ==
  Panel({}, NoReads, [scan |-> [checks |-> {"busy"}, sets |-> {"busy"}] @@ Op("scanShelf")])

-----------------------------------------------------------------------------
\* Recipes; what was bought for orders; the catalogue; a report.
RecipesRead == [sets |-> {"loading"}] @@ Read("getBoms")

SaveRecipe == SavesIn("recipe", "saveBom", {"recipes"})

RecipeControls == [save |-> [checks |-> {"saving"}]]

TryRecipe ==
  [form |-> "trying", sets |-> {"busy"}, own |-> TRUE] @@ Op("getBomRequirements")

TryControls == [try |-> [checks |-> {"busy"}]]

RecipesPanel ==
  Panel({}, [recipes |-> RecipesRead],
    Merge([save |-> SaveRecipe, try |-> TryRecipe,
           remove |-> [changes |-> {"recipes"}, reloads |-> {"recipes"}] @@ Op("deleteBom")],
          RecipeControls @@ TryControls))

PurchasesRead == [keyed |-> TRUE, sets |-> {"loading"}] @@ Read("getOrderPurchases")

StepPurchase ==
  [form |-> "step", closes |-> TRUE, sets |-> {"busy"}, own |-> TRUE,
   changes |-> {"purchases"}, reloads |-> {"purchases"}] @@ Op("stepOrderPurchase")

StepControls == [step |-> [opener |-> {"loading"}, checks |-> {"busy"}]]

PurchasesPanel ==
  Panel({}, [purchases |-> PurchasesRead],
    Merge([step |-> StepPurchase,
           cancel |-> [checks |-> {"loading"}, changes |-> {"purchases"},
                       reloads |-> {"purchases"}] @@ Op("stepOrderPurchase")],
          StepControls))

CatalogPanel ==
  Panel({}, [items |-> [keyed |-> TRUE, sets |-> {"loading"}] @@ Read("getCatalogItems")],
        NoOps)

ReportPanel ==
  Panel({}, [report |-> [keyed |-> TRUE, sets |-> {"loading"}]
                          @@ Read("getInventoryReport")], NoOps)

NotShelvedPanel ==
  Panel({}, [reminder |-> [keyed |-> TRUE, latest |-> TRUE] @@ Read("getNotShelved")], NoOps)

-----------------------------------------------------------------------------
\* Garments stitched for the boutique.
RunsRead == Read("getInternalProduction")

StartProduction ==
  [form |-> "production", sets |-> {"busy"}, own |-> TRUE, closes |-> TRUE]
    @@ Op("createInternalProduction")

ProductionControls == [start |-> [checks |-> {"busy"}, locked |-> {"busy"}]]

ProductionPanel ==
  Panel({}, NoReads, Merge([start |-> StartProduction], ProductionControls))

InHousePanel == Panel({}, [runs |-> RunsRead], NoOps)

-----------------------------------------------------------------------------
\* Profit and loss over a range of days, and its costs.
ProfitRead == [keyed |-> TRUE, sets |-> {"loading"}] @@ Read("getProfitLoss")

AddCost ==
  [form |-> "adding", sets |-> {"busy"}, own |-> TRUE, closes |-> TRUE,
   changes |-> {"profit"}, reloads |-> {"profit"}] @@ Op("createExpense")

CostControls == [add |-> [checks |-> {"busy"}]]

RemoveCost ==
  [checks |-> {"loading"}, rows |-> "each", changes |-> {"profit"},
   reloads |-> {"profit"}] @@ Op("deleteExpense")

FinancePanelTable ==
  Panel({}, [profit |-> ProfitRead],
        Merge([add |-> AddCost, remove |-> RemoveCost], CostControls))
=============================================================================
