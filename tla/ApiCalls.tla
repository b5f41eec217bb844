------------------------------ MODULE ApiCalls ------------------------------
(***************************************************************************)
(* How each call of frontend/src/services/api.js travels.                  *)
(*                                                                         *)
(*   read    a GET through guardedFetch: it joins one of the same URL that *)
(*           is in flight                                                  *)
(*   json    a write with a text body through guardedFetch: an identical   *)
(*           one in flight answers for it                                  *)
(*   form    a write that carries (or may carry) a FormData body: each     *)
(*           call is a request of its own                                  *)
(*   plain   fetch without guardedFetch: each call is a request of its own *)
(*                                                                         *)
(* The addresses, the bodies and the wording of a failure are left out.    *)
(***************************************************************************)
EXTENDS TLC

LOCAL By(way, calls) == [c \in calls |-> way]
LOCAL Read(calls)  == By("read", calls)
LOCAL Json(calls)  == By("json", calls)
LOCAL Form(calls)  == By("form", calls)
LOCAL Plain(calls) == By("plain", calls)

\* Settings, the dashboard, the staff list and customers' own records.
ShopCalls ==
  Read({"getInvoiceTemplate", "getSummarySettings", "getDashboard", "getTailors"})
  @@ Json({"updateSummarySetting", "updateInvoiceTemplate", "seedMockData",
       "updateCustomer", "deleteCustomer"})
  @@ Form({"importCustomers", "createCustomer", "uploadCustomerPhoto"})

\* Appointments, design choices and who does which stage or part.
OrderDeskCalls ==
  Read({"getAppointments"})
  @@ Json({"deleteAllCustomers", "updateAppointment", "createAppointment",
       "approveDesign", "markStageSeen", "assignStage", "splitStage",
       "unsplitStage", "assignPart"})
  @@ Form({"saveDesignPreferences", "transitionPart"})

\* Fabric, the order itself and the moves made on it from the counter.
CustomerOrderCalls ==
  Read({"getAISuggestions", "getBoutiqueDesigns", "getAssignableStaff"})
  @@ Json({"createOrder", "updateOrderStatus", "sendToWorkshop", "completeAllStages",
       "setOrderFlow", "reviewStagePhoto"})
  @@ Form({"saveFabricSelection", "submitCompletion"})

\* Boutique settings and the stages' submissions, reviews and reversals.
WorkroomCalls ==
  Read({"getBoutiqueSettings", "getAdminAccess"})
  @@ Json({"saveTierNames", "saveAdminAccess", "reopenStage", "failQualityCheck"})
  @@ Form({"updateBoutiqueSettings", "submitStageReview", "transitionStage",
       "uploadVoiceNote"})

\* Daily updates, an order's prices and invoice, and customers' messages.
MessageCalls ==
  Read({"getDailyUpdates", "getQueuedCustomerMessages", "getWhatsAppStatus"})
  @@ Json({"deleteDailyUpdate", "updateOrder", "saveMasterVerification",
       "markMessageSent", "setOrderPrices", "sendInvoice",
       "retryCustomerMessage", "resetWhatsAppStatus"})
  @@ Form({"postDailyUpdate"})

\* Photographs of finished garments, staff records and one's own account.
GarmentAndStaffCalls ==
  Json({"deleteStageNoteVoice", "deleteGarmentImage", "deleteGarmentTryOn",
       "sendGarmentPhotos", "publishGarmentImages", "updateMyName",
       "changeMyPassword", "deleteDesigner", "deleteTailor"})
  @@ Form({"uploadGarmentImage", "createTailor", "updateTailor", "updateMyPhoto"})

\* Boutique designs, the customer directory, referrals and orders.
DirectoryCalls ==
  Read({"getAllBoutiqueDesigns", "getCustomers", "getCustomerDirectory",
       "getCustomerStats", "lookupCustomers", "getCustomer",
       "getCustomerReferrals", "getOrders"})
  @@ Json({"createBoutiqueDesign", "updateBoutiqueDesign", "deleteBoutiqueDesign",
       "addCustomerReferral"})
  @@ Form({"uploadBoutiqueDesignImage"})

\* In-house production, stock items, movements and purchase orders.
StockroomCalls ==
  Read({"getInternalProduction", "getInventoryItems", "getInventorySummary",
       "getInventoryOptions", "getInventoryTaxonomy", "getItemMovements",
       "getSuppliers", "getPurchaseOrders"})
  @@ Json({"createInternalProduction", "saveInventoryItem", "moveStock",
       "createSupplier", "createPurchaseOrder", "receivePurchaseOrder"})
  @@ Form({"uploadInventoryImages"})

\* Notifications and design boards.
DesignBoardCalls ==
  Read({"getNotifications", "getDesignContext", "getDesignBoards"})
  @@ Json({"markNotificationsAsRead", "discoverDesigns", "createDesignBoard",
       "saveProductionNotes", "addDesignToBoard", "removeDesignFromBoard",
       "selectBoardDesign", "customiseBoardDesign", "approveDesignBoard"})

\* Reference pictures, garment previews and the design library.
PictureCalls ==
  Read({"webDesignSearchAvailable", "garmentPreviewAvailable",
       "garmentPreviewInfo", "getCustomerDesigns", "getDesignCatalogue",
       "getDesignCategories", "getDesignLibrary", "getDesignApprovalHistory"})
  @@ Json({"searchWebDesigns", "keepWebDesign", "generateGarmentPreview",
       "cancelGarmentPreview", "reviewDesign"})
  @@ Form({"uploadReferenceImage", "createCustomerDesign"})
  @@ Plain({"getGarmentPartImages"})

\* Designers' portfolios, logins, collections and uploads.
PortfolioCalls ==
  Read({"getDesignDashboard", "getDesignerPortfolio", "getDesignAsset",
       "getCollections"})
  @@ Json({"resetStaffPassword", "createDesignerLogin", "createCollection"})
  @@ Form({"uploadDesign"})

\* Design assignments, designers and garment templates.
DesignerCalls ==
  Read({"getDesignAssignments", "getDesigners", "getGarmentTemplates",
       "getGarmentTemplate"})
  @@ Json({"assignDesignWork", "submitDesignAssignment", "reviewDesignAssignment",
       "createDesigner", "updateDesigner"})

\* Garment jobs and order drafts.
OrderDraftCalls ==
  Read({"getGarmentJobs", "listOrderDrafts", "getOrderDraft"})
  @@ Json({"createGarmentJob", "createOrderDraft", "updateOrderDraft",
       "deleteOrderDraft", "confirmOrderDraft", "saveDesignBoardToOrder"})

\* The catalogue, locations, shelves and recipes (inventoryGet, inventoryPost).
ShelfCalls ==
  Read({"getCatalogSections", "getCatalogItems", "getStockLocations",
       "getLocationStock", "getItemLocations", "getShelfTree", "findOnShelves",
       "getItemShelves", "getNotShelved", "scanShelf", "getShelfLabels",
       "getShelfSpot", "getShelfSpotHistory", "getShelfIssues", "getBoms"})
  @@ Json({"stockCatalogItem", "createStockLocation", "deleteStockLocation",
       "transferStock", "previewShelfSetup", "saveShelfSetup", "putAwayOnShelf",
       "moveOnShelves", "moveWholeShelf", "reportMissingOnShelf",
       "createShelfSpot", "countShelf", "resolveShelfIssue", "updateShelfSpot",
       "deleteShelfSpot", "createBom", "saveBom", "deleteBom"})

\* Recipes' lines, order materials, purchases for an order and reports.
MaterialCalls ==
  Read({"getMaterialPlans", "getMaterialChecklist", "getPlanAvailability",
       "reconcilePlan", "getCustomerMaterials", "getOrderPurchases",
       "getInventoryReport"})
  @@ Json({"getBomRequirements", "newBomVersion", "createBomLine", "deleteBomLine",
       "gatherMaterialLine", "planMaterials", "reservePlan", "consumePlanLine",
       "releasePlanUnused", "deductPlanPackaging", "closePlan", "cancelPlan",
       "receiveCustomerMaterial", "recordCustomerMaterial",
       "createOrderPurchase", "updateOrderPurchase", "stepOrderPurchase"})
  @@ Form({"addMaterialLinePhoto"})

\* staffRequest: profiles, attendance, day marks and reviews.
StaffCalls ==
  Plain({"getStaffProfiles", "getStaffDocuments", "uploadStaffDocument",
       "deleteStaffDocument", "createStaffProfile", "updateStaffProfile",
       "getAttendance", "getCurrentAttendance", "checkIn", "addCheckInLocation",
       "checkOut", "recordAttendance", "correctAttendance", "getTimesheet",
       "getDayMarks", "createDayMark", "deleteDayMark", "getPerformance",
       "getReviews", "createReview", "updateReview", "finaliseReview",
       "acknowledgeReview"})

\* payrollRequest: periods, deposits, advances and payouts.
PayrollCalls ==
  Plain({"getPayrollPeriods", "getPayrollPeriod", "generatePayroll",
       "approvePayroll", "getDeposits", "getDeposit", "getAdvances",
       "getAdvance", "issueAdvance", "updateAdvance", "cancelAdvance",
       "recordPayout"})

\* financeRequest: profit and loss, expenses.
FinanceCalls ==
  Plain({"getProfitLoss", "getExpenses", "createExpense", "deleteExpense"})

\* alterationRequest: alterations from intake to payment.
AlterationCalls ==
  Read({"getAlterations", "getAlteration", "getAlterationPayments",
       "getAlterationOutstandingBalance", "getAlterationMaterials"})
  @@ Json({"createAlteration", "createAlterationOrder",
       "createOutsideAlterationOrder", "startAlterationInspection",
       "recordAlterationInspection", "submitAlterationForApproval",
       "approveAlteration", "assignAlteration", "startAlterationWork",
       "sendAlterationToQC", "passAlterationQC", "failAlterationQC",
       "completeAlterationWork", "alterationCustomerApproved",
       "alterationCustomerRejected", "markAlterationPressed",
       "completeAlteration", "cancelAlteration", "recordAlterationPayment",
       "recordAlterationMaterial"})
  @@ Form({"createOutsideAlteration"})

\* The platform console has a request function of its own (superadmin/api.js).
ConsoleCalls ==
  Plain({"overview", "suspend", "reactivate", "deleteBoutique",
         "notifications", "markNotificationsRead", "leads", "updateLead",
         "approveLead", "resendLeadCredentials", "datasets", "dataset",
         "users", "userAction", "accessLink", "onboarding", "onboardingFor",
         "modules", "setModules", "setPlan", "setAppearance", "portalAccess",
         "setPortalAccess", "flags", "createFlag", "updateFlag", "deleteFlag",
         "config", "setConfig", "health", "errors", "errorSummary",
         "updateError", "audit", "signins", "ordersMonitor", "ordersFor",
         "search", "support", "login"})

\* Every call of the module by name.
Way ==
  ShopCalls
  @@ OrderDeskCalls
  @@ CustomerOrderCalls
  @@ WorkroomCalls
  @@ MessageCalls
  @@ GarmentAndStaffCalls
  @@ DirectoryCalls
  @@ StockroomCalls
  @@ DesignBoardCalls
  @@ PictureCalls
  @@ PortfolioCalls
  @@ DesignerCalls
  @@ OrderDraftCalls
  @@ ShelfCalls
  @@ MaterialCalls
  @@ StaffCalls
  @@ PayrollCalls
  @@ FinanceCalls
  @@ AlterationCalls
  @@ ConsoleCalls
=============================================================================
