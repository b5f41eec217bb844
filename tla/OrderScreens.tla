----------------------------- MODULE OrderScreens -----------------------------
(***************************************************************************)
(* The counter's screens of the web application (frontend/src/App.jsx and  *)
(* features/orders): an order's page, the sheet of one of its stages, the  *)
(* board, the invoices, the materials, the diary, the messages and the     *)
(* settings.  Nearly all of them show one read, the dashboard's, which     *)
(* their operations ask for again.                                         *)
(***************************************************************************)
EXTENDS ScreenParts

-----------------------------------------------------------------------------
\* The dashboard's read of everything: App's loading is up until it is in.
Book == [sets |-> {"loading"}] @@ Read("getOrders")

\* What a handler that changes orders ends in: fetchDashboardAndConfig(),
\* not awaited ...
ThenRefresh(call) ==
  [changes |-> {"book"}, refreshes |-> {"book"}] @@ Op(call)

\* ... or awaited, with the handler's flag up until it is in.
ThenWait(call) ==
  [changes |-> {"book"}, reloads |-> {"book"}, waits |-> TRUE] @@ Op(call)

RefreshBook ==
  [checks |-> {"loading"}, refreshes |-> {"book"}] @@ Op("getDashboard")

-----------------------------------------------------------------------------
\* An order's page.
SendToWorkshop == [sets |-> {"sendBusy"}] @@ ThenRefresh("sendToWorkshop")

SendControls == [send |-> [checks |-> {"sendBusy"}]]

CompleteAll ==
  [sets |-> {"completingAllOrderId"}, rowchecks |-> {"completingAllOrderId"},
   rows |-> "one"] @@ ThenWait("completeAllStages")

SetFlow == ThenRefresh("setOrderFlow")

\* The flag is lowered and the dashboard asked for whatever happened.
AssignDesigner ==
  [sets |-> {"assigning"}, checks |-> {"assigning"}, retries |-> {"book"}]
    @@ ThenRefresh("assignDesignWork")

\* The whole list is sent as this page shows it.
SaveVerification ==
  [sets |-> {"savingVerification"}, checks |-> {"savingVerification"}]
    @@ ThenRefresh("saveMasterVerification")

ReviewPhoto == ThenRefresh("reviewStagePhoto")

DesignerSelect == [designer |-> [rowchecks |-> {"assigning"}]]

OrderPanel ==
  Panel({}, [book |-> Book],
    Merge([send |-> SendToWorkshop, complete |-> CompleteAll, flow |-> SetFlow,
           refresh |-> RefreshBook], SendControls))

ChecksPanel ==
  Panel({}, [book |-> Book],
    Merge([designer |-> AssignDesigner, verify |-> SaveVerification,
           photo |-> ReviewPhoto], DesignerSelect))

-----------------------------------------------------------------------------
\* The cards of an order's page.
SaveDelivery ==
  [form |-> "delivery", sets |-> {"busy"}, own |-> TRUE, closes |-> TRUE]
    @@ ThenRefresh("updateOrder")

DeliveryControls ==
  [delivery |-> [checks |-> {"busy"}, locked |-> {"busy"}]]

SavePrices ==
  [form |-> "prices", sets |-> {"busy"}, own |-> TRUE, closes |-> TRUE]
    @@ ThenRefresh("setOrderPrices")

PriceControls == [prices |-> [checks |-> {"busy"}, locked |-> {"busy"}]]

GalleryWork(call) == [sets |-> {"busy"}] @@ ThenWait(call)

GalleryControls ==
  [o \in {"upload", "remove", "publish", "photos", "tryon"} |->
     [checks |-> {"busy"}]]

\* On blur, and by the autosave.
SaveNotes == ThenRefresh("updateOrder")

\* The whole list of notes is sent, as the card has it.
SaveVoiceNotes ==
  [sets |-> {"phase"}, checks |-> {"phase"}] @@ ThenRefresh("updateOrder")

SendVoiceNote ==
  [sets |-> {"phase"}, checks |-> {"phase"}, next |-> "notes"] @@ Op("uploadVoiceNote")

NotesPanel ==
  Panel({}, [book |-> Book],
    [text |-> SaveNotes, notes |-> SaveVoiceNotes, voice |-> SendVoiceNote])

HandoverPanel ==
  Panel({}, [book |-> Book], Merge([delivery |-> SaveDelivery], DeliveryControls))

PricesPanel ==
  Panel({}, [book |-> Book], Merge([prices |-> SavePrices], PriceControls))

GalleryPanel ==
  Panel({}, [book |-> Book],
    Merge([upload |-> GalleryWork("uploadGarmentImage"),
           remove |-> GalleryWork("deleteGarmentImage"),
           publish |-> GalleryWork("publishGarmentImages"),
           photos |-> GalleryWork("sendGarmentPhotos"),
           tryon |-> GalleryWork("deleteGarmentTryOn")], GalleryControls))

-----------------------------------------------------------------------------
\* The sheet of one stage.
Transition ==
  [form |-> "stage", sets |-> {"stageTransitionBusy"}, closes |-> TRUE]
    @@ ThenRefresh("transitionStage")

TransitionControls == [move |-> [checks |-> {"stageTransitionBusy"}]]

\* The recorder is off while it sends, the sheet's buttons are not.
SendStageVoice ==
  [form |-> "stage", sets |-> {"phase"}, own |-> TRUE,
   checks |-> {"phase", "stageTransitionBusy"}, next |-> "move"]
    @@ Op("uploadVoiceNote")

DeleteStageVoice ==
  [form |-> "stage", sets |-> {"stageTransitionBusy"},
   checks |-> {"stageTransitionBusy"}] @@ ThenRefresh("deleteStageNoteVoice")

VerdictOnSheet == [form |-> "stage"] @@ ThenRefresh("reviewStagePhoto")

AssignStage ==
  [form |-> "stage", sets |-> {"assigningStageKey"},
   rows |-> "one"] @@ ThenWait("assignStage")

AssignStageControls == [assign |-> [rowchecks |-> {"assigningStageKey"}]]

MarkStageSeen == [form |-> "stage"] @@ Op("markStageSeen")

\* Its cross and backdrop close it whatever is under way.
StagePanel ==
  Panel({}, [book |-> Book],
    Merge([move |-> Transition, voice |-> SendStageVoice, assign |-> AssignStage],
          TransitionControls @@ AssignStageControls))

StagePhotosPanel ==
  Panel({}, [book |-> Book],
    [seen |-> MarkStageSeen, verdict |-> VerdictOnSheet, delete |-> DeleteStageVoice])

Reverse(call) ==
  [form |-> "reversal", sets |-> {"reversalBusy"}, checks |-> {"reversalBusy"},
   closes |-> TRUE, shuts |-> {"stage"}] @@ ThenRefresh(call)

HeldReversal ==
  [o \in {"reopen", "fail"} |->
     [locked |-> {"reversalBusy"}, opener |-> {"reversalBusy"}]]

ReversalPanel ==
  Panel({}, [book |-> Book],
    Merge([reopen |-> Reverse("reopenStage"), fail |-> Reverse("failQualityCheck"),
           move |-> Transition], HeldReversal @@ TransitionControls))

-----------------------------------------------------------------------------
\* The board and the invoices.
\* Each hop is a request; the dashboard is asked for whatever happened.
MoveOrder ==
  [sets |-> {"busyOrder"}, rows |-> "one", retries |-> {"book"}]
    @@ ThenRefresh("transitionStage")

CardControls == [move |-> [rowchecks |-> {"busyOrder"}]]

KanbanPanel ==
  Panel({}, [book |-> Book], Merge([move |-> MoveOrder], CardControls))

SavePaid ==
  [sets |-> {"savingPaymentId"}, rows |-> "one"] @@ ThenWait("updateOrder")

PaidControls == [paid |-> [rowchecks |-> {"savingPaymentId"}]]

InvoicesPanel ==
  Panel({}, [book |-> Book], Merge([paid |-> SavePaid], PaidControls))

-----------------------------------------------------------------------------
\* The materials of an order.
ChecklistRead == [keyed |-> TRUE] @@ Read("getMaterialChecklist")

RecordUse ==
  [sets |-> {"busyLineId"}, rows |-> "one", changes |-> {"plan"},
   reloads |-> {"plan"}, waits |-> TRUE] @@ Op("consumePlanLine")

UseControls == [record |-> [rowchecks |-> {"busyLineId"}]]

CuttingPanel ==
  Panel({}, [plan |-> ChecklistRead], Merge([record |-> RecordUse], UseControls))

Gather(call) ==
  [sets |-> {"busyLineId"}, rows |-> "one", changes |-> {"plan"},
   reloads |-> {"plan"}, waits |-> TRUE] @@ Op(call)

GatherControls ==
  [o \in {"gather", "photo"} |-> [rowchecks |-> {"busyLineId"}]]

MaterialsPanel ==
  Panel({}, [plan |-> ChecklistRead],
    Merge([gather |-> Gather("gatherMaterialLine"),
           photo |-> Gather("addMaterialLinePhoto")], GatherControls))

-----------------------------------------------------------------------------
\* The diary.
DiaryRead == Read("getAppointments")

\* The dialog is closed once the diary is in again, whichever is open by then.
SaveAppointment(call) ==
  [form |-> "appointment", sets |-> {"savingAppointment"}, changes |-> {"diary"},
   reloads |-> {"diary"}, waits |-> TRUE, closes |-> TRUE] @@ Op(call)

CancelAppointment == SaveAppointment("updateAppointment")

AppointmentControls ==
  [o \in {"book", "change", "cancel"} |-> [checks |-> {"savingAppointment"}]]

DiaryPanel ==
  Panel({}, [diary |-> DiaryRead],
    Merge([book |-> SaveAppointment("createAppointment"),
           change |-> SaveAppointment("updateAppointment"),
           cancel |-> CancelAppointment], AppointmentControls))

-----------------------------------------------------------------------------
\* The collection, as App keeps it.
SaveDesign(call) ==
  [form |-> "design", sets |-> {"designSaving"}, checks |-> {"designSaving"},
   closes |-> TRUE] @@ ThenRefresh(call)

DeleteDesign == ThenRefresh("deleteBoutiqueDesign")

CollectionPanel ==
  Panel({}, [book |-> Book],
    [save |-> SaveDesign("updateBoutiqueDesign"), add |-> SaveDesign("createBoutiqueDesign"),
     delete |-> DeleteDesign])

-----------------------------------------------------------------------------
\* Messages to customers, and the bell.
MarkMessage ==
  [changes |-> {"queue"}, adopts |-> {"queue"}] @@ Op("markMessageSent")

RetryMessage ==
  [changes |-> {"queue"}, adopts |-> {"queue"}] @@ Op("retryCustomerMessage")

Running == [sets |-> {"busy"}]

MessagesPanel ==
  Panel({}, [queue |-> Read("getQueuedCustomerMessages")],
    [sent |-> [checks |-> {"busy"}] @@ Running @@ MarkMessage,
     retry |-> [checks |-> {"busy"}] @@ Running @@ RetryMessage])

NoticesRead == Read("getNotifications")

MarkNotices ==
  [sets |-> {"marking"}, checks |-> {"marking"}, changes |-> {"notices"},
   reloads |-> {"notices"}, waits |-> TRUE] @@ Op("markNotificationsAsRead")

NoticesPanel == Panel({}, [notices |-> NoticesRead], [mark |-> MarkNotices])

DiscardDraft ==
  [sets |-> {"deletingDraftId"}, checks |-> {"deletingDraftId"},
   form |-> "discard", closes |-> TRUE, drops |-> TRUE, changes |-> {"drafts"},
   adopts |-> {"drafts"}] @@ Op("deleteOrderDraft")

DraftsPanel ==
  Panel({}, [drafts |-> Read("listOrderDrafts")], [discard |-> DiscardDraft])

-----------------------------------------------------------------------------
\* The boutique's settings.
SettingsRead == Read("getBoutiqueSettings")

SaveBoutique ==
  [changes |-> {"settings"}, adopts |-> {"settings"}] @@ Op("updateBoutiqueSettings")

SubmitBoutique ==
  [sets |-> {"settingsSaving"}, checks |-> {"settingsSaving"}] @@ SaveBoutique

\* The autosave waits while the form is being saved by hand.
AutosaveBoutique == [checks |-> {"settingsSaving"}] @@ SaveBoutique

PinShop == [sets |-> {"busy"}] @@ SaveBoutique

PinControls == [o \in {"pin", "clear"} |-> [checks |-> {"busy"}]]

BoutiquePanel ==
  Panel({}, [settings |-> SettingsRead],
    Merge([save |-> SubmitBoutique, auto |-> AutosaveBoutique, pin |-> PinShop,
           clear |-> SaveBoutique, photo |-> Op("updateMyPhoto")], PinControls))

PairingRead == Read("getWhatsAppStatus")

ResetPairing ==
  [sets |-> {"resetting"}, changes |-> {"pairing"}, reloads |-> {"pairing"},
   waits |-> TRUE] @@ Op("resetWhatsAppStatus")

ResetControls == [reset |-> [checks |-> {"resetting"}]]

\* The status is asked for every three seconds.
PollPairing == [refreshes |-> {"pairing"}] @@ Op("getWhatsAppStatus")

\* Disconnect & Re-pair resets as well, and stays on.
PairingPanel ==
  Panel({}, [pairing |-> PairingRead],
    Merge([reset |-> ResetPairing, repair |-> ResetPairing, poll |-> PollPairing],
          ResetControls))

SaveSummary ==
  [sets |-> {"saving"}, rows |-> "one", changes |-> {"people"},
   adopts |-> {"people"}] @@ Op("updateSummarySetting")

SummaryControls == [save |-> [rowchecks |-> {"saving"}]]

SummaryPanel ==
  Panel({}, [people |-> Read("getSummarySettings")],
    Merge([save |-> SaveSummary], SummaryControls))

SaveTiers ==
  [sets |-> {"saving"}, changes |-> {"settings"}, adopts |-> {"settings"}]
    @@ Op("saveTierNames")

TiersPanel ==
  Panel({}, [settings |-> SettingsRead], [save |-> [checks |-> {"saving"}] @@ SaveTiers])

-----------------------------------------------------------------------------
\* What everybody worked on, by month.
UpdatesRead == [keyed |-> TRUE] @@ Read("getDailyUpdates")

PostUpdate ==
  [sets |-> {"busy"}, changes |-> {"updates"}, reloads |-> {"updates"}]
    @@ Op("postDailyUpdate")

PostControls == [post |-> [checks |-> {"busy"}]]

\* A card that is deleted is gone with its flag.
RemoveUpdate ==
  [sets |-> {"deleting"}, rowchecks |-> {"deleting"}, rows |-> "each"]

TakeUpdateOff ==
  [changes |-> {"updates"}, adopts |-> {"updates"}, mine |-> TRUE]
    @@ Op("deleteDailyUpdate")

UpdatesPanel ==
  Panel({}, [updates |-> UpdatesRead],
    Merge([post |-> PostUpdate, remove |-> RemoveUpdate @@ TakeUpdateOff], PostControls))
=============================================================================
