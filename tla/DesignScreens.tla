---------------------------- MODULE DesignScreens ----------------------------
(***************************************************************************)
(* The design studio's screens (frontend/src/features/designStudio): the   *)
(* library, an order's board, work given to designers, what a customer     *)
(* brought, and the parts of a garment a design is chosen for.             *)
(***************************************************************************)
EXTENDS ScreenParts

-----------------------------------------------------------------------------
\* The library: a category's designs, an upload into it.
LibraryRead ==
  [keyed |-> TRUE, latest |-> TRUE, sets |-> {"loading"}] @@ Read("getDesignLibrary")

CategoriesRead == Read("getDesignCategories")

UploadDesign ==
  [form |-> "upload", sets |-> {"saving"}, own |-> TRUE, closes |-> TRUE,
   changes |-> {"designs", "categories"}] @@ Op("uploadDesign")

AddCollection ==
  [form |-> "upload", sets |-> {"adding"}, own |-> TRUE] @@ Op("createCollection")

\* Cancel is turned off; the cross is not.
UploadControls ==
  [upload |-> [checks |-> {"saving"}], collection |-> [checks |-> {"adding"}]]

AfterUpload ==
  [upload |-> [reloads |-> {"designs"}, refreshes |-> {"categories"}]]

LibraryPanel ==
  Panel({}, [designs |-> LibraryRead, categories |-> CategoriesRead],
    Merge(Merge([upload |-> UploadDesign, collection |-> AddCollection],
                UploadControls), AfterUpload))

\* One design: whichever answer lands last is the one that is open.
DesignRead == [keyed |-> TRUE] @@ Read("getDesignAsset")

HistoryRead ==
  [keyed |-> TRUE, sets |-> {"historyLoading"}] @@ Read("getDesignApprovalHistory")

Decide ==
  [sets |-> {"reviewing"}, changes |-> {"design"}] @@ Op("reviewDesign")

\* What was reviewed is opened again, whatever is open by then.
Reviewed == [decide |-> [adopts |-> {"design"}]]

DecideControls == [decide |-> [checks |-> {"reviewing"}]]

DesignPanel ==
  Panel({}, [design |-> DesignRead, history |-> HistoryRead],
        Merge(Merge([decide |-> Decide], DecideControls), Reviewed))

-----------------------------------------------------------------------------
\* An order's board: designs looked for, put on it, one of them selected,
\* changed and approved.
SearchRead == [keyed |-> TRUE, sets |-> {"loading"}] @@ Read("discoverDesigns")

BoardRead == [keyed |-> TRUE, latest |-> TRUE] @@ Read("getDesignBoards")

\* A board is made first when there is none; the item is put among those
\* that are shown when it is answered, or taken out of them.
Shortlist(call) ==
  [sets |-> {"shortlisting"}, checks |-> {"shortlisting"}, rows |-> "one",
   changes |-> {"board"}, adopts |-> {"board"}] @@ Op(call)

SelectDesign ==
  [sets |-> {"selecting"}, checks |-> {"selecting"}, rows |-> "one",
   changes |-> {"board"}, adopts |-> {"board"}] @@ Op("selectBoardDesign")

ApproveBoard ==
  [sets |-> {"approving"}, checks |-> {"approving"}, changes |-> {"board"},
   adopts |-> {"board"}] @@ Op("approveDesignBoard")

Customise ==
  [form |-> "inspect", closes |-> TRUE, changes |-> {"board"},
   adopts |-> {"board"}] @@ Op("customiseBoardDesign")

InspectControls ==
  [customise |-> [sets |-> {"saving"}, checks |-> {"saving"}, own |-> TRUE]]

BoardPanel ==
  Panel({}, [results |-> SearchRead, board |-> BoardRead],
    Merge([add |-> Shortlist("addDesignToBoard"), select |-> SelectDesign,
           approve |-> ApproveBoard, customise |-> Customise], InspectControls))

-----------------------------------------------------------------------------
\* Work given to designers, sent in, reviewed and handed to the workshop.
AssignmentsRead == [keyed |-> TRUE, sets |-> {"first"}] @@ Read("getDesignAssignments")

AssignWork ==
  [sets |-> {"assigning"}, changes |-> {"work"}, reloads |-> {"work"}]
    @@ Op("assignDesignWork")

AssignControls == [assign |-> [checks |-> {"assigning"}]]

LOCAL OnCard(call) ==
  [rows |-> "each", changes |-> {"work"}, reloads |-> {"work"}] @@ Op(call)

SubmitDesign == [sets |-> {"submitting"}] @@ OnCard("submitDesignAssignment")

DesignSubmitControls == [submit |-> [rowchecks |-> {"submitting"}]]

ReviewWork == [sets |-> {"reviewing"}] @@ OnCard("reviewDesignAssignment")

DesignReviewControls == [review |-> [rowchecks |-> {"reviewing"}]]

HandOver == [sets |-> {"handing"}] @@ OnCard("sendToWorkshop")

HandOverControls == [handOver |-> [rowchecks |-> {"handing"}]]

WorkPanelTable ==
  Panel({}, [work |-> AssignmentsRead],
    Merge([assign |-> AssignWork, submit |-> SubmitDesign, review |-> ReviewWork,
           handOver |-> HandOver],
          AssignControls @@ DesignSubmitControls @@ DesignReviewControls @@ HandOverControls))

\* The designers, and a login for one of them.
DesignersRead == [sets |-> {"loading"}] @@ Read("getDesigners")

AddDesigner ==
  [sets |-> {"adding"}, changes |-> {"designers"}, reloads |-> {"designers"}]
    @@ Op("createDesigner")

GrantLogin ==
  [sets |-> {"granting"}, checks |-> {"granting"}, rows |-> "one",
   changes |-> {"designers"}, reloads |-> {"designers"}] @@ Op("createDesignerLogin")

DesignerControls ==
  [add |-> [checks |-> {"adding"}], grant |-> [rowchecks |-> {"loading", "granting"}]]

DesignersPanel ==
  Panel({}, [designers |-> DesignersRead, dashboard |-> Read("getDesignDashboard")],
        Merge([add |-> AddDesigner, grant |-> GrantLogin], DesignerControls))

-----------------------------------------------------------------------------
\* Designs a customer brought, photographed or drawn on the pad.
BroughtRead == [keyed |-> TRUE, latest |-> TRUE] @@ Read("getCustomerDesigns")

\* A customer who is new is made first.
SaveBrought ==
  [form |-> "brought", sets |-> {"saving"}, own |-> TRUE, changes |-> {"designs"}]
    @@ Op("createCustomerDesign")

\* It is put before whatever is listed by then, and the form closed.
Saved == [save |-> [adopts |-> {"designs"}, closes |-> TRUE]]

BroughtControls == [save |-> [checks |-> {"saving"}]]

BroughtPanel ==
  Panel({}, [designs |-> BroughtRead],
        Merge(Merge([save |-> SaveBrought], BroughtControls), Saved))

-----------------------------------------------------------------------------
\* The parts of a garment: the designs there are for them, pictures of one's
\* own, pictures found on the web; and the garment drawn from what was chosen.
PartDesignsRead == [keyed |-> TRUE, latest |-> TRUE] @@ Read("getDesignLibrary")

SearchWeb == [sets |-> {"webSearching"}] @@ Op("searchWebDesigns")

\* Enter searches again whatever is under way; only the button is turned off.
SearchControls == [search |-> [checks |-> {}]]

KeepPicture ==
  [sets |-> {"keeping"}, checks |-> {"keeping"}, rows |-> "one"] @@ Op("keepWebDesign")

AddPictures == [sets |-> {"uploading"}] @@ Op("uploadReferenceImage")

PictureControls == [upload |-> [checks |-> {"uploading"}]]

PartsPanel ==
  Panel({}, [designs |-> PartDesignsRead],
    Merge([search |-> SearchWeb, keep |-> KeepPicture, upload |-> AddPictures],
          SearchControls @@ PictureControls))

PartTabPanel ==
  Panel({}, [images |-> [keyed |-> TRUE, latest |-> TRUE] @@ Read("getGarmentPartImages")],
        NoOps)

DrawGarment == [sets |-> {"busy"}, rows |-> "each"] @@ Op("generateGarmentPreview")

DrawControls == [draw |-> [rowchecks |-> {"busy"}]]

ModelPhoto == [sets |-> {"uploading"}] @@ Op("uploadReferenceImage")

ModelControls == [photo |-> [checks |-> {"uploading"}]]

DrawPanel ==
  Panel({}, NoReads,
    Merge([draw |-> DrawGarment, photo |-> ModelPhoto,
           stop |-> Op("cancelGarmentPreview")], DrawControls @@ ModelControls))
=============================================================================
