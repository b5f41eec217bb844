---------------------------- MODULE CustomerScreens ----------------------------
(***************************************************************************)
(* The customer book of the web application (features/customers and the    *)
(* Customers tab of App.jsx): the pages of the book, a customer's own      *)
(* page, referrals, the spreadsheet import, and the lookups of the forms;  *)
(* and the small reads and uploads the garment forms make.                 *)
(***************************************************************************)
EXTENDS ScreenParts

-----------------------------------------------------------------------------
\* A page of the book: filtered, sorted and paged by the server.
DirectoryRead == [keyed |-> TRUE, latest |-> TRUE] @@ Read("getCustomerDirectory")

\* What changes a customer asks for the counts and then for the page again.
ThenBook(call) ==
  [changes |-> {"directory"}, reloads |-> {"counts"}, refreshes |-> {"directory"},
   waits |-> TRUE] @@ Op(call)

RefreshBookOnly ==
  [refreshes |-> {"counts", "directory"}] @@ Op("getCustomerStats")

\* The three acts on a customer share the id of the one being worked on, and
\* each gives up at once while there is one.
LOCAL OnCustomer == [sets |-> {"customerActionId"}, checks |-> {"customerActionId"},
                     rows |-> "one"]

StartEditCustomer == OnCustomer @@ Op("getCustomer")

DeleteCustomer == OnCustomer @@ ThenBook("deleteCustomer")

MarkLeadContacted == OnCustomer @@ ThenBook("updateCustomer")

CustomerMenu ==
  [o \in {"edit", "delete", "contacted"} |-> [rowchecks |-> {"customerActionId"}]]

\* A photo that fails after the customer is saved is only mentioned.
SaveNewCustomer ==
  [form |-> "new", sets |-> {"busy"}, own |-> TRUE, closes |-> TRUE]
    @@ ThenBook("createCustomer")

\* The photo goes after the fields; if it fails the form stays, half saved.
SaveCustomer ==
  [form |-> "edit", sets |-> {"busy"}, own |-> TRUE, next |-> "editPhoto"]
    @@ Op("updateCustomer")

CustomerFormControls ==
  [o \in {"new", "save", "editPhoto"} |->
     [checks |-> {"busy"}, locked |-> {"busy"}]]

BookPanel ==
  Panel({}, [counts |-> Read("getCustomerStats"), directory |-> DirectoryRead],
    Merge(Merge([edit |-> StartEditCustomer, delete |-> DeleteCustomer,
                 contacted |-> MarkLeadContacted, new |-> SaveNewCustomer],
                CustomerMenu), CustomerFormControls))

\* The dialog stays, to say how many went and how many were kept.
DeleteAllCustomers ==
  [form |-> "wipe", sets |-> {"busy"}, own |-> TRUE] @@ ThenBook("deleteAllCustomers")

DeleteAllControls == [wipe |-> [checks |-> {"busy"}, locked |-> {"busy"}]]

WipePanel ==
  Panel({}, [counts |-> Read("getCustomerStats"), directory |-> DirectoryRead],
    Merge([wipe |-> DeleteAllCustomers, refresh |-> RefreshBookOnly],
          DeleteAllControls))

-----------------------------------------------------------------------------
\* The spreadsheet import: read by the server, shown, and saved once confirmed.
PreviewSheet == [sets |-> {"imp"}] @@ Op("importCustomers")

ImportSheet ==
  [form |-> "import", sets |-> {"imp"}] @@ ThenBook("importCustomers")

ChooserControls == [preview |-> [checks |-> {"imp"}], commit |-> [opener |-> {"imp"}]]

ImportControls == [commit |-> [checks |-> {"imp"}, locked |-> {"imp"}]]

\* While a sheet is on its way this lies over the page and cannot be closed.
ImportLocks == {"imp"}

ImportPanel ==
  Panel(ImportLocks, [counts |-> Read("getCustomerStats"), directory |-> DirectoryRead],
    Merge(Merge([preview |-> PreviewSheet, commit |-> ImportSheet],
                ChooserControls), ImportControls))

-----------------------------------------------------------------------------
\* A customer's own page.
\* A reply is kept only where it is about the customer who is open.
CustomerRead == [keyed |-> TRUE, matches |-> TRUE] @@ Read("getCustomer")

UploadCustomerPhoto ==
  [sets |-> {"customerPhotoBusy"}, checks |-> {"customerPhotoBusy"},
   changes |-> {"customer"}, adopts |-> {"customer"}, mine |-> TRUE]
    @@ Op("uploadCustomerPhoto")

PhotoControls == [photo |-> [checks |-> {"customerPhotoBusy"}]]

ApproveDesign ==
  [sets |-> {"approvingDesignId"}, rows |-> "one", changes |-> {"customer"},
   reloads |-> {"customer"}, waits |-> TRUE] @@ Op("approveDesign")

DesignControls == [approve |-> [rowchecks |-> {"approvingDesignId"}]]

CustomerPanel ==
  Panel({}, [customer |-> CustomerRead],
    Merge(Merge([photo |-> UploadCustomerPhoto, approve |-> ApproveDesign],
                PhotoControls), DesignControls))

\* The form is gone before the page is asked for again, and the answer is put
\* up whoever is open by then.
SaveCustomerPhoto ==
  [form |-> "edit", sets |-> {"busy"}, own |-> TRUE, closes |-> TRUE,
   changes |-> {"customer"}, reloads |-> {"customer"}] @@ Op("uploadCustomerPhoto")

EditPanel ==
  Panel({}, [customer |-> [keyed |-> TRUE] @@ Read("getCustomer")],
    Merge([save |-> SaveCustomer, editPhoto |-> SaveCustomerPhoto],
          CustomerFormControls))

ReferralsRead == [keyed |-> TRUE, latest |-> TRUE] @@ Read("getCustomerReferrals")

AddReferral ==
  [form |-> "referral", sets |-> {"busy"}, own |-> TRUE, changes |-> {"referrals"},
   refreshes |-> {"referrals"}] @@ Op("addCustomerReferral")

ReferralControls == [add |-> [checks |-> {"busy"}, locked |-> {"busy"}]]

ReferralsPanel ==
  Panel({}, [referrals |-> ReferralsRead],
    Merge([add |-> AddReferral], ReferralControls))

-----------------------------------------------------------------------------
\* The lookups: an answer is kept only for the question it answers.
LookupRead == [keyed |-> TRUE, latest |-> TRUE] @@ Read("lookupCustomers")

ChosenRead == [keyed |-> TRUE, latest |-> TRUE] @@ Read("lookupCustomers")

PickerPanel ==
  Panel({}, [matches |-> LookupRead, chosen |-> ChosenRead], NoOps)

ReferrerPanel == Panel({}, [matches |-> LookupRead], NoOps)

-----------------------------------------------------------------------------
\* The garment forms, and the owner's choice of invoice.
OptionsRead == [keyed |-> TRUE, latest |-> TRUE] @@ Read("getInventoryItems")

\* Nothing is turned off while photos are on their way.
UploadReference == Op("uploadReferenceImage")

UploadFieldNote == [sets |-> {"phase"}, checks |-> {"phase"}] @@ Op("uploadVoiceNote")

GarmentFormPanel ==
  Panel({}, [options |-> OptionsRead],
    [photos |-> UploadReference, voice |-> UploadFieldNote])

TemplatesRead == [keyed |-> TRUE, latest |-> TRUE] @@ Read("getGarmentTemplate")

BriefPanel == Panel({}, [templates |-> TemplatesRead], NoOps)

NamesRead == Read("getInventoryItems")

TemplateRead == [sets |-> {"loading"}] @@ Read("getInvoiceTemplate")

\* Its success closes whichever preview is open by then.
SelectTemplate ==
  [sets |-> {"saving"}, checks |-> {"saving"}, changes |-> {"template"},
   adopts |-> {"template"}, shuts |-> {"preview"}] @@ Op("updateInvoiceTemplate")

TemplateCard == [select |-> [opener |-> {"loading"}]]

TemplatePreview == [apply |-> [form |-> "preview", closes |-> TRUE, shuts |-> {}]]

TemplatePanel ==
  Panel({}, [template |-> TemplateRead],
    Merge(Merge([select |-> SelectTemplate, apply |-> SelectTemplate],
                TemplateCard), TemplatePreview))
=============================================================================
