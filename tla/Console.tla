------------------------------ MODULE Console ------------------------------
(***************************************************************************)
(* The forms of the web console.  They differ in a few particulars, which  *)
(* the record of each form states; what they share is this machine: a page *)
(* has a copy of the record that it loaded (the query cache of trpc), most *)
(* forms have a draft of their own next to it, saves and reloads are under *)
(* way, and effects bring the draft up to date when the copy changes.  Two *)
(* pages have the same form open.                                          *)
(***************************************************************************)
EXTENDS Integers, FiniteSets

CONSTANTS
    Tabs,         \* pages that have the form open
    MaxTyped,     \* bound: edits of a draft, reopenings and resets
    MaxPressed,   \* bound: saves
    MaxLoaded,    \* bound: reloads that no save started
    MaxRefused    \* bound: saves that fail

VARIABLES
    form,     \* the form that is open
    stored,   \* the record on the server
    cached,   \* cached[p]: the record as last loaded
    draft,    \* draft[p]: what the fields show
    flagged,  \* flagged[p]: the fields that the page holds for changed
    saves,   \* saves[p][i]: saves under way, two at most
    loading,  \* loading[p]: the reload under way
    fetching, \* fetching[p]: the default was asked for
    touched,  \* history, touched[p]: typed text that the page has not seen stored
    typed, pressed, loads, refused

consoleVars == <<form, stored, cached, draft, flagged, saves, loading, fetching, touched,
                 typed, pressed, loads, refused>>

Blanked == 0
Texts == 0..2
Calls == 1..2
NoSave == [at |-> "idle"]
NotLoading == [at |-> "idle"]

----------------------------------------------------------------------------
(* The forms.  drafts: fields with a draft, the others act on the copy at   *)
(* once.  sends: a save carries one field, the draft, or the copy with one  *)
(* field changed.  resync: when the copy changes the draft takes the fields *)
(* that did, all of them, all unless the user has typed, or none.           *)
(* needs: must not be empty.  keeps: is not sent when empty.  secrets: are  *)
(* never loaded, and sent only when flagged.  flags: a save needs a flag,   *)
(* and takes them all down when it is sent.  waits: no second save before   *)
(* the answer.  answers: the answer becomes the copy.  reloads: a success   *)
(* reloads.  late: an error may follow the write.  default: has a button    *)
(* that fetches the default.                                                *)

Switches(fields) ==
    [fields |-> fields, drafts |-> {}, sends |-> "field", resync |-> "form", needs |-> {}, keeps |-> {},
     secrets |-> {}, flags |-> FALSE, waits |-> FALSE, answers |-> FALSE, reloads |-> TRUE,
     late |-> FALSE, default |-> FALSE]

\* One text field each, with an effect on that field.
InputField(fields) == [Switches(fields) EXCEPT !.drafts = fields, !.resync = "field"]

Template ==
    [Switches({"subject", "body"}) EXCEPT !.drafts = {"subject", "body"}, !.needs = {"subject", "body"},
                                          !.sends = "draft", !.default = TRUE]

VerifyEmailTemplate == Template
ForgotPasswordMailTemplate == Template
MailUserInviteTemplate == Template
NotificationTemplate == Template
OrganizationInviteTemplate == Template
NewDeviceNotificationTemplate == Template
DeviceIpChangeNotificationTemplate == Template
OrganizationNotificationTemplateEditor == Template

\* The draft starts with the first edit and stays after a save.
EventNotifications == [Template EXCEPT !.resync = "once", !.needs = {}, !.waits = TRUE]

\* The address and the name of the server, of the gateway, and a secret.
Mail ==
    [Switches({"smtpHost", "messagePusherUrl", "smtpPassword"}) EXCEPT
        !.drafts = {"smtpHost", "messagePusherUrl", "smtpPassword"}, !.sends = "draft",
        !.keeps = {"smtpHost"}, !.secrets = {"smtpPassword"}, !.flags = TRUE, !.waits = TRUE]

NetworkName == [InputField({"name"}) EXCEPT !.answers = TRUE]
NetworkDescription == [InputField({"description"}) EXCEPT !.answers = TRUE]
NetworkMTU == InputField({"mtu"})
NetworkMulticast ==
    [Switches({"multicastLimit", "enableBroadcast"}) EXCEPT !.drafts = {"multicastLimit"}]
NetworkDns ==
    [Switches({"domain", "servers"}) EXCEPT !.drafts = {"domain", "servers"}, !.sends = "draft"]
NetworkPrivatePublic == [Switches({"private"}) EXCEPT !.answers = TRUE, !.reloads = FALSE]
Ipv6Assignment == Switches({"rfc4193", "6plane"})

\* Addresses and capabilities are saved as whole lists; a save covers the page.
MemberAddresses == [Switches({"address1", "address2"}) EXCEPT !.sends = "copy", !.waits = TRUE]
CapabilityCheckboxes == [Switches({"cap1", "cap2"}) EXCEPT !.sends = "copy", !.waits = TRUE]
Anotation == Switches({"anotation1", "anotation2"})

OrganizationNotification == Switches({"nodeAddedNotification", "nodeDeletedNotification"})
AdminNotification == Switches({"userRegistrationNotification"})
UserNetworkSetting == Switches({"showNotationMarkerInTableRow", "useNotationColorAsBg"})
UserSettingsNotification == Switches({"newDeviceNotification", "deviceIpChangeNotification"})
UserGroupAndRole == Switches({"userGroupId", "role"})
UserGroup == Switches({"userGroupId"})
OrgUserRole == Switches({"role"})
UserIsActive == [Switches({"expiresAt", "isActive"}) EXCEPT !.drafts = {"expiresAt"}, !.resync = "never"]

SiteSettings == InputField({"siteName", "welcomeMessageTitle"})
OrganizationSettings == InputField({"orgName", "orgDescription"})
Account == InputField({"name", "email"})
CentralAccess ==
    [InputField({"ztCentralApiUrl", "ztCentralApiKey"}) EXCEPT !.secrets = {"ztCentralApiKey"}, !.late = TRUE]

\* The secret is sent with the copy's address, which the server would reset otherwise.
ZerotierUrl ==
    [InputField({"localControllerUrl", "localControllerSecret"}) EXCEPT
        !.secrets = {"localControllerSecret"}, !.sends = "copy"]

\* A dialogue that shows the group as it was when it was opened.
UserGroups ==
    [Switches({"groupName", "maxNetworks"}) EXCEPT !.drafts = {"groupName", "maxNetworks"},
        !.needs = {"groupName", "maxNetworks"}, !.sends = "draft", !.resync = "never"]

Forms == {VerifyEmailTemplate, ForgotPasswordMailTemplate, MailUserInviteTemplate, NotificationTemplate,
          OrganizationInviteTemplate, NewDeviceNotificationTemplate, DeviceIpChangeNotificationTemplate,
          OrganizationNotificationTemplateEditor, EventNotifications, Mail, NetworkName,
          NetworkDescription, NetworkMTU, NetworkMulticast, NetworkDns, NetworkPrivatePublic,
          Ipv6Assignment, MemberAddresses, CapabilityCheckboxes, Anotation, OrganizationNotification,
          AdminNotification, UserNetworkSetting, UserSettingsNotification, UserGroupAndRole,
          UserIsActive, SiteSettings, OrganizationSettings, Account, CentralAccess, ZerotierUrl,
          UserGroups, UserGroup, OrgUserRole}

----------------------------------------------------------------------------
Loadable(rec) == [x \in form.fields |-> IF x \in form.secrets THEN Blanked ELSE rec[x]]

\* Mutant: the effect runs whenever an answer arrives.
ResyncAlways(p, new) == new

\* What the effects make of the draft when new takes the place of the copy.
Resync(p, new) ==
    [x \in form.fields |->
        IF \/ form.resync = "field" /\ new[x] # cached[p][x]
           \/ form.resync = "form" /\ new # cached[p]
           \/ form.resync = "once" /\ flagged[p] = {}
           \/ x \notin form.drafts
        THEN new[x] ELSE draft[p][x]]

TakeCopy(p, new) ==
    /\ cached' = [cached EXCEPT ![p] = new]
    /\ draft' = [draft EXCEPT ![p] = Resync(p, new)]
    /\ flagged' = [flagged EXCEPT ![p] = IF form.flags /\ new # cached[p] THEN {} ELSE @]
    /\ touched' = [touched EXCEPT ![p] = {x \in @ : draft'[p][x] # new[x] \/ x \in form.secrets \cap flagged'[p]}]

KeepPage == UNCHANGED <<cached, draft, flagged, touched>>

----------------------------------------------------------------------------
(* The user                                                                *)

Type(p, x, v) ==
    /\ x \in form.drafts /\ v # draft[p][x] /\ typed < MaxTyped
    /\ typed' = typed + 1
    /\ draft' = [draft EXCEPT ![p][x] = v]
    /\ flagged' = [flagged EXCEPT ![p] = @ \cup {x}]
    /\ touched' = [touched EXCEPT ![p] = @ \cup {x}]
    /\ UNCHANGED <<form, stored, cached, saves, loading, fetching, pressed, loads, refused>>

\* The dialogue, or another event type, is opened: the draft starts afresh.
Reopen(p) ==
    /\ form.resync \in {"once", "never"} /\ typed < MaxTyped
    /\ typed' = typed + 1
    /\ draft' = [draft EXCEPT ![p] = cached[p]]
    /\ flagged' = [flagged EXCEPT ![p] = {}]
    /\ touched' = [touched EXCEPT ![p] = {}]
    /\ UNCHANGED <<form, stored, cached, saves, loading, fetching, pressed, loads, refused>>

GetDefault(p) ==
    /\ form.default /\ ~fetching[p] /\ typed < MaxTyped
    /\ typed' = typed + 1
    /\ fetching' = [fetching EXCEPT ![p] = TRUE]
    /\ UNCHANGED <<form, stored, cached, draft, flagged, saves, loading, touched, pressed, loads, refused>>

DefaultArrives(p) ==
    /\ fetching[p]
    /\ fetching' = [fetching EXCEPT ![p] = FALSE]
    /\ draft' = [draft EXCEPT ![p] = [x \in form.fields |-> 2]]
    /\ flagged' = [flagged EXCEPT ![p] = form.fields]
    /\ touched' = [touched EXCEPT ![p] = form.fields]
    /\ UNCHANGED <<form, stored, cached, saves, loading, typed, pressed, loads, refused>>

Send(p, fields, payload) ==
    /\ pressed < MaxPressed /\ pressed' = pressed + 1
    /\ form.waits => \A i \in Calls : saves[p][i] = NoSave
    /\ \E i \in Calls :
           /\ saves[p][i] = NoSave /\ \A j \in 1..(i - 1) : saves[p][j] # NoSave
           /\ saves' = [saves EXCEPT ![p][i] = [at |-> "sent", payload |-> payload, copy |-> cached[p],
                                                  touched |-> fields]]
    /\ flagged' = [flagged EXCEPT ![p] = IF form.flags THEN {} ELSE @]
    /\ UNCHANGED <<form, stored, cached, draft, loading, fetching, touched, typed, loads, refused>>

\* Mutant: a secret is sent although the user has not touched it.
PayloadWithSecrets(p) == [x \in {x \in form.fields : x \in form.keeps => draft[p][x] # Blanked} |-> draft[p][x]]

Payload(p) ==
    [x \in {x \in form.fields : /\ x \in form.secrets => x \in flagged[p]
                                /\ x \in form.keeps => draft[p][x] # Blanked} |-> draft[p][x]]

SaveForm(p) ==
    /\ form.sends = "draft"
    /\ \A x \in form.needs : draft[p][x] # Blanked
    /\ form.flags => flagged[p] # {}
    /\ Send(p, touched[p], Payload(p))

\* A text field is submitted, or a switch or list item changed.
SaveField(p, x, v) ==
    /\ form.sends # "draft"
    /\ IF x \in form.drafts THEN v = draft[p][x] ELSE v # cached[p][x]
    /\ LET others == IF form.sends = "copy" THEN form.fields \ form.secrets ELSE {} IN
       Send(p, {x}, [y \in others \cup {x} |-> IF y = x THEN v ELSE cached[p][y]])

\* refetchOnWindowFocus, and what other parts of the page ask for.
Refetch(p) ==
    /\ loads < MaxLoaded /\ loads' = loads + 1
    /\ loading' = [loading EXCEPT ![p] = [at |-> "sent"]]
    /\ UNCHANGED <<form, stored, cached, draft, flagged, saves, fetching, touched, typed, pressed, refused>>

----------------------------------------------------------------------------
(* The server and its answers                                              *)

Stores(p, i) ==
    LET c == saves[p][i] IN
    /\ c.at = "sent"
    /\ stored' = [x \in form.fields |-> IF x \in DOMAIN c.payload THEN c.payload[x] ELSE stored[x]]
    /\ \E at \in {"done"} \cup (IF form.late THEN {"error"} ELSE {}) :
           saves' = [saves EXCEPT ![p][i] = [at |-> at, answer |-> Loadable(stored')]]
    /\ UNCHANGED <<form, cached, draft, flagged, loading, fetching, touched, typed, pressed, loads, refused>>

Refuses(p, i) ==
    /\ saves[p][i].at = "sent" /\ refused < MaxRefused
    /\ refused' = refused + 1
    /\ saves' = [saves EXCEPT ![p][i] = NoSave]
    /\ UNCHANGED <<form, stored, cached, draft, flagged, loading, fetching, touched, typed, pressed, loads>>

Answered(p, i) ==
    LET c == saves[p][i] IN
    /\ c.at \in {"done", "error"}
    /\ saves' = [saves EXCEPT ![p][i] = NoSave]
    /\ IF form.answers /\ c.at = "done" THEN TakeCopy(p, c.answer) ELSE KeepPage
    /\ loading' = IF form.reloads THEN [loading EXCEPT ![p] = [at |-> "sent"]] ELSE loading
    /\ UNCHANGED <<form, stored, fetching, typed, pressed, loads, refused>>

ReadsRecord(p) ==
    /\ loading[p].at = "sent"
    /\ loading' = [loading EXCEPT ![p] = [at |-> "read", data |-> Loadable(stored)]]
    /\ UNCHANGED <<form, stored, cached, draft, flagged, saves, fetching, touched, typed, pressed, loads, refused>>

Loaded(p) ==
    /\ loading[p].at = "read"
    /\ TakeCopy(p, loading[p].data)
    /\ loading' = [loading EXCEPT ![p] = NotLoading]
    /\ UNCHANGED <<form, stored, saves, fetching, typed, pressed, loads, refused>>

----------------------------------------------------------------------------
ConsoleInit ==
    /\ form \in Forms
    /\ stored = [x \in form.fields |-> 1]
    /\ cached = [p \in Tabs |-> Loadable(stored)]
    /\ draft = cached
    /\ flagged = [p \in Tabs |-> {}] /\ touched = [p \in Tabs |-> {}]
    /\ saves = [p \in Tabs |-> [i \in Calls |-> NoSave]]
    /\ loading = [p \in Tabs |-> NotLoading]
    /\ fetching = [p \in Tabs |-> FALSE]
    /\ typed = 0 /\ pressed = 0 /\ loads = 0 /\ refused = 0

ConsoleNext == \E p \in Tabs :
    \/ \E x \in form.fields, v \in Texts : Type(p, x, v) \/ SaveField(p, x, v)
    \/ Reopen(p) \/ GetDefault(p) \/ DefaultArrives(p) \/ SaveForm(p) \/ Refetch(p)
    \/ \E i \in Calls : Stores(p, i) \/ Refuses(p, i) \/ Answered(p, i)
    \/ ReadsRecord(p) \/ Loaded(p)

----------------------------------------------------------------------------
(* A save changes nothing that its user did not touch, whatever other pages *)
(* saved and whichever answers are late.  A form that sends more than the   *)
(* user touched may undo what its page had not loaded when the button was   *)
(* pressed, or had loaded into a draft that does not follow; but never a    *)
(* secret.                                                                  *)
UntouchedKept == [][\A p \in Tabs, i \in Calls :
    saves[p][i].at = "sent" /\ saves'[p][i].at \in {"done", "error"} =>
        \A x \in form.fields \ saves[p][i].touched :
            \/ stored'[x] = stored[x]
            \/ /\ x \notin form.secrets /\ form.sends # "field"
               /\ saves[p][i].copy # Loadable(stored) \/ form.resync \in {"once", "never"}]_consoleVars

(* Text that a user has typed and not seen stored stays in the field until  *)
(* the user replaces it or the page loads a record that differs from its    *)
(* copy, and where each field has its effect, in that field: a reload on    *)
(* window focus loses nothing.                                              *)
TypedKept == [][\A p \in Tabs : \A x \in touched[p] :
    draft'[p][x] # draft[p][x] =>
        \/ typed' # typed \/ fetching'[p] # fetching[p]
        \/ cached'[p] # cached[p] /\ (form.resync = "field" => cached'[p][x] # cached[p][x])]_consoleVars

(* A form loses neither what its user typed nor what others have stored.    *)
FormsKeep == UntouchedKept /\ TypedKept
=============================================================================
