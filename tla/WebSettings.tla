---------------------------- MODULE WebSettings ----------------------------
(***************************************************************************)
(* The LLM settings: a page in several tabs, the file on the server over   *)
(* the environment, the connection test, and the client that a session     *)
(* keeps.  A key is never sent to the browser: a form that leaves it empty *)
(* keeps the stored one, and page and server each decide when it may.      *)
(*                                                                         *)
(* Abstracted: models, masks, texts, and the form, which the user fills as *)
(* he likes.  A key is the endpoint it was typed for.  The file is written *)
(* beside and renamed: a write happens or it does not, and the server      *)
(* serves a request in one step.                                           *)
(***************************************************************************)
EXTENDS WebWorkspaces

CONSTANTS
  Tabs,
  Rejected,     \* no key may be used
  Urls,         \* base URLs
  MaxRequests,  \* bound on the requests of the tabs
  MaxLost       \* bound on requests or answers that are lost

ASSUME SettingsBounds == MaxRequests \in Nat /\ MaxLost \in Nat

VARIABLES
  env,       \* ATLAS_LLM_*, as the server was started
  file,      \* llm-settings.json
  client,    \* the options of the client that a session keeps
  tabs,      \* the settings page of each tab
  requests,  \* the requests whose answer has not been handled
  strayed,   \* history: a key was sent to an endpoint it was not typed for
  made, lost

settingsVars == <<env, file, client, tabs, requests, strayed, made, lost>>

\* providerUsesBaseUrl, providerRequiresApiKey
UsesBaseUrl(provider) == provider # "anthropic"
RequiresApiKey(provider) == provider # "ollama"

Providers == {"anthropic", "gemini", "ollama"}
Endpoints == {e \in [provider : Providers, url : Urls \cup {None}] : (e.url # None) = UsesBaseUrl(e.provider)}
Config(e, key) == [provider |-> e.provider, url |-> e.url, key |-> key]
Endpoint(config) == [provider |-> config.provider, url |-> config.url]

\* Where a key may be sent, and what may be configured.
Places == [provider : Providers, url : Urls \cup {None}]
Configs == [provider : Providers, url : Urls \cup {None}, key : Places \cup {None}]

ASSUME SettingsNone == None \notin Urls \cup Places \cup Configs /\ Rejected \notin Places \cup {None}

\* An environment for Anthropic may also name a base URL.
Environments ==
  {None} \cup {Config(e, e) : e \in Endpoints \cup [provider : {"anthropic"}, url : Urls]}

\* resolveEffectiveLlmConfig: a saved file wins over the environment.
InForce(saved) == IF saved # None THEN saved ELSE env
Effective == InForce(file)

\* buildLlmSettingsView
View(config) ==
  IF config = None THEN [provider |-> None, url |-> None, hasApiKey |-> FALSE]
  ELSE [provider |-> config.provider, url |-> config.url, hasApiKey |-> config.key # None]

SettingsRequest(t, kind, form, key) ==
  [tab |-> t, kind |-> kind, form |-> form, key |-> key, answer |-> None, view |-> None]

SettingsInit ==
  /\ env \in Environments
  /\ file = None /\ client = None
  /\ tabs = [t \in Tabs |-> [view |-> None, busy |-> FALSE]]
  /\ requests = {} /\ strayed = FALSE
  /\ made = 0 /\ lost = 0

-----------------------------------------------------------------------------
\* Mutant: another base URL of the provider counts as the same endpoint.
SameEndpoint_Provider(config, form) == config # None /\ config.provider = form.provider

\* resolveApiKeyForInput: sameEndpoint
SameEndpoint(config, form) == config # None /\ config.provider = form.provider /\ config.url = form.url

\* resolveApiKeyForInput: the typed key, the one of the same endpoint, none
\* where none is needed, or the refusal.
KeyFor(form, key) ==
  IF key # None THEN key
  ELSE IF SameEndpoint(Effective, form) /\ Effective.key # None THEN Effective.key
  ELSE IF RequiresApiKey(form.provider) THEN Rejected ELSE None

\* storedKeyApplies: the page offers to keep the stored key.
StoredKeyApplies(view, form) ==
  /\ view # None
  /\ view.hasApiKey
  /\ view.provider = form.provider
  /\ UsesBaseUrl(form.provider) => view.url = form.url

-----------------------------------------------------------------------------
Make(t, request) ==
  /\ made < MaxRequests
  /\ made' = made + 1
  /\ requests' = requests \cup {request}

\* renderSettings and loadSettings: the view and the guard are the module's,
\* start again with a page, also while a request of the last one is awaited.
OpenPage(t) ==
  /\ tabs' = [tabs EXCEPT ![t] = [view |-> None, busy |-> TRUE]]
  /\ Make(t, SettingsRequest(t, "load", None, None))
  /\ UNCHANGED <<env, file, client, strayed, lost>>

\* runTest, runSave, runReset up to their await
Submit(t) ==
  /\ ~tabs[t].busy
  /\ tabs' = [tabs EXCEPT ![t].busy = TRUE]
  /\ \E kind \in {"test", "save", "reset"}, form \in Endpoints :
       \E key \in {None, form} : Make(t, SettingsRequest(t, kind, form, key))
  /\ UNCHANGED <<env, file, client, strayed, lost>>

\* resetLlmClients
ResetClients == client' = None

Sends(e, key) == strayed' = (strayed \/ key \notin {None, e})

\* The routes of /api/settings/llm, and the test of a connection.
Does(r, key) ==
  \/ r.kind = "load" /\ UNCHANGED <<file, client, strayed>>
  \/ r.kind = "reset" /\ file' = None /\ ResetClients /\ UNCHANGED strayed
  \/ /\ r.kind = "save" /\ key # Rejected
     /\ file' = Config(r.form, key)
     /\ ResetClients
     /\ UNCHANGED strayed
  \/ r.kind = "test" /\ key # Rejected /\ Sends(r.form, key) /\ UNCHANGED <<file, client>>
  \/ r.kind \in {"save", "test"} /\ key = Rejected /\ UNCHANGED <<file, client, strayed>>

Loses(answer) ==
  /\ answer = "failed" => lost < MaxLost
  /\ lost' = IF answer = "failed" THEN lost + 1 ELSE lost

ServeSettings(r) ==
  /\ r.answer = None
  /\ \E answer \in {"ok", "failed"} :
       LET key == IF r.kind \in {"save", "test"} THEN KeyFor(r.form, r.key) ELSE None
       IN  /\ Loses(answer)
           /\ Does(r, key)
           /\ requests' = (requests \ {r}) \cup
                {[r EXCEPT !.answer = IF key = Rejected THEN "failed" ELSE answer, !.view = View(InForce(file'))]}
  /\ UNCHANGED <<env, tabs, made>>

\* The request never arrives, or the server stops before the rename.
LoseSettings(r) ==
  /\ r.answer = None
  /\ Loses("failed")
  /\ requests' = (requests \ {r}) \cup {[r EXCEPT !.answer = "failed"]}
  /\ UNCHANGED <<env, file, client, tabs, strayed, made>>

\* applyView, of whichever page asked
Applied(tab, r) ==
  IF r.kind # "test" /\ r.answer = "ok" THEN [tab EXCEPT !.view = r.view] ELSE tab

\* loadSettings, runTest, runSave, runReset after their await
HandleSettings(r) ==
  /\ r.answer # None
  /\ tabs' = [tabs EXCEPT ![r.tab] = [Applied(@, r) EXCEPT !.busy = FALSE]]
  /\ requests' = requests \ {r}
  /\ UNCHANGED <<env, file, client, strayed, made, lost>>

\* A turn asks the LLM, with the session's client or a new one; a test of the
\* configuration in force sends the same key.
AskLlm ==
  /\ Effective # None
  /\ client' = IF client = None THEN Effective ELSE client
  /\ Sends(Endpoint(client'), client'.key)
  /\ UNCHANGED <<env, file, tabs, requests, made, lost>>

\* The server starts again.
Restart ==
  /\ client # None
  /\ client' = None
  /\ UNCHANGED <<env, file, tabs, requests, strayed, made, lost>>

SettingsNext ==
  \/ \E t \in Tabs : OpenPage(t) \/ Submit(t)
  \/ \E r \in requests : ServeSettings(r) \/ LoseSettings(r) \/ HandleSettings(r)
  \/ AskLlm \/ Restart

-----------------------------------------------------------------------------
\* Whatever tabs save, test and reset, though their views may no longer be
\* true, a key is sent only to the endpoint it was typed for, and a
\* session asks with the settings in force.
KeysGoWhereTyped ==
  /\ ~strayed
  /\ client \in {None, Effective}

\* A page whose view is still true and that offers to keep the stored key can
\* be saved without typing it: what the page and the server decide, each by
\* itself, agrees.  An environment that gives Anthropic a base URL is left out:
\* there the page offers it and the server refuses.
KeptKeyIsAccepted ==
  \A t \in Tabs, form \in Endpoints :
    /\ StoredKeyApplies(tabs[t].view, form) /\ tabs[t].view = View(Effective)
    /\ Effective # None /\ Endpoint(Effective) \in Endpoints
    => KeyFor(form, None) # Rejected

\* A stored key leaves the server only for the endpoint it was typed for, and
\* it is there for it as long as a page that is up to date says so.
StoredKeyIsKept == KeysGoWhereTyped /\ KeptKeyIsAccepted
=============================================================================
