------------------------------ MODULE WebBrands ------------------------------
(***************************************************************************)
(* The brands: a directory with a profile for each of them on the server,  *)
(* the catalog that the client keeps of them with its active workspace,    *)
(* the page that shows them and the form that creates one.                 *)
(*                                                                         *)
(* Abstracted: of a profile, its name and its purpose are kept; a name is  *)
(* the workspace it is sanitized to and its spelling.  A listing reads the *)
(* directories in one step: a profile does not change once it is written.  *)
(***************************************************************************)
EXTENDS WebWorkspaces

CONSTANTS
  General,      \* "default", the workspace that is no brand
  Spellings,    \* of the names with one slug
  MaxListings,  \* bound on the listings that overlap
  MaxSteps      \* bound on failures and on what the users do, together

ASSUME BrandBounds == General \notin Workspaces /\ MaxListings \in Nat /\ MaxSteps \in Nat

VARIABLES
  profiles,      \* of each workspace: absent, a directory without one, torn or written
  acknowledged,  \* history: the brands whose creation was answered with 201
  catalog,       \* of the state of the app: brands, brandsLoaded, activeWorkspace
  brandsPage,    \* pageState, and whether the page is the current route
  form,          \* the dialog that creates a brand
  listings,      \* the requests for the brands that are not handled yet
  chosen,        \* history: the workspace the user chose, while there is one
  stale,         \* history: an answer about the brands may have been overtaken
  steps

brandVars == <<profiles, acknowledged, catalog, brandsPage, form, listings, chosen, stale, steps>>

Names == (Workspaces \X Spellings) \cup {<<None, "refused">>, <<General, "general">>}
Purposes == {"", "purpose"}

\* sanitizeBrandSlug: None when the name is refused.
Slug(name) == name[1]

Profile(name, purpose) == [is |-> "written", name |-> name, purpose |-> purpose]
Absent == [is |-> "absent"]
Empty == [is |-> "empty"]
Torn == [is |-> "torn"]

Loaded(slug, name) ==
  IF profiles[slug].is \in {"absent", "empty"} THEN Profile(name, "") ELSE profiles[slug]

\* listWorkspaces
Directories == {w \in Workspaces : profiles[w].is # "absent"}

Free(S) == CHOOSE i \in 1 .. MaxListings + 1 : \A c \in S : c.id # i

\* fetchBrands for the active workspace
Asking(S, by, active) ==
  S \cup {[id |-> Free(S), by |-> by, active |-> active, status |-> "awaited", brands |-> {}]}

Form(pc) == [pc |-> pc, name |-> None, purpose |-> "", result |-> None]

\* mountApp loads the catalog first; the workspace is the one of localStorage.
BrandsInit ==
  /\ profiles = [w \in Workspaces |-> Absent]
  /\ acknowledged = {} /\ stale = FALSE /\ steps = 0
  /\ \E w \in Workspaces \cup {General} :
       /\ catalog = [brands |-> {}, loaded |-> FALSE, active |-> w]
       /\ chosen = w
       /\ listings = Asking({}, "mount", w)
       /\ brandsPage = [on |-> FALSE, loading |-> TRUE, error |-> FALSE,
                        shown |-> {}, marked |-> w, success |-> None]
  /\ form = Form("closed")

ServerOnly == UNCHANGED <<catalog, brandsPage, chosen>>
StepTaken == steps < MaxSteps /\ steps' = steps + 1

-----------------------------------------------------------------------------
\* The server.

\* Any request for workspace w: #buildBrandClient creates what is not there.
Visit(w) ==
  /\ StepTaken
  /\ profiles[w].is \in {"absent", "empty"}
  /\ profiles' = [profiles EXCEPT ![w] = Loaded(w, <<w, "slug">>)]
  /\ stale' = (stale \/ listings # {})
  /\ UNCHANGED <<acknowledged, form, listings>> /\ ServerOnly

\* Mutant: the names are compared, not the directories.
Taken_ByName(name) ==
  \E w \in Directories : profiles[w].is = "written" /\ profiles[w].name = name

\* The duplicate check of createBrand.
Taken(name) == Slug(name) \in Directories

Refused(name) == Slug(name) \in {None, General} \/ Taken(name)

\* createBrand: the profile is written with no purpose, then with the one given.
WithPurpose(profile, purpose) ==
  IF purpose = "" THEN profile ELSE [profile EXCEPT !.purpose = purpose]

CreateBrand ==
  /\ form.pc = "posting"
  /\ LET name == form.name
         slug == Slug(name)
         result(code) == form' = [form EXCEPT !.pc = "answered", !.result = code]
     IN \/ /\ Refused(name)
           /\ result(IF slug \in {None, General} THEN "invalid" ELSE "duplicate")
           /\ UNCHANGED <<profiles, acknowledged, stale, steps>>
        \/ /\ ~Refused(name)
           /\ Loaded(slug, name).is = "written"
           /\ profiles' = [profiles EXCEPT ![slug] = WithPurpose(Loaded(slug, name), form.purpose)]
           /\ \/ /\ result("created") /\ UNCHANGED steps
                 /\ acknowledged' = acknowledged \cup {[slug |-> slug, name |-> name, purpose |-> form.purpose]}
              \/ /\ StepTaken /\ result("failed")   \* the answer is lost, or its record cannot be built
                 /\ UNCHANGED acknowledged
           /\ stale' = (stale \/ listings # {})
  /\ UNCHANGED listings /\ ServerOnly

\* A crash or a failing write in the middle of it.
CreateBreaks ==
  /\ form.pc = "posting" /\ ~Refused(form.name)
  /\ StepTaken
  /\ \E left \in {Empty, Torn, Profile(form.name, "")} :
       profiles' = [profiles EXCEPT ![Slug(form.name)] = left]
  /\ form' = [form EXCEPT !.pc = "answered", !.result = "failed"]
  /\ stale' = (stale \/ listings # {})
  /\ UNCHANGED <<acknowledged, listings>> /\ ServerOnly

\* listBrands: it creates the profiles that are missing; one that cannot be
\* read makes the whole listing fail.
ListBrands(c) ==
  /\ c.status = "awaited"
  /\ IF \E w \in Directories : profiles[w].is = "torn"
     THEN UNCHANGED profiles /\ listings' = (listings \ {c}) \cup {[c EXCEPT !.status = "failed"]}
     ELSE /\ profiles' = [w \in Workspaces |->
                            IF w \in Directories THEN Loaded(w, <<w, "slug">>) ELSE profiles[w]]
          /\ listings' = (listings \ {c}) \cup
                           {[c EXCEPT !.status = "ok", !.brands = Directories \cup {General}]}
  /\ UNCHANGED <<acknowledged, form, stale, steps>> /\ ServerOnly

FailListing(c) ==
  /\ c.status = "awaited" /\ StepTaken
  /\ listings' = (listings \ {c}) \cup {[c EXCEPT !.status = "failed"]}
  /\ UNCHANGED <<profiles, acknowledged, form, stale>> /\ ServerOnly

-----------------------------------------------------------------------------
\* The client.

Bounded == listings' = listings \/ \A c \in listings' : c.id <= MaxListings

\* Listings for two workspaces overlap: the answers may come in either order.
Overlap(S) == \E c, d \in S : c.active # d.active

\* loadBrands up to its await
LoadingBrands(active) == [brandsPage EXCEPT !.loading = TRUE, !.error = FALSE, !.marked = active]

\* The listeners of the state: a full render (of another route or workspace)
\* loads a page that is loading, and either loads one of another workspace.
Reloads(full, active) ==
  brandsPage.on /\ (brandsPage.marked # active \/ (full /\ brandsPage.loading))
RenderedBrands(full, active, S) ==
  IF Reloads(full, active) THEN [page |-> LoadingBrands(active), asks |-> Asking(S, "page", active)]
  ELSE [page |-> brandsPage, asks |-> S]

Quiet == UNCHANGED <<profiles, acknowledged>>

\* setRoute and the buttons of the browser: renderBrands
GoTo_Brands ==
  /\ StepTaken
  /\ LET loads == ~brandsPage.on /\ (brandsPage.loading \/ brandsPage.marked # catalog.active)
     IN  IF loads
         THEN /\ brandsPage' = [LoadingBrands(catalog.active) EXCEPT !.on = TRUE]
              /\ listings' = Asking(listings, "page", catalog.active)
         ELSE brandsPage' = [brandsPage EXCEPT !.on = ~@] /\ UNCHANGED listings
  /\ Bounded
  /\ stale' = (stale \/ Overlap(listings'))
  /\ UNCHANGED <<catalog, form, chosen>> /\ Quiet

\* The banner is dismissed.
Dismiss ==
  /\ brandsPage.on /\ brandsPage.success # None
  /\ brandsPage' = [brandsPage EXCEPT !.success = None]
  /\ UNCHANGED <<catalog, form, listings, chosen, stale, steps>> /\ Quiet

\* switchWorkspace, for a brand of the catalog: from a card of the page or the
\* switcher, or from the banner, which goes; the dialog makes them all inert.
Switch_Brand ==
  /\ StepTaken
  /\ form.pc = "closed"
  /\ \E w \in catalog.brands \ {catalog.active} : \E banner \in {w, None} :
       /\ catalog' = [catalog EXCEPT !.active = w]
       /\ chosen' = w
       /\ LET r == RenderedBrands(TRUE, w, listings)
          IN  /\ brandsPage' = [r.page EXCEPT !.success = IF @ = banner THEN None ELSE @]
              /\ listings' = r.asks
  /\ Bounded
  /\ stale' = (stale \/ Overlap(listings'))
  /\ UNCHANGED form /\ Quiet

RetryBrands ==
  /\ StepTaken
  /\ brandsPage.on /\ brandsPage.error /\ ~brandsPage.loading
  /\ brandsPage' = LoadingBrands(catalog.active)
  /\ listings' = Asking(listings, "page", catalog.active)
  /\ Bounded
  /\ stale' = (stale \/ Overlap(listings'))
  /\ UNCHANGED <<catalog, form, chosen>> /\ Quiet

\* openCreateDialog and submitCreateForm up to its await
OpenForm ==
  /\ brandsPage.on /\ form.pc = "closed"
  /\ form' = [form EXCEPT !.pc = "open"]
  /\ UNCHANGED <<catalog, brandsPage, listings, chosen, stale, steps>> /\ Quiet

CloseForm ==
  /\ form.pc = "open"
  /\ form' = [form EXCEPT !.pc = "closed"]
  /\ UNCHANGED <<catalog, brandsPage, listings, chosen, stale, steps>> /\ Quiet

Submit_Brand ==
  /\ form.pc = "open"
  /\ \E name \in Names, purpose \in Purposes :
       form' = [pc |-> "posting", name |-> name, purpose |-> purpose, result |-> None]
  /\ StepTaken
  /\ UNCHANGED <<catalog, brandsPage, listings, chosen, stale>> /\ Quiet

\* submitCreateForm after createBrand: any failure opens the form again.
Created ==
  /\ form.pc = "answered"
  /\ IF form.result = "created"
     THEN /\ listings' = Asking(listings, "form", catalog.active) /\ Bounded
          /\ form' = [form EXCEPT !.pc = "refreshing"]
     ELSE form' = Form("open") /\ UNCHANGED listings
  /\ stale' = (stale \/ Overlap(listings'))
  /\ UNCHANGED <<catalog, brandsPage, chosen, steps>> /\ Quiet

\* Mutant: the active workspace is kept when it is not in the catalog.
NextActive_Kept(c) == catalog.active

\* applyBrandCatalog: a workspace that is not in the answer is left.
NextActive(c) == IF catalog.active \in c.brands THEN catalog.active ELSE General

AppliesCatalog(c) == catalog' = [brands |-> c.brands, loaded |-> TRUE, active |-> NextActive(c)]

\* loadBrandCatalog of mountApp, and the render after it
HandleMount(c) ==
  /\ c.by = "mount"
  /\ IF c.status = "ok" THEN AppliesCatalog(c) ELSE UNCHANGED catalog
  /\ LET r == RenderedBrands(TRUE, catalog'.active, listings \ {c})
     IN  brandsPage' = r.page /\ listings' = r.asks
  /\ UNCHANGED form

\* The rest of submitCreateForm, when the catalog was refreshed.
Announces(c) == c.status = "ok"

HandleForm(c) ==
  /\ c.by = "form" /\ form.pc = "refreshing"
  /\ IF c.status = "ok" THEN AppliesCatalog(c) ELSE UNCHANGED catalog
  /\ IF Announces(c)
     THEN /\ form' = Form("closed")
          /\ brandsPage' = [LoadingBrands(catalog'.active) EXCEPT !.success = Slug(form.name)]
          /\ listings' = LET r == RenderedBrands(catalog'.active # catalog.active, catalog'.active, listings \ {c})
                         IN  IF brandsPage.on THEN Asking(r.asks, "page", catalog'.active) ELSE r.asks
     ELSE /\ form' = Form("open")
          /\ listings' = listings \ {c} /\ UNCHANGED brandsPage

\* loadBrands after its await: the state first, and its listeners, then the page.
HandlePage(c) ==
  /\ c.by = "page"
  /\ IF c.status = "ok"
     THEN /\ AppliesCatalog(c)
          /\ listings' = RenderedBrands(catalog'.active # catalog.active, catalog'.active, listings \ {c}).asks
          /\ brandsPage' = [brandsPage EXCEPT !.loading = FALSE, !.shown = c.brands, !.marked = c.active,
                              !.error = IF Reloads(catalog'.active # catalog.active, catalog'.active)
                                        THEN FALSE ELSE @]
     ELSE /\ brandsPage' = [brandsPage EXCEPT !.loading = FALSE, !.shown = {}, !.error = TRUE]
          /\ listings' = listings \ {c} /\ UNCHANGED catalog
  /\ UNCHANGED form

HandleListing(c) ==
  /\ c.status # "awaited"
  /\ HandleMount(c) \/ HandleForm(c) \/ HandlePage(c)
  /\ Bounded
  /\ stale' = (stale \/ Overlap(listings'))
  /\ chosen' = IF chosen \in Directories \cup {General} THEN chosen ELSE catalog'.active
  /\ UNCHANGED steps /\ Quiet

BrandsNext ==
  \/ \E w \in Workspaces : Visit(w)
  \/ CreateBrand \/ CreateBreaks
  \/ GoTo_Brands \/ Dismiss \/ Switch_Brand \/ RetryBrands
  \/ OpenForm \/ CloseForm \/ Submit_Brand \/ Created
  \/ \E c \in listings : ListBrands(c) \/ FailListing(c) \/ HandleListing(c)

-----------------------------------------------------------------------------
\* A brand whose creation was acknowledged keeps the name and the purpose it
\* was given: neither another spelling of its name, nor a visit, a listing or
\* a creation that fails half-way changes it, and no second one takes its slug.
AcknowledgedBrandsStay ==
  \A b \in acknowledged : profiles[b.slug] = Profile(b.name, b.purpose)

\* Unless answers about the brands overtook each other: the active workspace is
\* the one the user chose, or General because that one is no brand; the brand
\* that the banner offers to work with is one that switchWorkspace accepts; and
\* a page with nothing under way marks the active workspace.
CatalogSettles ==
  ~stale =>
    /\ catalog.loaded => catalog.active \in catalog.brands
    /\ catalog.active = chosen
    /\ brandsPage.success # None => brandsPage.success \in catalog.brands
    /\ brandsPage.on /\ listings = {} /\ ~brandsPage.error =>
         ~brandsPage.loading /\ brandsPage.marked = catalog.active
=============================================================================
