--------------------------- MODULE WebClient_proofs ---------------------------
(***************************************************************************)
(* Proofs about the pages of the web client, one part per page, for any    *)
(* number of workspaces, brands, turns, batches, files and requests:       *)
(*   - brands: one whose creation was acknowledged stays as it was given,  *)
(*     and the active workspace and the page are settled;                  *)
(*   - settings: a key that was stored is kept until it is replaced;       *)
(*   - chat: the messages shown are those stored, and a page on which      *)
(*     nothing went wrong misses none;                                     *)
(*   - knowledge: what counts as uploaded is whole, duplicates were asked  *)
(*     about, and an undisturbed library is current;                       *)
(*   - activity: a reading answers with the newest events, and the pages   *)
(*     that show them settle on the active workspace;                      *)
(*   - documents: the chunks of a text or a sheet keep all of it.          *)
(***************************************************************************)
EXTENDS WebBrands, WebSettings, WebChat, WebKnowledge, WebActivity, DocumentChunks, SequenceTheorems, ListLemmas, TLAPS

-----------------------------------------------------------------------------
(***************************************************************************)
(* WebBrands, for any number of brands, spellings and steps of the user.   *)
(***************************************************************************)
BrandsSpec == BrandsInit /\ [][BrandsNext]_brandVars

Forms ==
  [pc : {"closed", "open", "posting", "answered", "refreshing"}, name : Names \cup {None},
   purpose : Purposes, result : {None, "invalid", "duplicate", "created", "failed"}]

(* A profile is written under the workspace that its name is sanitized to, *)
(* so that the directory which is there keeps every other name out.        *)
BrandInv ==
  /\ DOMAIN profiles = Workspaces
  /\ form \in Forms
  /\ form.pc = "posting" => form.name \in Names
  /\ \A b \in acknowledged : b.slug \in Workspaces /\ profiles[b.slug] = Profile(b.name, b.purpose)

LEMMA AcknowledgedAreWritten ==
  BrandInv => \A b \in acknowledged : b.slug \in Workspaces /\ profiles[b.slug].is = "written"
<1>1. \A name, purpose : Profile(name, purpose).is = "written"
  BY DEF Profile
<1> SUFFICES ASSUME BrandInv, NEW b \in acknowledged
             PROVE  b.slug \in Workspaces /\ profiles[b.slug].is = "written"
  OBVIOUS
<1>2. b.slug \in Workspaces /\ profiles[b.slug] = Profile(b.name, b.purpose)
  BY DEF BrandInv
<1> QED BY <1>1, <1>2, Zenon

(* A name that is not refused has a workspace with no directory yet, and   *)
(* this is nobody's that was acknowledged.                                 *)
LEMMA FreeSlug ==
  ASSUME BrandInv, NEW name \in Names, ~Refused(name)
  PROVE  /\ Slug(name) \in Workspaces /\ profiles[Slug(name)].is = "absent"
         /\ \A b \in acknowledged : b.slug # Slug(name)
<1>1. Slug(name) \in Workspaces
  BY DEF Refused, Slug, Names
<1>2. profiles[Slug(name)].is = "absent"
  BY <1>1 DEF Refused, Taken, Directories
<1> QED BY <1>1, <1>2, AcknowledgedAreWritten

LEMMA FormFacts ==
  /\ \A pc \in {"closed", "open", "answered"} : Form(pc) \in Forms /\ Form(pc).pc # "posting"
  /\ \A f \in Forms : \A pc \in {"closed", "open", "answered", "refreshing"} :
       [f EXCEPT !.pc = pc] \in Forms /\ [f EXCEPT !.pc = pc].pc # "posting"
  /\ \A f \in Forms : \A r \in {None, "invalid", "duplicate", "created", "failed"} :
       /\ [f EXCEPT !.pc = "answered", !.result = r] \in Forms
       /\ [f EXCEPT !.pc = "answered", !.result = r].pc # "posting"
BY DEF Form, Forms, Purposes

(* Steps that leave the server's side alone.                               *)
LEMMA ServerStays ==
  ASSUME BrandInv, UNCHANGED <<profiles, acknowledged>>,
         \/ form' = form
         \/ form' \in Forms /\ form'.pc # "posting"
         \/ form' \in Forms /\ form'.name \in Names
  PROVE  BrandInv'
BY DEF BrandInv, Profile

LEMMA VisitKeeps ==
  ASSUME BrandInv, NEW w \in Workspaces, Visit(w)
  PROVE  BrandInv'
<1>1. /\ profiles[w].is \in {"absent", "empty"} /\ UNCHANGED <<acknowledged, form>>
      /\ profiles' = [profiles EXCEPT ![w] = Loaded(w, <<w, "slug">>)]
  BY DEF Visit
<1>2. \A b \in acknowledged : b.slug # w
  BY <1>1, AcknowledgedAreWritten
<1>3. DOMAIN profiles' = Workspaces /\ \A v \in Workspaces \ {w} : profiles'[v] = profiles[v]
  BY <1>1 DEF BrandInv
<1> QED BY <1>1, <1>2, <1>3 DEF BrandInv, Profile

LEMMA CreateKeeps ==
  ASSUME BrandInv, CreateBrand
  PROVE  BrandInv'
<1>1. PICK name, slug : name = form.name /\ slug = Slug(name)
  OBVIOUS
<1>2. form \in Forms /\ name \in Names
  BY <1>1 DEF CreateBrand, BrandInv
<1>3. PICK r \in {None, "invalid", "duplicate", "created", "failed"} :
        form' = [form EXCEPT !.pc = "answered", !.result = r]
  BY DEF CreateBrand
<1>4. form' \in Forms /\ form'.pc # "posting"
  BY <1>2, <1>3, FormFacts
<1>5. CASE UNCHANGED <<profiles, acknowledged>>
  BY <1>4, <1>5, ServerStays
<1>6. CASE /\ ~Refused(name)
           /\ profiles' = [profiles EXCEPT ![slug] = WithPurpose(Loaded(slug, name), form.purpose)]
           /\ \/ acknowledged' = acknowledged
              \/ acknowledged' = acknowledged \cup {[slug |-> slug, name |-> name, purpose |-> form.purpose]}
  <2>1. slug \in Workspaces /\ profiles[slug].is = "absent" /\ \A b \in acknowledged : b.slug # slug
    BY <1>1, <1>2, <1>6, FreeSlug
  <2>2. WithPurpose(Loaded(slug, name), form.purpose) = Profile(name, form.purpose)
    BY <2>1 DEF Loaded, WithPurpose, Profile
  <2>3. /\ DOMAIN profiles' = Workspaces /\ profiles'[slug] = Profile(name, form.purpose)
        /\ \A v \in Workspaces \ {slug} : profiles'[v] = profiles[v]
    BY <1>6, <2>1, <2>2 DEF BrandInv
  <2>4. \A b \in acknowledged : b.slug \in Workspaces /\ profiles'[b.slug] = Profile(b.name, b.purpose)
    BY <2>1, <2>3 DEF BrandInv
  <2>5. \A b \in acknowledged' : b.slug \in Workspaces /\ profiles'[b.slug] = Profile(b.name, b.purpose)
    BY <1>6, <2>1, <2>3, <2>4
  <2> QED BY <1>4, <2>3, <2>5 DEF BrandInv, Profile
<1> QED BY <1>1, <1>5, <1>6 DEF CreateBrand

LEMMA CreateBreaksKeeps ==
  ASSUME BrandInv, CreateBreaks
  PROVE  BrandInv'
<1>1. PICK slug : slug = Slug(form.name)
  OBVIOUS
<1>2. /\ form \in Forms /\ slug \in Workspaces /\ \A b \in acknowledged : b.slug # slug
  BY <1>1, FreeSlug DEF CreateBreaks, BrandInv
<1>3. PICK left : profiles' = [profiles EXCEPT ![slug] = left]
  BY <1>1 DEF CreateBreaks
<1>4. /\ DOMAIN profiles' = Workspaces
      /\ \A v \in Workspaces \ {slug} : profiles'[v] = profiles[v]
  BY <1>2, <1>3 DEF BrandInv
<1>5. form' \in Forms /\ form'.pc # "posting" /\ acknowledged' = acknowledged
  BY <1>2, FormFacts DEF CreateBreaks
<1> QED BY <1>2, <1>4, <1>5 DEF BrandInv, Profile

LEMMA ListKeeps ==
  ASSUME BrandInv, NEW c, ListBrands(c)
  PROVE  BrandInv'
<1>1. UNCHANGED <<acknowledged, form>>
  BY DEF ListBrands
<1>2. CASE profiles' = profiles
  BY <1>1, <1>2, ServerStays
<1>3. CASE profiles' = [w \in Workspaces |-> IF w \in Directories THEN Loaded(w, <<w, "slug">>) ELSE profiles[w]]
  <2>1. \A w \in Workspaces : profiles[w].is = "written" => profiles'[w] = profiles[w]
    BY <1>3 DEF Loaded
  <2>2. \A b \in acknowledged : profiles'[b.slug] = profiles[b.slug]
    BY <2>1, AcknowledgedAreWritten
  <2> QED BY <1>1, <1>3, <2>2 DEF BrandInv, Profile
<1> QED BY <1>2, <1>3 DEF ListBrands

LEMMA BrandStepKeeps == BrandInv /\ [BrandsNext]_brandVars => BrandInv'
<1> SUFFICES ASSUME BrandInv, [BrandsNext]_brandVars PROVE BrandInv'
  OBVIOUS
<1>0. form \in Forms
  BY DEF BrandInv
<1>1. CASE GoTo_Brands \/ Dismiss \/ Switch_Brand \/ RetryBrands \/ UNCHANGED brandVars
  BY <1>1, ServerStays DEF GoTo_Brands, Dismiss, Switch_Brand, RetryBrands, Quiet, brandVars
<1>2. CASE OpenForm \/ CloseForm
  BY <1>0, <1>2, ServerStays, FormFacts DEF OpenForm, CloseForm, Quiet
<1>3. CASE Submit_Brand
  <2>1. PICK name \in Names, purpose \in Purposes :
          form' = [pc |-> "posting", name |-> name, purpose |-> purpose, result |-> None]
    BY <1>3 DEF Submit_Brand
  <2>2. form' \in Forms /\ form'.name \in Names
    BY <2>1 DEF Forms
  <2> QED BY <1>3, <2>2, ServerStays DEF Submit_Brand, Quiet
<1>4. CASE Created
  BY <1>0, <1>4, ServerStays, FormFacts DEF Created, Quiet
<1>5. ASSUME NEW c \in listings, FailListing(c) \/ HandleListing(c) PROVE BrandInv'
  <2>1. form' = form \/ (form' \in Forms /\ form'.pc # "posting")
    BY <1>5, FormFacts DEF FailListing, HandleListing, HandleMount, HandleForm, HandlePage
  <2> QED BY <1>5, <2>1, ServerStays DEF FailListing, HandleListing, Quiet
<1> QED BY <1>1, <1>2, <1>3, <1>4, <1>5, VisitKeeps, CreateKeeps, CreateBreaksKeeps, ListKeeps DEF BrandsNext

(* createBrand: the profile of an acknowledged brand stays what its form   *)
(* said, whatever other forms, visits, listings and failures there are.    *)
THEOREM BrandsStay == BrandsSpec => []AcknowledgedBrandsStay
<1>1. BrandsInit => BrandInv
  BY FormFacts DEF BrandsInit, BrandInv
<1>2. BrandInv => AcknowledgedBrandsStay
  BY DEF BrandInv, AcknowledgedBrandsStay
<1> QED BY <1>1, <1>2, BrandStepKeeps, PTL DEF BrandsSpec

(* Answers about the brands that do not overtake each other.               *)
Real == Directories \cup {General}
AsksPage(all) == \E c \in all : c.by = "page"

IsListing(c) ==
  c = [id |-> c.id, by |-> c.by, active |-> c.active, status |-> c.status, brands |-> c.brands]
IsPage(p) ==
  /\ p = [on |-> p.on, loading |-> p.loading, error |-> p.error,
          shown |-> p.shown, marked |-> p.marked, success |-> p.success]
  /\ p.on \in BOOLEAN /\ p.loading \in BOOLEAN /\ p.error \in BOOLEAN
IsCatalog(k) == k = [brands |-> k.brands, loaded |-> k.loaded, active |-> k.active]

Announced(f) == f.pc = "refreshing" \/ (f.pc = "answered" /\ f.result = "created")

(* What holds of answers that were overtaken as well: every brand known to *)
(* the page is one, and until the first catalog all is about one place.    *)
CatalogKnown ==
  /\ IsPage(brandsPage) /\ IsCatalog(catalog)
  /\ \A c \in listings : IsListing(c)
  /\ catalog.brands \subseteq Real
  /\ \A c \in listings : (c.status = "ok" => c.brands \subseteq Real)
  /\ (Announced(form) => Slug(form.name) \in Directories)
  /\ (catalog.active \notin Real =>
        brandsPage.marked = catalog.active /\ \A c \in listings : c.active = catalog.active)

(* A listing for the page is for the workspace it marks, unless one of the *)
(* two is no brand, and then the page is left, has failed or asked again.  *)
ListingFits(c, p, active, real) ==
  \/ c.active = p.marked
  \/ p.marked \notin real /\ (p.on => c.active = active)
  \/ c.active \notin real /\ (p.error \/ (~p.on /\ p.loading))

PageSettles(p, all, active, real) ==
  /\ ~Overlap(all)
  /\ (p.on /\ ~p.error /\ (p.loading \/ p.marked # active) => AsksPage(all))
  /\ (p.on /\ AsksPage(all) /\ p.marked # active => p.marked \notin real)
  /\ \A c \in all : (c.by = "page" => ListingFits(c, p, active, real))

CatalogCurrent(k, p, f, all, real) ==
  /\ \A c \in all : (c.status = "ok" => c.brands = real)
  /\ (k.loaded => k.active \in k.brands)
  /\ (p.success # None => p.success \in k.brands)
  /\ (f.pc = "refreshing" => \A c \in all : c.active = k.active \/ c.active \notin real)

SettleInv ==
  /\ CatalogKnown
  /\ (~stale =>
        /\ PageSettles(brandsPage, listings, catalog.active, Real)
        /\ CatalogCurrent(catalog, brandsPage, form, listings, Real)
        /\ catalog.active = chosen)

(* Directories are made and never taken away.                              *)
LEMMA DirectoryThere ==
  ASSUME BrandInv, NEW w \in Workspaces, NEW x, x.is # "absent", profiles' = [profiles EXCEPT ![w] = x]
  PROVE  Directories \subseteq Directories' /\ w \in Directories'
BY DEF BrandInv, Directories

(* What the server does to the brands, with no listing to overtake.        *)
LEMMA ServerSettles ==
  ASSUME SettleInv, listings' = listings, ServerOnly, Directories \subseteq Directories',
         ~stale' => ~stale /\ (Directories' = Directories \/ listings = {}),
         form' = form \/ (form'.pc = "answered" /\ (form'.result = "created" => Slug(form'.name) \in Directories'))
  PROVE  SettleInv'
<1>1. Real \subseteq Real'
  BY DEF Real
<1>2. Announced(form') => Slug(form'.name) \in Directories'
  BY DEF SettleInv, CatalogKnown, Announced
<1>3. CatalogKnown'
  BY <1>1, <1>2 DEF SettleInv, CatalogKnown, ServerOnly
<1>4. ASSUME ~stale', listings = {}
      PROVE  /\ PageSettles(brandsPage, listings, catalog.active, Real)'
             /\ CatalogCurrent(catalog, brandsPage, form, listings, Real)'
             /\ (catalog.active = chosen)'
  <2>1. ~stale
    BY <1>4
  <2>2. ~AsksPage(listings) /\ listings' = {}
    BY <1>4 DEF AsksPage
  <2> QED BY <2>1, <2>2, <1>4 DEF SettleInv, ServerOnly, PageSettles, CatalogCurrent, AsksPage, Overlap
<1>5. ASSUME ~stale', listings # {}
      PROVE  /\ PageSettles(brandsPage, listings, catalog.active, Real)'
             /\ CatalogCurrent(catalog, brandsPage, form, listings, Real)'
             /\ (catalog.active = chosen)'
  <2>1. ~stale /\ Real' = Real
    BY <1>5 DEF Real
  <2>2. form'.pc = "refreshing" => form' = form
    OBVIOUS
  <2>3. PageSettles(brandsPage, listings, catalog.active, Real)'
    BY <2>1, <1>5 DEF SettleInv, ServerOnly, PageSettles, AsksPage, Overlap, ListingFits
  <2> QED BY <2>1, <2>2, <2>3, <1>5 DEF SettleInv, ServerOnly, CatalogCurrent
<1> QED BY <1>3, <1>4, <1>5 DEF SettleInv

(* A listing that is answered, or fails.                                   *)
LEMMA AnswerSettles ==
  ASSUME SettleInv, ServerOnly, UNCHANGED <<form, stale>>, Directories' = Directories,
         NEW c \in listings, NEW d, IsListing(d), d.by = c.by, d.active = c.active,
         d.status = "ok" => d.brands = Real,
         listings' = (listings \ {c}) \cup {d}
  PROVE  SettleInv'
<1>1. Real' = Real
  BY DEF Real
<1>2. CatalogKnown'
  BY <1>1 DEF SettleInv, CatalogKnown, ServerOnly
<1>3. AsksPage(listings') <=> AsksPage(listings)
  BY DEF AsksPage
<1>4. Overlap(listings') => Overlap(listings)
  BY DEF Overlap
<1>5. ASSUME ~stale' PROVE PageSettles(brandsPage, listings, catalog.active, Real)'
  BY <1>1, <1>3, <1>4, <1>5 DEF SettleInv, ServerOnly, PageSettles, ListingFits
<1>6. ASSUME ~stale' PROVE CatalogCurrent(catalog, brandsPage, form, listings, Real)' /\ (catalog.active = chosen)'
  BY <1>1, <1>6 DEF SettleInv, ServerOnly, CatalogCurrent
<1> QED BY <1>2, <1>5, <1>6 DEF SettleInv

LEMMA VisitSettles ==
  ASSUME BrandInv, SettleInv, NEW w \in Workspaces, Visit(w)
  PROVE  SettleInv'
<1>1. PICK x : x = Loaded(w, <<w, "slug">>)
  OBVIOUS
<1>2. x.is # "absent"
  BY <1>1 DEF Loaded, Profile
<1>3. Directories \subseteq Directories'
  BY <1>1, <1>2, DirectoryThere DEF Visit
<1>4. ~stale' => ~stale /\ listings = {}
  BY DEF Visit
<1> QED BY <1>3, <1>4, ServerSettles DEF Visit, ServerOnly

LEMMA CreateSettles ==
  ASSUME BrandInv, SettleInv, CreateBrand
  PROVE  SettleInv'
<1>1. PICK slug : slug = Slug(form.name)
  OBVIOUS
<1>2. /\ form \in Forms /\ form.name \in Names /\ listings' = listings /\ ServerOnly
  BY DEF CreateBrand, BrandInv
<1>3. CASE Refused(form.name)
  <2>1. PICK code \in {"invalid", "duplicate"} : form' = [form EXCEPT !.pc = "answered", !.result = code]
    BY <1>3 DEF CreateBrand
  <2>2. form'.pc = "answered" /\ form'.result # "created"
    BY <2>1, <1>2 DEF Forms
  <2>3. UNCHANGED <<profiles, stale>>
    BY <1>3 DEF CreateBrand
  <2>4. Directories' = Directories
    BY <2>3 DEF Directories
  <2> QED BY <1>2, <2>2, <2>3, <2>4, ServerSettles
<1>4. CASE ~Refused(form.name)
  <2>1. PICK code \in {"created", "failed"} : form' = [form EXCEPT !.pc = "answered", !.result = code]
    BY <1>4 DEF CreateBrand
  <2>2. form'.pc = "answered" /\ form'.name = form.name
    BY <2>1, <1>2 DEF Forms
  <2>3. PICK x : x = WithPurpose(Loaded(slug, form.name), form.purpose)
    OBVIOUS
  <2>4. profiles' = [profiles EXCEPT ![slug] = x]
    BY <1>4, <1>1, <2>3 DEF CreateBrand
  <2>5. slug \in Workspaces /\ profiles[slug].is = "absent"
    BY <1>1, <1>2, <1>4, FreeSlug
  <2>6. x.is # "absent"
    BY <2>3, <2>5 DEF Loaded, Profile, WithPurpose
  <2>7. Directories \subseteq Directories' /\ slug \in Directories'
    BY <2>4, <2>5, <2>6, DirectoryThere
  <2>8. ~stale' => ~stale /\ listings = {}
    BY <1>4 DEF CreateBrand
  <2> QED BY <1>1, <1>2, <2>2, <2>7, <2>8, ServerSettles
<1> QED BY <1>3, <1>4

LEMMA CreateBreaksSettles ==
  ASSUME BrandInv, SettleInv, CreateBreaks
  PROVE  SettleInv'
<1>1. /\ form \in Forms /\ form.name \in Names /\ listings' = listings /\ ServerOnly /\ ~Refused(form.name)
  BY DEF CreateBreaks, BrandInv
<1>2. Slug(form.name) \in Workspaces
  BY <1>1, FreeSlug
<1>3. PICK left \in {Empty, Torn, Profile(form.name, "")} : profiles' = [profiles EXCEPT ![Slug(form.name)] = left]
  BY DEF CreateBreaks
<1>4. Empty.is # "absent" /\ Torn.is # "absent" /\ Profile(form.name, "").is # "absent"
  BY DEF Empty, Torn, Profile
<1>5. left.is # "absent"
  BY <1>4, <1>3, Zenon
<1>6. Directories \subseteq Directories'
  BY <1>2, <1>3, <1>5, DirectoryThere
<1>7. form' = [form EXCEPT !.pc = "answered", !.result = "failed"]
  BY DEF CreateBreaks
<1>8. form'.pc = "answered" /\ form'.result # "created"
  BY <1>1, <1>7 DEF Forms
<1>9. ~stale' => ~stale /\ listings = {}
  BY DEF CreateBreaks
<1> QED BY <1>1, <1>6, <1>8, <1>9, ServerSettles

LEMMA ListingAnswered ==
  ASSUME NEW c, IsListing(c), NEW d,
         \/ d = [c EXCEPT !.status = "failed"]
         \/ d = [c EXCEPT !.status = "ok", !.brands = Real]
  PROVE  IsListing(d) /\ d.by = c.by /\ d.active = c.active /\ (d.status = "ok" => d.brands = Real)
<1>1. PICK i, b, a, s, w : c = [id |-> i, by |-> b, active |-> a, status |-> s, brands |-> w]
  BY DEF IsListing
<1>2. CASE d = [c EXCEPT !.status = "failed"]
  <2>1. d = [id |-> i, by |-> b, active |-> a, status |-> "failed", brands |-> w]
    BY <1>1, <1>2
  <2> QED BY <1>1, <2>1 DEF IsListing
<1>3. CASE d = [c EXCEPT !.status = "ok", !.brands = Real]
  <2>1. d = [id |-> i, by |-> b, active |-> a, status |-> "ok", brands |-> Real]
    BY <1>1, <1>3
  <2> QED BY <1>1, <2>1 DEF IsListing
<1> QED BY <1>2, <1>3

LEMMA ListSettles ==
  ASSUME BrandInv, SettleInv, NEW c \in listings, ListBrands(c) \/ FailListing(c)
  PROVE  SettleInv'
<1>1. IsListing(c)
  BY DEF SettleInv, CatalogKnown
<1>2. CASE ListBrands(c) /\ profiles' = [w \in Workspaces |-> IF w \in Directories THEN Loaded(w, <<w, "slug">>) ELSE profiles[w]]
                        /\ listings' = (listings \ {c}) \cup {[c EXCEPT !.status = "ok", !.brands = Real]}
  <2>1. \A w \in Workspaces : profiles'[w].is # "absent" <=> w \in Directories
    BY <1>2 DEF Directories, Loaded, Profile
  <2>2. Directories' = Directories
    BY <2>1 DEF Directories
  <2>3. PICK d : d = [c EXCEPT !.status = "ok", !.brands = Real]
    OBVIOUS
  <2>4. IsListing(d) /\ d.by = c.by /\ d.active = c.active /\ (d.status = "ok" => d.brands = Real)
    BY <1>1, <2>3, ListingAnswered
  <2>5. listings' = (listings \ {c}) \cup {d}
    BY <1>2, <2>3
  <2> QED BY <1>2, <2>2, <2>4, <2>5, AnswerSettles DEF ListBrands, ServerOnly
<1>3. CASE (ListBrands(c) \/ FailListing(c)) /\ UNCHANGED profiles
           /\ listings' = (listings \ {c}) \cup {[c EXCEPT !.status = "failed"]}
  <2>1. Directories' = Directories
    BY <1>3 DEF Directories
  <2>2. PICK d : d = [c EXCEPT !.status = "failed"]
    OBVIOUS
  <2>3. IsListing(d) /\ d.by = c.by /\ d.active = c.active /\ (d.status = "ok" => d.brands = Real)
    BY <1>1, <2>2, ListingAnswered
  <2>4. listings' = (listings \ {c}) \cup {d}
    BY <1>3, <2>2
  <2> QED BY <1>3, <2>1, <2>3, <2>4, AnswerSettles DEF ListBrands, FailListing, ServerOnly
<1> QED BY <1>2, <1>3 DEF ListBrands, FailListing, Real

LEMMA AskingIs ==
  ASSUME NEW S, NEW by, NEW active
  PROVE  \E n : /\ Asking(S, by, active) = S \cup {n} /\ IsListing(n)
                /\ n.by = by /\ n.active = active /\ n.status = "awaited"
<1>1. PICK n : n = [id |-> Free(S), by |-> by, active |-> active, status |-> "awaited", brands |-> {}]
  OBVIOUS
<1>2. IsListing(n) /\ n.by = by /\ n.active = active /\ n.status = "awaited"
  BY <1>1 DEF IsListing
<1> QED BY <1>1, <1>2 DEF Asking

(* The page as steps edit it.                                              *)
TurnedPage(p, b) == [p EXCEPT !.on = b]
BanneredPage(p, s) == [p EXCEPT !.success = s]
AnsweredPage(p, h, a, e) == [p EXCEPT !.loading = FALSE, !.shown = h, !.marked = a, !.error = e]
FailedPage(p) == [p EXCEPT !.loading = FALSE, !.shown = {}, !.error = TRUE]

LEMMA LoadingIs ==
  ASSUME NEW a, IsPage(brandsPage)
  PROVE  LET q == LoadingBrands(a)
         IN  /\ IsPage(q) /\ q.on = brandsPage.on /\ q.loading /\ ~q.error
             /\ q.marked = a /\ q.success = brandsPage.success
<1>1. PICK o, l, r, h, m, u :
        /\ o \in BOOLEAN /\ l \in BOOLEAN /\ r \in BOOLEAN
        /\ brandsPage = [on |-> o, loading |-> l, error |-> r, shown |-> h, marked |-> m, success |-> u]
  BY DEF IsPage
<1>2. PICK q : q = LoadingBrands(a)
  OBVIOUS
<1>3. q = [on |-> o, loading |-> TRUE, error |-> FALSE, shown |-> h, marked |-> a, success |-> u]
  BY <1>1, <1>2 DEF LoadingBrands
<1>4. /\ IsPage(q) /\ q.on = brandsPage.on /\ q.loading /\ ~q.error
      /\ q.marked = a /\ q.success = brandsPage.success
  BY <1>1, <1>3 DEF IsPage
<1> QED BY <1>2, <1>4

LEMMA PageTurned ==
  ASSUME NEW p, IsPage(p), NEW q, NEW b \in BOOLEAN, q = TurnedPage(p, b)
  PROVE  /\ IsPage(q) /\ q.on = b /\ q.loading = p.loading /\ q.error = p.error
         /\ q.marked = p.marked /\ q.success = p.success
<1>1. PICK o, l, r, h, m, u :
        /\ o \in BOOLEAN /\ l \in BOOLEAN /\ r \in BOOLEAN
        /\ p = [on |-> o, loading |-> l, error |-> r, shown |-> h, marked |-> m, success |-> u]
  BY DEF IsPage
<1>2. q = [on |-> b, loading |-> l, error |-> r, shown |-> h, marked |-> m, success |-> u]
  BY <1>1 DEF TurnedPage
<1> QED BY <1>1, <1>2 DEF IsPage

LEMMA PageBannered ==
  ASSUME NEW p, IsPage(p), NEW q, NEW s, q = BanneredPage(p, s)
  PROVE  /\ IsPage(q) /\ q.on = p.on /\ q.loading = p.loading /\ q.error = p.error
         /\ q.marked = p.marked /\ q.success = s
<1>1. PICK o, l, r, h, m, u :
        /\ o \in BOOLEAN /\ l \in BOOLEAN /\ r \in BOOLEAN
        /\ p = [on |-> o, loading |-> l, error |-> r, shown |-> h, marked |-> m, success |-> u]
  BY DEF IsPage
<1>2. q = [on |-> o, loading |-> l, error |-> r, shown |-> h, marked |-> m, success |-> s]
  BY <1>1 DEF BanneredPage
<1> QED BY <1>1, <1>2 DEF IsPage

LEMMA PageAnswered ==
  ASSUME NEW p, IsPage(p), NEW q, NEW a, NEW h, NEW e \in BOOLEAN, q = AnsweredPage(p, h, a, e)
  PROVE  IsPage(q) /\ q.on = p.on /\ ~q.loading /\ q.error = e /\ q.marked = a /\ q.success = p.success
<1>1. PICK o, l, r, g, m, u :
        /\ o \in BOOLEAN /\ l \in BOOLEAN /\ r \in BOOLEAN
        /\ p = [on |-> o, loading |-> l, error |-> r, shown |-> g, marked |-> m, success |-> u]
  BY DEF IsPage
<1>2. q = [on |-> o, loading |-> FALSE, error |-> e, shown |-> h, marked |-> a, success |-> u]
  BY <1>1 DEF AnsweredPage
<1>3. q.on = o /\ q.loading = FALSE /\ q.error = e /\ q.shown = h /\ q.marked = a /\ q.success = u
  BY <1>2
<1>4. IsPage(q)
  BY <1>1, <1>2, <1>3 DEF IsPage
<1>5. p.on = o /\ p.success = u
  BY <1>1
<1> QED BY <1>3, <1>4, <1>5

LEMMA PageFailed ==
  ASSUME NEW p, IsPage(p), NEW q, q = FailedPage(p)
  PROVE  IsPage(q) /\ q.on = p.on /\ ~q.loading /\ q.error /\ q.marked = p.marked /\ q.success = p.success
<1>1. PICK o, l, r, g, m, u :
        /\ o \in BOOLEAN /\ l \in BOOLEAN /\ r \in BOOLEAN
        /\ p = [on |-> o, loading |-> l, error |-> r, shown |-> g, marked |-> m, success |-> u]
  BY DEF IsPage
<1>2. q = [on |-> o, loading |-> FALSE, error |-> TRUE, shown |-> {}, marked |-> m, success |-> u]
  BY <1>1 DEF FailedPage
<1>3. q.on = o /\ q.loading = FALSE /\ q.error = TRUE /\ q.shown = {} /\ q.marked = m /\ q.success = u
  BY <1>2
<1>4. IsPage(q)
  BY <1>1, <1>2, <1>3 DEF IsPage
<1>5. p.on = o /\ p.marked = m /\ p.success = u
  BY <1>1
<1> QED BY <1>3, <1>4, <1>5

(* What the client does to the brands it knows.                            *)
LEMMA KnownStays ==
  ASSUME SettleInv, UNCHANGED profiles, IsPage(brandsPage'), IsCatalog(catalog'), catalog'.brands \subseteq Real,
         \A c \in listings' : c \in listings \/ (IsListing(c) /\ c.active = catalog'.active /\ c.status # "ok"),
         Announced(form') => Slug(form'.name) \in Directories,
         \/ catalog'.active \in Real
         \/ catalog'.active = catalog.active /\ brandsPage'.marked \in {brandsPage.marked, catalog.active}
  PROVE  CatalogKnown' /\ Directories' = Directories /\ Real' = Real
<1>1. Directories' = Directories /\ Real' = Real
  BY DEF Directories, Real
<1> QED BY <1>1 DEF SettleInv, CatalogKnown

(* After a question about the workspace that the page marks, no answer is  *)
(* about another one.                                                      *)
LEMMA AskedSettles ==
  ASSUME NEW p, NEW all, NEW active, NEW real, ~Overlap(all), NEW n \in all, n.active = active,
         p.marked = active, n.by = "page" \/ ~p.on
  PROVE  PageSettles(p, all, active, real) /\ \A c \in all : c.active = active
<1>1. \A c \in all : c.active = active
  BY DEF Overlap
<1>2. p.on => AsksPage(all)
  BY DEF AsksPage
<1> QED BY <1>1, <1>2 DEF PageSettles, ListingFits

LEMMA SamePage ==
  ASSUME NEW p, NEW q, NEW all, NEW active, NEW real, PageSettles(p, all, active, real),
         q.on = p.on, q.loading = p.loading, q.error = p.error, q.marked = p.marked
  PROVE  PageSettles(q, all, active, real)
BY DEF PageSettles, ListingFits

(* A full render for a workspace.                                          *)
LEMMA RenderSettles ==
  ASSUME NEW a, NEW S, S \subseteq listings, PageSettles(brandsPage, listings, catalog.active, Real),
         \A c \in listings : c.by = "page" => c \in S,
         a \in Real \/ a = catalog.active,
         IsPage(brandsPage),
         ~Overlap(RenderedBrands(TRUE, a, S).asks)
  PROVE  PageSettles(RenderedBrands(TRUE, a, S).page, RenderedBrands(TRUE, a, S).asks, a, Real)
<1>1. CASE Reloads(TRUE, a)
  <2>1. PICK n : /\ Asking(S, "page", a) = S \cup {n} /\ n.by = "page" /\ n.active = a
    BY AskingIs
  <2>2. PICK p, all : p = LoadingBrands(a) /\ all = S \cup {n}
    OBVIOUS
  <2>3. RenderedBrands(TRUE, a, S).page = p /\ RenderedBrands(TRUE, a, S).asks = all
    BY <1>1, <2>1, <2>2 DEF RenderedBrands
  <2>4. p.marked = a
    BY <2>2, LoadingIs
  <2>5. n \in all /\ ~Overlap(all)
    BY <2>2, <2>3
  <2>6. PageSettles(p, all, a, Real)
    BY <2>1, <2>4, <2>5, AskedSettles
  <2> QED BY <2>3, <2>6
<1>2. CASE ~Reloads(TRUE, a)
  <2>1. RenderedBrands(TRUE, a, S).page = brandsPage /\ RenderedBrands(TRUE, a, S).asks = S
    BY <1>2 DEF RenderedBrands
  <2>2. brandsPage.on => brandsPage.marked = a /\ ~brandsPage.loading
    BY <1>2 DEF Reloads
  <2>3. ~Overlap(S)
    BY DEF PageSettles, Overlap
  <2>4. \A c \in S : c.by = "page" => ListingFits(c, brandsPage, a, Real)
    BY <2>2 DEF PageSettles, ListingFits
  <2>5. PageSettles(brandsPage, S, a, Real)
    BY <2>2, <2>3, <2>4 DEF PageSettles
  <2> QED BY <2>1, <2>5
<1> QED BY <1>1, <1>2

(* A question by the client that changes no catalog.                       *)
LEMMA AskSettles ==
  ASSUME SettleInv, UNCHANGED <<profiles, catalog, chosen>>, NEW by,
         listings' = Asking(listings, by, catalog.active),
         stale' = (stale \/ Overlap(listings')),
         IsPage(brandsPage'), brandsPage'.success = brandsPage.success,
         \/ by = "page" /\ brandsPage'.marked = catalog.active /\ form' = form
         \/ by = "form" /\ brandsPage' = brandsPage /\ Announced(form') /\ Slug(form'.name) \in Directories
  PROVE  SettleInv'
<1>1. PICK n : /\ listings' = listings \cup {n} /\ IsListing(n)
               /\ n.by = by /\ n.active = catalog.active /\ n.status = "awaited"
  BY AskingIs
<1>2. IsCatalog(catalog') /\ catalog'.brands \subseteq Real
  BY DEF SettleInv, CatalogKnown
<1>3. \A c \in listings' : c \in listings \/ (IsListing(c) /\ c.active = catalog'.active /\ c.status # "ok")
  BY <1>1
<1>4. Announced(form') => Slug(form'.name) \in Directories
  BY DEF SettleInv, CatalogKnown
<1>5. CatalogKnown' /\ Directories' = Directories /\ Real' = Real
  BY <1>2, <1>3, <1>4, KnownStays
<1>6. ASSUME ~stale' PROVE ~stale /\ ~Overlap(listings')
  BY <1>6
<1>7. ASSUME ~stale' PROVE \A c \in listings' : c.active = catalog.active
  BY <1>1, <1>6, <1>7 DEF Overlap
<1>8. ASSUME ~stale' PROVE PageSettles(brandsPage, listings, catalog.active, Real)'
  <2>1. PageSettles(brandsPage, listings, catalog.active, Real)
    BY <1>6, <1>8 DEF SettleInv
  <2>2. CASE by = "page" /\ brandsPage'.marked = catalog.active
    <3>1. PageSettles(brandsPage', listings', catalog.active, Real)
      BY <1>1, <1>6, <1>8, <2>2, AskedSettles
    <3> QED BY <3>1, <1>5
  <2>3. CASE by = "form" /\ brandsPage' = brandsPage
    <3>1. AsksPage(listings') <=> AsksPage(listings)
      BY <1>1, <2>3 DEF AsksPage
    <3> QED BY <1>1, <1>5, <1>6, <1>8, <2>1, <2>3, <3>1 DEF PageSettles
  <2> QED BY <2>2, <2>3
<1>9. ASSUME ~stale' PROVE CatalogCurrent(catalog, brandsPage, form, listings, Real)' /\ (catalog.active = chosen)'
  BY <1>1, <1>5, <1>6, <1>7, <1>9 DEF SettleInv, CatalogCurrent
<1> QED BY <1>5, <1>8, <1>9 DEF SettleInv

LEMMA GoToSettles ==
  ASSUME SettleInv, GoTo_Brands
  PROVE  SettleInv'
<1>1. /\ IsPage(brandsPage) /\ brandsPage.on \in BOOLEAN
      /\ UNCHANGED <<profiles, catalog, chosen, form>> /\ stale' = (stale \/ Overlap(listings'))
  BY DEF GoTo_Brands, Quiet, SettleInv, CatalogKnown, IsPage
<1>2. CASE ~brandsPage.on /\ (brandsPage.loading \/ brandsPage.marked # catalog.active)
  <2>1. /\ brandsPage' = [LoadingBrands(catalog.active) EXCEPT !.on = TRUE]
        /\ listings' = Asking(listings, "page", catalog.active)
    BY <1>2 DEF GoTo_Brands
  <2>2. PICK p : p = LoadingBrands(catalog.active)
    OBVIOUS
  <2>3. IsPage(p) /\ p.marked = catalog.active /\ p.success = brandsPage.success
    BY <1>1, <2>2, LoadingIs
  <2>4. brandsPage' = TurnedPage(p, TRUE)
    BY <2>1, <2>2 DEF TurnedPage
  <2>5. IsPage(brandsPage') /\ brandsPage'.marked = catalog.active /\ brandsPage'.success = brandsPage.success
    BY <2>3, <2>4, PageTurned
  <2> QED BY <1>1, <2>1, <2>5, AskSettles
<1>3. CASE brandsPage.on \/ ~(brandsPage.loading \/ brandsPage.marked # catalog.active)
  <2>1. brandsPage' = TurnedPage(brandsPage, ~brandsPage.on) /\ listings' = listings
    BY <1>3 DEF GoTo_Brands, TurnedPage
  <2>2. PICK b \in BOOLEAN : b = ~brandsPage.on
    OBVIOUS
  <2>3. /\ IsPage(brandsPage') /\ brandsPage'.on = b /\ brandsPage'.loading = brandsPage.loading
        /\ brandsPage'.error = brandsPage.error /\ brandsPage'.marked = brandsPage.marked
        /\ brandsPage'.success = brandsPage.success
    <3>1. brandsPage' = TurnedPage(brandsPage, b)
      BY <2>1, <2>2
    <3> QED BY <1>1, <3>1, PageTurned
  <2>4. CatalogKnown' /\ Directories' = Directories /\ Real' = Real
    BY <1>1, <2>1, <2>3, KnownStays DEF SettleInv, CatalogKnown
  <2>5. ASSUME ~stale' PROVE ~stale /\ ~Overlap(listings)
    BY <1>1, <2>1, <2>5
  <2>6. ASSUME ~stale' PROVE PageSettles(brandsPage, listings, catalog.active, Real)'
    <3>1. PageSettles(brandsPage, listings, catalog.active, Real)
      BY <2>5, <2>6 DEF SettleInv
    <3>2. \A c \in listings : c.by = "page" => ListingFits(c, brandsPage', catalog.active, Real)
      BY <3>1, <1>3, <2>2, <2>3 DEF PageSettles, ListingFits, SettleInv, CatalogKnown
    <3>3. brandsPage'.on => brandsPage'.marked = catalog.active /\ ~brandsPage'.loading
      BY <1>3, <2>2, <2>3
    <3> QED BY <1>1, <2>1, <2>4, <2>5, <2>6, <3>2, <3>3 DEF PageSettles
  <2>7. ASSUME ~stale' PROVE CatalogCurrent(catalog, brandsPage, form, listings, Real)' /\ (catalog.active = chosen)'
    BY <1>1, <2>1, <2>3, <2>4, <2>5, <2>7 DEF SettleInv, CatalogCurrent
  <2> QED BY <2>4, <2>6, <2>7 DEF SettleInv
<1> QED BY <1>2, <1>3

LEMMA RetrySettles ==
  ASSUME SettleInv, RetryBrands
  PROVE  SettleInv'
<1>1. /\ IsPage(brandsPage)
      /\ UNCHANGED <<profiles, catalog, chosen, form>> /\ stale' = (stale \/ Overlap(listings'))
      /\ brandsPage' = LoadingBrands(catalog.active)
      /\ listings' = Asking(listings, "page", catalog.active)
  BY DEF RetryBrands, Quiet, SettleInv, CatalogKnown
<1>2. IsPage(brandsPage') /\ brandsPage'.marked = catalog.active /\ brandsPage'.success = brandsPage.success
  BY <1>1, LoadingIs
<1> QED BY <1>1, <1>2, AskSettles

(* Steps that touch neither catalog nor listings: the form and the banner. *)
LEMMA AsideSettles ==
  ASSUME BrandInv, SettleInv, Dismiss \/ OpenForm \/ CloseForm \/ Submit_Brand \/ UNCHANGED brandVars
  PROVE  SettleInv'
<1>1. UNCHANGED <<profiles, catalog, chosen, listings, stale>>
  BY DEF Dismiss, OpenForm, CloseForm, Submit_Brand, Quiet, brandVars
<1>2. IsPage(brandsPage) /\ form \in Forms
  BY DEF SettleInv, CatalogKnown, BrandInv
<1>3. form' = form \/ form'.pc \in {"open", "closed", "posting"}
  BY <1>2 DEF Dismiss, OpenForm, CloseForm, Submit_Brand, brandVars, Forms
<1>4. brandsPage' = brandsPage \/ brandsPage' = BanneredPage(brandsPage, None)
  BY DEF Dismiss, OpenForm, CloseForm, Submit_Brand, brandVars, BanneredPage
<1>5. /\ IsPage(brandsPage') /\ brandsPage'.on = brandsPage.on /\ brandsPage'.loading = brandsPage.loading
      /\ brandsPage'.error = brandsPage.error /\ brandsPage'.marked = brandsPage.marked
      /\ brandsPage'.success \in {brandsPage.success, None}
  BY <1>2, <1>4, PageBannered
<1>6. Announced(form') => form' = form
  BY <1>3 DEF Announced
<1>7. CatalogKnown' /\ Directories' = Directories /\ Real' = Real
  BY <1>1, <1>5, <1>6, KnownStays DEF SettleInv, CatalogKnown
<1>8. ASSUME ~stale' PROVE PageSettles(brandsPage, listings, catalog.active, Real)'
  BY <1>1, <1>5, <1>7, <1>8, SamePage DEF SettleInv
<1>9. ASSUME ~stale' PROVE CatalogCurrent(catalog, brandsPage, form, listings, Real)' /\ (catalog.active = chosen)'
  BY <1>1, <1>3, <1>5, <1>7, <1>9 DEF SettleInv, CatalogCurrent
<1> QED BY <1>7, <1>8, <1>9 DEF SettleInv

LEMMA CreatedSettles ==
  ASSUME BrandInv, SettleInv, Created
  PROVE  SettleInv'
<1>1. /\ IsPage(brandsPage) /\ form \in Forms /\ form.pc = "answered"
      /\ UNCHANGED <<profiles, catalog, chosen, brandsPage>> /\ stale' = (stale \/ Overlap(listings'))
  BY DEF Created, Quiet, SettleInv, CatalogKnown, BrandInv
<1>2. CASE form.result = "created"
  <2>1. /\ listings' = Asking(listings, "form", catalog.active)
        /\ form' = [form EXCEPT !.pc = "refreshing"]
    BY <1>2 DEF Created
  <2>2. form'.pc = "refreshing" /\ form'.name = form.name
    BY <1>1, <2>1 DEF Forms
  <2>3. Announced(form') /\ Slug(form'.name) \in Directories
    BY <1>1, <1>2, <2>2 DEF Announced, SettleInv, CatalogKnown
  <2> QED BY <1>1, <2>1, <2>3, AskSettles
<1>3. CASE form.result # "created"
  <2>1. form' = Form("open") /\ listings' = listings
    BY <1>3 DEF Created
  <2>2. form'.pc = "open"
    BY <2>1 DEF Form
  <2>3. CatalogKnown' /\ Directories' = Directories /\ Real' = Real
    BY <1>1, <2>1, <2>2, KnownStays DEF SettleInv, CatalogKnown, Announced
  <2>4. ~stale' => ~stale
    BY <1>1
  <2> QED BY <1>1, <2>1, <2>2, <2>3, <2>4 DEF SettleInv, PageSettles, CatalogCurrent
<1> QED BY <1>2, <1>3

LEMMA SwitchSettles ==
  ASSUME BrandInv, SettleInv, Switch_Brand
  PROVE  SettleInv'
<1>1. PICK w, banner :
        /\ w \in catalog.brands \ {catalog.active}
        /\ catalog' = [catalog EXCEPT !.active = w]
        /\ chosen' = w
        /\ brandsPage' = [RenderedBrands(TRUE, w, listings).page EXCEPT !.success = IF @ = banner THEN None ELSE @]
        /\ listings' = RenderedBrands(TRUE, w, listings).asks
  BY DEF Switch_Brand
<1>2. /\ IsPage(brandsPage) /\ IsCatalog(catalog) /\ w \in Real
      /\ UNCHANGED <<profiles, form>> /\ stale' = (stale \/ Overlap(listings')) /\ form.pc = "closed"
  BY <1>1 DEF Switch_Brand, Quiet, SettleInv, CatalogKnown
<1>3. IsCatalog(catalog') /\ catalog'.active = w /\ catalog'.brands = catalog.brands
  <2>1. PICK b, l, a : catalog = [brands |-> b, loaded |-> l, active |-> a]
    BY <1>2 DEF IsCatalog
  <2>2. catalog' = [brands |-> b, loaded |-> l, active |-> w]
    BY <1>1, <2>1
  <2> QED BY <2>1, <2>2 DEF IsCatalog
<1>4. PICK p : p = RenderedBrands(TRUE, w, listings).page
  OBVIOUS
<1>5. IsPage(p) /\ p.success = brandsPage.success
  BY <1>2, <1>4, LoadingIs DEF RenderedBrands
<1>6. PICK s : s = IF p.success = banner THEN None ELSE p.success
  OBVIOUS
<1>7. brandsPage' = BanneredPage(p, s)
  BY <1>1, <1>4, <1>6 DEF BanneredPage
<1>8. /\ IsPage(brandsPage') /\ brandsPage'.on = p.on /\ brandsPage'.loading = p.loading
      /\ brandsPage'.error = p.error /\ brandsPage'.marked = p.marked
      /\ brandsPage'.success \in {brandsPage.success, None}
  BY <1>5, <1>6, <1>7, PageBannered
<1>9. \E n : /\ listings' \in {listings, listings \cup {n}}
             /\ IsListing(n) /\ n.active = w /\ n.status = "awaited"
  <2>1. PICK n : /\ Asking(listings, "page", w) = listings \cup {n} /\ IsListing(n)
                 /\ n.active = w /\ n.status = "awaited"
    BY AskingIs
  <2>2. listings' \in {listings, listings \cup {n}}
    BY <1>1, <2>1 DEF RenderedBrands
  <2> QED BY <2>1, <2>2
<1>10. \A c \in listings' : c \in listings \/ (IsListing(c) /\ c.active = catalog'.active /\ c.status # "ok")
  BY <1>3, <1>9
<1>11. ~Announced(form')
  BY <1>2 DEF Announced
<1>12. catalog'.brands \subseteq Real
  BY <1>3 DEF SettleInv, CatalogKnown
<1>13. CatalogKnown' /\ Directories' = Directories /\ Real' = Real
  BY <1>2, <1>3, <1>8, <1>10, <1>11, <1>12, KnownStays
<1>14. ASSUME ~stale' PROVE ~stale /\ ~Overlap(listings')
  BY <1>2, <1>14
<1>15. ASSUME ~stale' PROVE PageSettles(brandsPage, listings, catalog.active, Real)'
  <2>1. PageSettles(brandsPage, listings, catalog.active, Real)
    BY <1>14, <1>15 DEF SettleInv
  <2>2. ~Overlap(RenderedBrands(TRUE, w, listings).asks)
    BY <1>1, <1>14, <1>15
  <2>3. PageSettles(RenderedBrands(TRUE, w, listings).page, RenderedBrands(TRUE, w, listings).asks, w, Real)
    BY <1>2, <2>1, <2>2, RenderSettles
  <2>4. PageSettles(p, listings', w, Real)
    BY <1>1, <1>4, <2>3
  <2>5. PageSettles(brandsPage', listings', w, Real)
    BY <1>8, <2>4, SamePage
  <2> QED BY <1>3, <1>13, <2>5
<1>16. ASSUME ~stale' PROVE CatalogCurrent(catalog, brandsPage, form, listings, Real)' /\ (catalog.active = chosen)'
  <2>1. CatalogCurrent(catalog, brandsPage, form, listings, Real)
    BY <1>14, <1>16 DEF SettleInv
  <2>2. \A c \in listings' : c.status = "ok" => c.brands = Real
    BY <1>10, <2>1 DEF CatalogCurrent
  <2> QED BY <1>1, <1>2, <1>3, <1>8, <1>13, <2>1, <2>2 DEF CatalogCurrent
<1> QED BY <1>13, <1>15, <1>16 DEF SettleInv

(* What an answer makes of the catalog.                                    *)
LEMMA AnswerApplied ==
  ASSUME SettleInv, NEW c \in listings, UNCHANGED profiles,
         chosen' = IF chosen \in Directories \cup {General} THEN chosen ELSE catalog'.active,
         (c.status = "ok" /\ AppliesCatalog(c)) \/ (c.status # "ok" /\ UNCHANGED catalog)
  PROVE  /\ IsCatalog(catalog') /\ catalog'.brands \subseteq Real
         /\ (c.status = "ok" => catalog'.active \in Real)
         /\ (~stale =>
               /\ catalog'.active = chosen'
               /\ (catalog'.loaded => catalog'.active \in catalog'.brands)
               /\ (c.status = "ok" => catalog'.brands = Real)
               /\ (catalog'.active # catalog.active => catalog.active \notin Real /\ catalog'.active = General))
<1>1. CASE c.status = "ok" /\ AppliesCatalog(c)
  <2>1. PICK a : a = NextActive(c)
    OBVIOUS
  <2>2. catalog' = [brands |-> c.brands, loaded |-> TRUE, active |-> a]
    BY <1>1, <2>1 DEF AppliesCatalog
  <2>3. IsCatalog(catalog') /\ catalog'.brands = c.brands /\ catalog'.active = a
    BY <2>2 DEF IsCatalog
  <2>4. c.brands \subseteq Real /\ (~stale => c.brands = Real /\ catalog.active = chosen)
    BY <1>1 DEF SettleInv, CatalogKnown, CatalogCurrent
  <2>5. (catalog.active \in c.brands => a = catalog.active) /\ (catalog.active \notin c.brands => a = General)
    BY <2>1 DEF NextActive
  <2>6. General \in Real
    BY DEF Real
  <2>7. (chosen \in Real => chosen' = chosen) /\ (chosen \notin Real => chosen' = a)
    BY <2>3 DEF Real
  <2> QED BY <1>1, <2>3, <2>4, <2>5, <2>6, <2>7
<1>2. CASE c.status # "ok" /\ UNCHANGED catalog
  <2>1. chosen' \in {chosen, catalog.active}
    BY <1>2
  <2> QED BY <1>2, <2>1 DEF SettleInv, CatalogKnown, CatalogCurrent
<1> QED BY <1>1, <1>2

LEMMA MountSettles ==
  ASSUME SettleInv, NEW c \in listings, HandleListing(c), HandleMount(c)
  PROVE  SettleInv'
<1>1. UNCHANGED profiles /\ stale' = (stale \/ Overlap(listings'))
  BY DEF HandleListing, Quiet
<1>2. chosen' = IF chosen \in Directories \cup {General} THEN chosen ELSE catalog'.active
  BY DEF HandleListing
<1>3. c.by = "mount" /\ UNCHANGED form
  BY DEF HandleMount
<1>4. (c.status = "ok" /\ AppliesCatalog(c)) \/ (c.status # "ok" /\ UNCHANGED catalog)
  BY DEF HandleMount
<1>5. /\ c.by = "mount" /\ UNCHANGED <<profiles, form>> /\ stale' = (stale \/ Overlap(listings'))
      /\ chosen' = IF chosen \in Directories \cup {General} THEN chosen ELSE catalog'.active
      /\ (c.status = "ok" /\ AppliesCatalog(c)) \/ (c.status # "ok" /\ UNCHANGED catalog)
  BY <1>1, <1>2, <1>3, <1>4
<1>6. PICK a : a = catalog'.active
  OBVIOUS
<1>7. PICK S : S = listings \ {c}
  OBVIOUS
<1>8. brandsPage' = RenderedBrands(TRUE, a, S).page /\ listings' = RenderedBrands(TRUE, a, S).asks
  BY <1>6, <1>7 DEF HandleMount
<1>9. /\ IsCatalog(catalog') /\ catalog'.brands \subseteq Real
      /\ (c.status = "ok" => a \in Real)
      /\ (~stale =>
            /\ a = chosen'
            /\ (catalog'.loaded => a \in catalog'.brands)
            /\ (c.status = "ok" => catalog'.brands = Real)
            /\ (a # catalog.active => catalog.active \notin Real /\ a = General))
  BY <1>5, <1>6, AnswerApplied
<1>10. a = catalog.active \/ a \in Real
  BY <1>5, <1>6, <1>9
<1>11. IsPage(brandsPage)
  BY DEF SettleInv, CatalogKnown
<1>12. IsPage(brandsPage') /\ brandsPage'.success = brandsPage.success /\ brandsPage'.marked \in {brandsPage.marked, a}
  BY <1>8, <1>11, LoadingIs DEF RenderedBrands
<1>13. \E n : /\ listings' \in {S, S \cup {n}}
             /\ IsListing(n) /\ n.active = a /\ n.status = "awaited"
  <2>1. PICK n : /\ Asking(S, "page", a) = S \cup {n} /\ IsListing(n)
                 /\ n.active = a /\ n.status = "awaited"
    BY AskingIs
  <2>2. listings' \in {S, S \cup {n}}
    BY <1>8, <2>1 DEF RenderedBrands
  <2> QED BY <2>1, <2>2
<1>14. \A d \in listings' : d \in listings \/ (IsListing(d) /\ d.active = catalog'.active /\ d.status # "ok")
  BY <1>6, <1>7, <1>13
<1>15. Announced(form') => Slug(form'.name) \in Directories
  BY <1>5 DEF SettleInv, CatalogKnown
<1>16. CatalogKnown' /\ Directories' = Directories /\ Real' = Real
  BY <1>5, <1>6, <1>9, <1>10, <1>12, <1>14, <1>15, KnownStays
<1>17. ASSUME ~stale' PROVE ~stale /\ ~Overlap(listings')
  BY <1>5, <1>17
<1>18. ASSUME ~stale' PROVE PageSettles(brandsPage, listings, catalog.active, Real)'
  <2>1. PageSettles(brandsPage, listings, catalog.active, Real)
    BY <1>17, <1>18 DEF SettleInv
  <2>2. ~Overlap(RenderedBrands(TRUE, a, S).asks)
    BY <1>8, <1>17, <1>18
  <2>3. S \subseteq listings /\ \A d \in listings : d.by = "page" => d \in S
    BY <1>5, <1>7
  <2>4. PageSettles(RenderedBrands(TRUE, a, S).page, RenderedBrands(TRUE, a, S).asks, a, Real)
    BY <1>10, <1>11, <2>1, <2>2, <2>3, RenderSettles
  <2> QED BY <1>6, <1>8, <1>16, <2>4
<1>19. ASSUME ~stale' PROVE CatalogCurrent(catalog, brandsPage, form, listings, Real)' /\ (catalog.active = chosen)'
  <2>1. CatalogCurrent(catalog, brandsPage, form, listings, Real) /\ ~Overlap(listings')
    BY <1>17, <1>19 DEF SettleInv
  <2>2. \A d \in listings' : d.status = "ok" => d.brands = Real
    BY <1>14, <2>1 DEF CatalogCurrent
  <2>3. brandsPage'.success # None => brandsPage'.success \in catalog'.brands
    BY <1>5, <1>9, <1>12, <1>17, <1>19, <2>1 DEF CatalogCurrent, SettleInv, CatalogKnown
  <2>4. form'.pc = "refreshing" => \A d \in listings' : d.active = a \/ d.active \notin Real
    BY <1>5, <1>6, <1>9, <1>14, <1>17, <1>19, <2>1 DEF CatalogCurrent
  <2> QED BY <1>6, <1>9, <1>16, <1>17, <1>19, <2>2, <2>3, <2>4 DEF CatalogCurrent
<1> QED BY <1>16, <1>18, <1>19 DEF SettleInv

LEMMA FormSettles ==
  ASSUME BrandInv, SettleInv, NEW c \in listings, HandleListing(c), HandleForm(c)
  PROVE  SettleInv'
<1>1. /\ UNCHANGED profiles /\ stale' = (stale \/ Overlap(listings'))
      /\ c.by = "form" /\ form.pc = "refreshing"
  BY DEF HandleListing, HandleForm, Quiet
<1>2. chosen' = IF chosen \in Directories \cup {General} THEN chosen ELSE catalog'.active
  BY DEF HandleListing
<1>3. (c.status = "ok" /\ AppliesCatalog(c)) \/ (c.status # "ok" /\ UNCHANGED catalog)
  BY DEF HandleForm
<1>4. PICK a : a = catalog'.active
  OBVIOUS
<1>5. PICK S : S = listings \ {c}
  OBVIOUS
<1>6. /\ IsCatalog(catalog') /\ catalog'.brands \subseteq Real
      /\ (c.status = "ok" => a \in Real)
      /\ (~stale =>
            /\ a = chosen'
            /\ (catalog'.loaded => a \in catalog'.brands)
            /\ (c.status = "ok" => catalog'.brands = Real)
            /\ (a # catalog.active => catalog.active \notin Real /\ a = General))
  BY <1>1, <1>2, <1>3, <1>4, AnswerApplied
<1>7. IsPage(brandsPage) /\ brandsPage.on \in BOOLEAN /\ Slug(form.name) \in Directories
  BY <1>1 DEF SettleInv, CatalogKnown, IsPage, Announced
<1>8. ASSUME ~stale' PROVE ~stale /\ ~Overlap(listings')
  BY <1>1, <1>8
<1>9. CASE c.status # "ok"
  <2>1. form' = Form("open") /\ listings' = S /\ UNCHANGED <<brandsPage, catalog>>
    BY <1>9, <1>5 DEF HandleForm, Announces
  <2>2. form'.pc = "open" /\ ~Announced(form')
    BY <2>1 DEF Form, Announced
  <2>3. S \subseteq listings
    BY <1>5
  <2>4. CatalogKnown' /\ Directories' = Directories /\ Real' = Real
    BY <1>1, <1>6, <1>7, <2>1, <2>2, <2>3, KnownStays DEF SettleInv, CatalogKnown
  <2>5. AsksPage(S) <=> AsksPage(listings)
    BY <1>1, <1>5 DEF AsksPage
  <2>6. ASSUME ~stale' PROVE PageSettles(brandsPage, listings, catalog.active, Real)'
    <3>1. PageSettles(brandsPage, listings, catalog.active, Real)
      BY <1>8, <2>6 DEF SettleInv
    <3>2. PageSettles(brandsPage, S, catalog.active, Real)
      BY <1>8, <2>1, <2>3, <2>5, <2>6, <3>1 DEF PageSettles
    <3> QED BY <2>1, <2>4, <3>2
  <2>7. ASSUME ~stale' PROVE CatalogCurrent(catalog, brandsPage, form, listings, Real)' /\ (catalog.active = chosen)'
    BY <1>4, <1>6, <1>8, <2>1, <2>2, <2>3, <2>4, <2>7 DEF SettleInv, CatalogCurrent
  <2> QED BY <2>4, <2>6, <2>7 DEF SettleInv
<1>10. CASE c.status = "ok"
  <2>1. PICK p : p = LoadingBrands(a)
    OBVIOUS
  <2>2. IsPage(p) /\ p.on = brandsPage.on /\ p.loading /\ ~p.error /\ p.marked = a
    BY <1>7, <2>1, LoadingIs
  <2>3. form' = Form("closed") /\ brandsPage' = BanneredPage(p, Slug(form.name))
    BY <1>4, <1>10, <2>1 DEF HandleForm, Announces, BanneredPage
  <2>4. /\ IsPage(brandsPage') /\ brandsPage'.on = brandsPage.on /\ brandsPage'.loading
        /\ ~brandsPage'.error /\ brandsPage'.marked = a /\ brandsPage'.success = Slug(form.name)
    BY <2>2, <2>3, PageBannered
  <2>5. form'.pc = "closed" /\ ~Announced(form')
    BY <2>3 DEF Form, Announced
  <2>6. PICK m : /\ Asking(S, "page", a) = S \cup {m} /\ IsListing(m)
                 /\ m.by = "page" /\ m.active = a /\ m.status = "awaited"
    BY AskingIs
  <2>7. PICK T \in {S, S \cup {m}} : T = RenderedBrands(a # catalog.active, a, S).asks
    BY <2>6 DEF RenderedBrands
  <2>8. PICK n : /\ Asking(T, "page", a) = T \cup {n} /\ IsListing(n)
                 /\ n.by = "page" /\ n.active = a /\ n.status = "awaited"
    BY AskingIs
  <2>9. brandsPage.on => listings' = T \cup {n}
    BY <1>4, <1>5, <1>10, <2>7, <2>8 DEF HandleForm, Announces
  <2>10. ~brandsPage.on => listings' = S
    BY <1>4, <1>5, <1>10 DEF HandleForm, Announces, RenderedBrands, Reloads
  <2>11. \A d \in listings' : d \in listings \/ (IsListing(d) /\ d.active = catalog'.active /\ d.status # "ok")
    BY <1>4, <1>5, <2>6, <2>8, <2>9, <2>10
  <2>12. CatalogKnown' /\ Directories' = Directories /\ Real' = Real
    BY <1>1, <1>4, <1>6, <1>10, <2>4, <2>5, <2>11, KnownStays
  <2>13. ASSUME ~stale' PROVE PageSettles(brandsPage, listings, catalog.active, Real)'
    <3>1. CASE brandsPage.on
      <4>1. n \in listings'
        BY <2>9, <3>1
      <4>2. PageSettles(brandsPage', listings', a, Real)
        BY <1>8, <2>4, <2>8, <2>13, <4>1, AskedSettles
      <4> QED BY <1>4, <2>12, <4>2
    <3>2. CASE ~brandsPage.on
      <4>1. CatalogCurrent(catalog, brandsPage, form, listings, Real)
        BY <1>8, <2>13 DEF SettleInv
      <4>2. \A d \in S : d.active = catalog.active \/ d.active \notin Real
        BY <1>1, <1>5, <4>1 DEF CatalogCurrent
      <4>3. \A d \in S : d.active = a \/ d.active \notin Real
        BY <1>6, <1>8, <2>13, <4>2
      <4>4. \A d \in S : ListingFits(d, brandsPage', a, Real)
        BY <2>4, <3>2, <4>3 DEF ListingFits
      <4>5. ~Overlap(S)
        BY <1>8, <2>10, <2>13, <3>2
      <4>6. PageSettles(brandsPage', S, a, Real)
        BY <2>4, <3>2, <4>4, <4>5 DEF PageSettles
      <4> QED BY <1>4, <2>10, <2>12, <3>2, <4>6
    <3> QED BY <3>1, <3>2
  <2>14. ASSUME ~stale' PROVE CatalogCurrent(catalog, brandsPage, form, listings, Real)' /\ (catalog.active = chosen)'
    <3>1. CatalogCurrent(catalog, brandsPage, form, listings, Real)
      BY <1>8, <2>14 DEF SettleInv
    <3>2. \A d \in listings' : d.status = "ok" => d.brands = Real
      BY <2>11, <3>1 DEF CatalogCurrent
    <3>3. brandsPage'.success \in catalog'.brands
      BY <1>6, <1>7, <1>8, <1>10, <2>4, <2>14 DEF Real
    <3> QED BY <1>4, <1>6, <1>8, <2>5, <2>12, <2>14, <3>2, <3>3 DEF CatalogCurrent
  <2> QED BY <2>12, <2>13, <2>14 DEF SettleInv
<1> QED BY <1>9, <1>10

LEMMA PageHandled ==
  ASSUME SettleInv, NEW c \in listings, HandleListing(c), HandlePage(c)
  PROVE  SettleInv'
<1>1. /\ UNCHANGED <<profiles, form>> /\ stale' = (stale \/ Overlap(listings')) /\ c.by = "page"
  BY DEF HandleListing, HandlePage, Quiet
<1>2. chosen' = IF chosen \in Directories \cup {General} THEN chosen ELSE catalog'.active
  BY DEF HandleListing
<1>3. (c.status = "ok" /\ AppliesCatalog(c)) \/ (c.status # "ok" /\ UNCHANGED catalog)
  BY DEF HandlePage
<1>4. PICK a : a = catalog'.active
  OBVIOUS
<1>5. PICK S : S = listings \ {c}
  OBVIOUS
<1>6. /\ IsCatalog(catalog') /\ catalog'.brands \subseteq Real
      /\ (c.status = "ok" => a \in Real)
      /\ (~stale =>
            /\ a = chosen'
            /\ (catalog'.loaded => a \in catalog'.brands)
            /\ (c.status = "ok" => catalog'.brands = Real)
            /\ (a # catalog.active => catalog.active \notin Real /\ a = General))
  BY <1>1, <1>2, <1>3, <1>4, AnswerApplied
<1>7. IsPage(brandsPage) /\ brandsPage.on \in BOOLEAN /\ brandsPage.error \in BOOLEAN
  BY DEF SettleInv, CatalogKnown, IsPage
<1>8. ASSUME ~stale' PROVE ~stale /\ ~Overlap(listings')
  BY <1>1, <1>8
<1>9. Announced(form') => Slug(form'.name) \in Directories
  BY <1>1 DEF SettleInv, CatalogKnown
<1>10. ASSUME ~stale'
       PROVE  /\ PageSettles(brandsPage, listings, catalog.active, Real)
              /\ CatalogCurrent(catalog, brandsPage, form, listings, Real)
              /\ AsksPage(listings) /\ ListingFits(c, brandsPage, catalog.active, Real)
              /\ \A d \in S : d.active = c.active
  BY <1>1, <1>5, <1>8, <1>10 DEF SettleInv, AsksPage, PageSettles, Overlap
<1>11. CASE c.status # "ok"
  <2>1. brandsPage' = FailedPage(brandsPage) /\ listings' = S /\ UNCHANGED catalog
    BY <1>5, <1>11 DEF HandlePage, FailedPage
  <2>2. /\ IsPage(brandsPage') /\ brandsPage'.on = brandsPage.on /\ ~brandsPage'.loading /\ brandsPage'.error
        /\ brandsPage'.marked = brandsPage.marked /\ brandsPage'.success = brandsPage.success
    BY <1>7, <2>1, PageFailed
  <2>3. S \subseteq listings
    BY <1>5
  <2>4. CatalogKnown' /\ Directories' = Directories /\ Real' = Real
    BY <1>1, <1>6, <1>9, <2>1, <2>2, <2>3, KnownStays DEF SettleInv, CatalogKnown
  <2>5. ASSUME ~stale' PROVE PageSettles(brandsPage, listings, catalog.active, Real)'
    <3>1. \A d \in S : d.by = "page" => ListingFits(d, brandsPage', catalog.active, Real)
      BY <1>10, <2>2, <2>3, <2>5 DEF PageSettles, ListingFits
    <3>2. PageSettles(brandsPage', S, catalog.active, Real)
      BY <1>8, <1>10, <2>1, <2>2, <2>5, <3>1 DEF PageSettles
    <3> QED BY <2>1, <2>4, <3>2
  <2>6. ASSUME ~stale' PROVE CatalogCurrent(catalog, brandsPage, form, listings, Real)' /\ (catalog.active = chosen)'
    BY <1>1, <1>4, <1>6, <1>8, <1>10, <2>1, <2>2, <2>3, <2>4, <2>6 DEF CatalogCurrent
  <2> QED BY <2>4, <2>5, <2>6 DEF SettleInv
<1>12. CASE c.status = "ok"
  <2>1. PICK r \in BOOLEAN : r <=> Reloads(a # catalog.active, a)
    OBVIOUS
  <2>2. PICK e \in BOOLEAN : (r => ~e) /\ (~r => e = brandsPage.error)
    BY <1>7, <2>1
  <2>3. e = IF Reloads(a # catalog.active, a) THEN FALSE ELSE brandsPage.error
    BY <2>1, <2>2
  <2>4. brandsPage' = AnsweredPage(brandsPage, c.brands, c.active, e)
    BY <1>4, <1>12, <2>3 DEF HandlePage, AnsweredPage
  <2>5. /\ IsPage(brandsPage') /\ brandsPage'.on = brandsPage.on /\ ~brandsPage'.loading /\ brandsPage'.error = e
        /\ brandsPage'.marked = c.active /\ brandsPage'.success = brandsPage.success
    BY <1>7, <2>4, PageAnswered
  <2>6. PICK n : /\ Asking(S, "page", a) = S \cup {n} /\ IsListing(n)
                 /\ n.by = "page" /\ n.active = a /\ n.status = "awaited"
    BY AskingIs
  <2>7. (r => listings' = S \cup {n}) /\ (~r => listings' = S)
    BY <1>4, <1>5, <1>12, <2>1, <2>6 DEF HandlePage, RenderedBrands
  <2>8. \A d \in listings' : d \in listings \/ (IsListing(d) /\ d.active = catalog'.active /\ d.status # "ok")
    BY <1>4, <1>5, <2>6, <2>7
  <2>9. CatalogKnown' /\ Directories' = Directories /\ Real' = Real
    BY <1>1, <1>4, <1>6, <1>9, <1>12, <2>5, <2>8, KnownStays
  <2>10. ASSUME ~stale', brandsPage.on PROVE c.active = a \/ c.active \notin Real
    BY <1>6, <1>8, <1>10, <2>10 DEF PageSettles, ListingFits
  <2>11. ASSUME ~stale' PROVE PageSettles(brandsPage, listings, catalog.active, Real)'
    <3>1. CASE r
      <4>1. brandsPage.on
        BY <2>1, <3>1 DEF Reloads
      <4>2. n \in listings' /\ ~Overlap(listings')
        BY <1>8, <2>7, <2>11, <3>1
      <4>3. \A d \in listings' : d.active = a
        BY <2>6, <4>2 DEF Overlap
      <4>4. \A d \in listings' : ListingFits(d, brandsPage', a, Real)
        BY <2>5, <2>10, <2>11, <4>1, <4>3 DEF ListingFits
      <4>5. AsksPage(listings')
        BY <2>6, <4>2 DEF AsksPage
      <4>6. PageSettles(brandsPage', listings', a, Real)
        BY <2>5, <2>10, <2>11, <4>1, <4>2, <4>4, <4>5 DEF PageSettles
      <4> QED BY <1>4, <2>9, <4>6
    <3>2. CASE ~r
      <4>1. listings' = S /\ e = brandsPage.error /\ (brandsPage.on => brandsPage.marked = a)
        BY <2>1, <2>2, <2>7, <3>2 DEF Reloads
      <4>2. \A d \in S : ListingFits(d, brandsPage', a, Real)
        BY <1>10, <2>5, <2>11 DEF ListingFits
      <4>3. brandsPage.on /\ ~brandsPage.error => c.active = a
        BY <1>6, <1>10, <1>12, <2>11, <4>1 DEF ListingFits
      <4>4. PageSettles(brandsPage', S, a, Real)
        BY <1>8, <2>5, <2>10, <2>11, <4>1, <4>2, <4>3 DEF PageSettles
      <4> QED BY <1>4, <2>9, <4>1, <4>4
    <3> QED BY <3>1, <3>2
  <2>12. ASSUME ~stale' PROVE CatalogCurrent(catalog, brandsPage, form, listings, Real)' /\ (catalog.active = chosen)'
    <3>1. \A d \in listings' : d.status = "ok" => d.brands = Real
      BY <1>10, <2>8, <2>12 DEF CatalogCurrent
    <3>2. brandsPage'.success # None => brandsPage'.success \in catalog'.brands
      BY <1>6, <1>8, <1>10, <1>12, <2>5, <2>12 DEF CatalogCurrent, SettleInv, CatalogKnown
    <3>3. form'.pc = "refreshing" => \A d \in listings' : d.active = a \/ d.active \notin Real
      BY <1>1, <1>4, <1>6, <1>8, <1>10, <2>8, <2>12 DEF CatalogCurrent
    <3> QED BY <1>4, <1>6, <1>8, <2>9, <2>12, <3>1, <3>2, <3>3 DEF CatalogCurrent
  <2> QED BY <2>9, <2>11, <2>12 DEF SettleInv
<1> QED BY <1>11, <1>12

LEMMA SettleInitially == BrandsInit => SettleInv
<1> SUFFICES ASSUME BrandsInit PROVE SettleInv
  OBVIOUS
<1>1. PICK w : /\ catalog = [brands |-> {}, loaded |-> FALSE, active |-> w]
               /\ chosen = w
               /\ listings = Asking({}, "mount", w)
               /\ brandsPage = [on |-> FALSE, loading |-> TRUE, error |-> FALSE,
                                shown |-> {}, marked |-> w, success |-> None]
  BY DEF BrandsInit
<1>2. PICK n : /\ listings = {n} /\ IsListing(n) /\ n.by = "mount" /\ n.active = w /\ n.status = "awaited"
  <2>1. PICK n : /\ Asking({}, "mount", w) = {} \cup {n} /\ IsListing(n)
                 /\ n.by = "mount" /\ n.active = w /\ n.status = "awaited"
    BY AskingIs
  <2> QED BY <1>1, <2>1
<1>3. IsPage(brandsPage) /\ ~brandsPage.on /\ brandsPage.marked = w /\ brandsPage.success = None
  BY <1>1 DEF IsPage
<1>4. IsCatalog(catalog) /\ catalog.active = w /\ catalog.brands = {} /\ ~catalog.loaded
  BY <1>1 DEF IsCatalog
<1>5. form.pc = "closed"
  BY DEF BrandsInit, Form
<1>6. CatalogKnown
  BY <1>2, <1>3, <1>4, <1>5 DEF CatalogKnown, Announced
<1>7. PageSettles(brandsPage, listings, catalog.active, Real)
  BY <1>2, <1>3, <1>4 DEF PageSettles, Overlap, ListingFits
<1>8. CatalogCurrent(catalog, brandsPage, form, listings, Real)
  BY <1>2, <1>3, <1>4, <1>5 DEF CatalogCurrent
<1> QED BY <1>1, <1>4, <1>6, <1>7, <1>8 DEF SettleInv

LEMMA SettleStep == BrandInv /\ SettleInv /\ [BrandsNext]_brandVars => SettleInv'
<1> SUFFICES ASSUME BrandInv, SettleInv, [BrandsNext]_brandVars PROVE SettleInv'
  OBVIOUS
<1>1. ASSUME NEW c \in listings, HandleListing(c) PROVE SettleInv'
  BY <1>1, MountSettles, FormSettles, PageHandled DEF HandleListing
<1> QED BY <1>1, VisitSettles, CreateSettles, CreateBreaksSettles, ListSettles, GoToSettles, RetrySettles,
           AsideSettles, CreatedSettles, SwitchSettles DEF BrandsNext

(* loadBrands, applyBrandCatalog, switchWorkspace and submitCreateForm:    *)
(* unless answers overtake each other, the active workspace is the chosen  *)
(* one, and a page that waits for nothing marks it and offers what is      *)
(* there.                                                                  *)
THEOREM CatalogStaysSettled == BrandsSpec => []CatalogSettles
<1>1. BrandsInit => BrandInv
  BY FormFacts DEF BrandsInit, BrandInv
<1>2. SettleInv => CatalogSettles
  BY DEF SettleInv, PageSettles, CatalogCurrent, AsksPage, CatalogSettles
<1> QED BY <1>1, <1>2, BrandStepKeeps, SettleInitially, SettleStep, PTL DEF BrandsSpec

-----------------------------------------------------------------------------
(***************************************************************************)
(* WebSettings, for any number of tabs, base URLs and requests.            *)
(***************************************************************************)
SettingsSpec == SettingsInit /\ [][SettingsNext]_settingsVars

(* A configuration with no other key than the one typed for its endpoint.  *)
Good(config) == config = None \/ (config \in Configs /\ config.key \in {None, Endpoint(config)})

(* A request asks with the key that was typed for its form, or with none.  *)
Typed(r) ==
  /\ r = [tab |-> r.tab, kind |-> r.kind, form |-> r.form, key |-> r.key, answer |-> r.answer, view |-> r.view]
  /\ r.kind \in {"save", "test"} => r.form \in Endpoints /\ r.key \in {None, r.form}

SettingsInv ==
  /\ Good(env) /\ Good(file)
  /\ client \in {None, Effective}
  /\ ~strayed
  /\ \A r \in requests : Typed(r)

LEMMA EndpointFacts ==
  ASSUME NEW e \in Endpoints
  PROVE  /\ e \in Places /\ e.provider \in Providers /\ e.url \in Urls \cup {None}
         /\ e # None /\ e # Rejected /\ e = [provider |-> e.provider, url |-> e.url]
         /\ UsesBaseUrl(e.provider) <=> e.url # None
<1>1. e \in Places /\ ((e.url # None) = UsesBaseUrl(e.provider))
  BY DEF Endpoints, Places
<1>2. e.provider \in Providers /\ e.url \in Urls \cup {None} /\ e = [provider |-> e.provider, url |-> e.url]
  BY <1>1 DEF Places
<1>3. e # None /\ e # Rejected
  BY <1>1, SettingsNone
<1> QED BY <1>1, <1>2, <1>3 DEF UsesBaseUrl

LEMMA ConfigFacts ==
  ASSUME NEW e \in Places, NEW key \in {None, e}
  PROVE  /\ Config(e, key) # None /\ Good(Config(e, key)) /\ Config(e, key).key = key
         /\ Endpoint(Config(e, key)) = e
<1>1. PICK c : c = Config(e, key)
  OBVIOUS
<1>2. c.provider = e.provider /\ c.url = e.url /\ c.key = key
  BY <1>1 DEF Config
<1>3. e.provider \in Providers /\ e.url \in Urls \cup {None} /\ e = [provider |-> e.provider, url |-> e.url]
  BY DEF Places
<1>4. c \in Configs
  BY <1>1, <1>3 DEF Config, Configs
<1>5. Endpoint(c) = e
  BY <1>2, <1>3 DEF Endpoint
<1> QED BY <1>1, <1>2, <1>4, <1>5, SettingsNone DEF Good

(* resolveApiKeyForInput gives nobody the key of another endpoint.         *)
LEMMA KeyForIsTyped ==
  ASSUME NEW f \in Endpoints, NEW key \in {None, f}, Good(Effective)
  PROVE  KeyFor(f, key) \in {None, f, Rejected}
<1>1. CASE key # None
  BY <1>1 DEF KeyFor
<1>2. CASE key = None /\ SameEndpoint(Effective, f) /\ Effective.key # None
  <2>1. PICK c : c = Effective
    OBVIOUS
  <2>2. c.key = Endpoint(c) /\ c.provider = f.provider /\ c.url = f.url
    BY <1>2, <2>1 DEF Good, SameEndpoint
  <2>3. c.key = f
    BY <2>2, EndpointFacts DEF Endpoint
  <2> QED BY <1>2, <2>1, <2>3 DEF KeyFor
<1>3. CASE key = None /\ ~(SameEndpoint(Effective, f) /\ Effective.key # None)
  BY <1>3 DEF KeyFor
<1> QED BY <1>1, <1>2, <1>3

LEMMA SettingsInitHolds == SettingsInit => SettingsInv
<1> SUFFICES ASSUME SettingsInit PROVE SettingsInv
  OBVIOUS
<1>1. Good(env)
  <2>1. CASE env = None
    BY <2>1 DEF Good
  <2>2. CASE \E e \in Endpoints \cup [provider : {"anthropic"}, url : Urls] : env = Config(e, e)
    <3>1. PICK e \in Endpoints \cup [provider : {"anthropic"}, url : Urls] : env = Config(e, e)
      BY <2>2
    <3>2. e \in Places
      BY EndpointFacts DEF Places, Providers
    <3> QED BY <3>1, <3>2, ConfigFacts
  <2> QED BY <2>1, <2>2 DEF SettingsInit, Environments
<1> QED BY <1>1 DEF SettingsInit, SettingsInv, Good

LEMMA EffectiveIsGood == Good(env) /\ Good(file) => Good(Effective)
BY DEF Effective, InForce

LEMMA ServeSettingsKeeps == ASSUME SettingsInv, NEW r \in requests, ServeSettings(r) PROVE SettingsInv'
<1>1. PICK key, answer, view : /\ key = (IF r.kind \in {"save", "test"} THEN KeyFor(r.form, r.key) ELSE None)
                               /\ Does(r, key)
                               /\ requests' = (requests \ {r}) \cup {[r EXCEPT !.answer = answer, !.view = view]}
  <2>1. PICK answer \in {"ok", "failed"} :
          LET key == IF r.kind \in {"save", "test"} THEN KeyFor(r.form, r.key) ELSE None
          IN  /\ Does(r, key)
              /\ requests' = (requests \ {r}) \cup
                   {[r EXCEPT !.answer = IF key = Rejected THEN "failed" ELSE answer, !.view = View(InForce(file'))]}
    BY DEF ServeSettings
  <2> QED BY <2>1
<1>2. env' = env
  BY DEF ServeSettings
<1>3. Typed(r) /\ Good(Effective)
  BY EffectiveIsGood DEF SettingsInv
<1>4. r.kind \in {"save", "test"} => r.form \in Endpoints /\ key \in {None, r.form, Rejected}
  BY <1>1, <1>3, KeyForIsTyped DEF Typed
<1>5. \A q \in requests' : Typed(q)
  <2>1. PICK q : q = [r EXCEPT !.answer = answer, !.view = view]
    OBVIOUS
  <2>2. /\ q = [tab |-> r.tab, kind |-> r.kind, form |-> r.form, key |-> r.key, answer |-> answer, view |-> view]
        /\ q.kind = r.kind /\ q.form = r.form /\ q.key = r.key
    BY <1>3, <2>1 DEF Typed
  <2>3. Typed(q)
    BY <1>3, <2>2 DEF Typed
  <2> QED BY <1>1, <2>1, <2>3 DEF SettingsInv
<1>6. CASE UNCHANGED <<file, client, strayed>>
  BY <1>2, <1>5, <1>6 DEF SettingsInv, Effective, InForce
<1>7. CASE file' = None /\ client' = None /\ UNCHANGED strayed
  BY <1>2, <1>5, <1>7 DEF SettingsInv, Good
<1>8. CASE r.kind = "save" /\ key # Rejected /\ file' = Config(r.form, key) /\ client' = None /\ UNCHANGED strayed
  <2>1. r.form \in Places /\ key \in {None, r.form}
    BY <1>4, <1>8, EndpointFacts
  <2>2. Good(file')
    BY <1>8, <2>1, ConfigFacts
  <2> QED BY <1>2, <1>5, <1>8, <2>2 DEF SettingsInv
<1>9. CASE r.kind = "test" /\ key # Rejected /\ Sends(r.form, key) /\ UNCHANGED <<file, client>>
  <2>1. key \in {None, r.form}
    BY <1>4, <1>9
  <2>2. ~strayed'
    BY <1>9, <2>1 DEF Sends, SettingsInv
  <2> QED BY <1>2, <1>5, <1>9, <2>2 DEF SettingsInv, Effective, InForce
<1> QED BY <1>1, <1>6, <1>7, <1>8, <1>9 DEF Does, ResetClients

LEMMA SettingsStep == SettingsInv /\ [SettingsNext]_settingsVars => SettingsInv'
<1> SUFFICES ASSUME SettingsInv, [SettingsNext]_settingsVars PROVE SettingsInv'
  OBVIOUS
<1>1. ASSUME UNCHANGED <<env, file, client, strayed>>, \A r \in requests' \ requests : Typed(r) PROVE SettingsInv'
  BY <1>1 DEF SettingsInv, Effective, InForce
<1>2. \A t, kind, f, key : (kind \in {"save", "test"} => f \in Endpoints /\ key \in {None, f})
        => Typed(SettingsRequest(t, kind, f, key))
  BY DEF SettingsRequest, Typed
<1>9. ASSUME NEW r, Typed(r), UNCHANGED <<env, file, client, strayed>>, requests' = requests \cup {r} PROVE SettingsInv'
  BY <1>1, <1>9
<1>3. ASSUME NEW t \in Tabs, OpenPage(t) \/ Submit(t) PROVE SettingsInv'
  <2>1. CASE OpenPage(t)
    <3>1. Typed(SettingsRequest(t, "load", None, None))
      BY <1>2
    <3> QED BY <1>9, <2>1, <3>1 DEF OpenPage, Make
  <2>2. CASE Submit(t)
    <3>1. PICK kind \in {"test", "save", "reset"}, f \in Endpoints : \E key \in {None, f} :
            requests' = requests \cup {SettingsRequest(t, kind, f, key)}
      BY <2>2 DEF Submit, Make
    <3>2. \A key \in {None, f} : Typed(SettingsRequest(t, kind, f, key))
      BY <1>2
    <3> QED BY <1>9, <2>2, <3>1, <3>2 DEF Submit
  <2> QED BY <1>3, <2>1, <2>2
<1>4. ASSUME NEW r \in requests, LoseSettings(r) PROVE SettingsInv'
  <2>1. Typed(r)
    BY DEF SettingsInv
  <2>2. PICK q : q = [r EXCEPT !.answer = "failed"]
    OBVIOUS
  <2>3. /\ q = [tab |-> r.tab, kind |-> r.kind, form |-> r.form, key |-> r.key, answer |-> "failed", view |-> r.view]
        /\ q.kind = r.kind /\ q.form = r.form /\ q.key = r.key
    BY <2>1, <2>2 DEF Typed
  <2>4. Typed(q)
    BY <2>1, <2>3 DEF Typed
  <2>5. requests' \ requests \subseteq {q} /\ UNCHANGED <<env, file, client, strayed>>
    BY <1>4, <2>2 DEF LoseSettings
  <2> QED BY <1>1, <2>4, <2>5
<1>5. ASSUME NEW r \in requests, HandleSettings(r) PROVE SettingsInv'
  BY <1>1, <1>5 DEF HandleSettings
<1>6. CASE AskLlm
  <2>1. client' = Effective /\ UNCHANGED <<env, file, requests>> /\ Sends(Endpoint(client'), client'.key)
    BY <1>6 DEF AskLlm, SettingsInv
  <2>2. Good(Effective) /\ Effective # None
    BY <1>6, EffectiveIsGood DEF SettingsInv, AskLlm
  <2>3. client'.key \in {None, Endpoint(client')}
    BY <2>1, <2>2 DEF Good
  <2>4. ~strayed'
    BY <2>1, <2>3 DEF Sends, SettingsInv
  <2> QED BY <2>1, <2>4 DEF SettingsInv, Effective, InForce
<1>7. CASE Restart
  BY <1>7 DEF Restart, SettingsInv, Effective, InForce
<1>8. CASE UNCHANGED settingsVars
  BY <1>8 DEF settingsVars, SettingsInv, Effective, InForce
<1> QED BY <1>3, <1>4, <1>5, <1>6, <1>7, <1>8, ServeSettingsKeeps DEF SettingsNext

(* What the page offers to keep the server takes for the same endpoint.    *)
LEMMA SettingsProperty == SettingsInv => StoredKeyIsKept
<1> SUFFICES ASSUME SettingsInv PROVE StoredKeyIsKept
  OBVIOUS
<1>1. KeysGoWhereTyped
  BY DEF SettingsInv, KeysGoWhereTyped
<1>2. ASSUME NEW f \in Endpoints, NEW view, StoredKeyApplies(view, f), view = View(Effective),
             Effective # None, Endpoint(Effective) \in Endpoints
      PROVE  KeyFor(f, None) # Rejected
  <2>1. PICK c, e : c = Effective /\ e = Endpoint(c)
    OBVIOUS
  <2>2. c # None /\ e \in Endpoints /\ e.provider = c.provider /\ e.url = c.url /\ Good(c)
    BY <1>2, <2>1, EffectiveIsGood DEF Endpoint, SettingsInv
  <2>3. view.hasApiKey = (c.key # None) /\ view.provider = c.provider /\ view.url = c.url
    BY <1>2, <2>1, <2>2 DEF View
  <2>4. c.key # None /\ c.provider = f.provider /\ (UsesBaseUrl(f.provider) => c.url = f.url)
    BY <1>2, <2>3 DEF StoredKeyApplies
  <2>5. c.url = f.url
    BY <2>2, <2>4, EndpointFacts
  <2>6. SameEndpoint(c, f)
    BY <2>2, <2>4, <2>5 DEF SameEndpoint
  <2>7. c.key = e
    BY <2>1, <2>2, <2>4 DEF Good
  <2> QED BY <2>1, <2>2, <2>4, <2>6, <2>7, EndpointFacts DEF KeyFor
<1>3. KeptKeyIsAccepted
  BY <1>2 DEF KeptKeyIsAccepted
<1> QED BY <1>1, <1>3 DEF StoredKeyIsKept

(* resolveApiKeyForInput and storedKeyApplies: whatever the tabs save, test*)
(* and reset, a key goes only where it was typed for, and what the page    *)
(* offers to keep the server accepts.                                      *)
THEOREM KeysStay == SettingsSpec => []StoredKeyIsKept
BY SettingsInitHolds, SettingsStep, SettingsProperty, PTL DEF SettingsSpec

-----------------------------------------------------------------------------
(***************************************************************************)
(* WebChat, for any number of workspaces, turns and failures.              *)
(***************************************************************************)
ChatSpec == ChatInit /\ [][ChatNext]_chatVars

Messages == [kind : {"user", "assistant", "error", "system", "loading"}, turn : Nat, of : Workspaces]
Pages ==
  [route : {"chat", "other"}, active : Workspaces, messages : Seq(Messages), chatLoading : BOOLEAN,
   historyLoading : BOOLEAN, loadedFor : Workspaces \cup {None}, canCorrect : BOOLEAN,
   correctable : Nat \cup {None}, failedGoal : Nat \cup {None}, composer : BOOLEAN, panel : Nat \cup {None}]
Calls ==
  [kind : {"chat", "history", "correct"}, of : Workspaces, turn : Nat \cup {None}, meant : Nat \cup {None},
   result : {"awaited", "ok", "failed"}, turns : Seq(Nat)]

(* What an answer says was stored by then.                                 *)
Tells(c, conversations) ==
  /\ c.kind # "history" => c.turn \in Nat
  /\ c.kind = "chat" /\ c.result = "ok" => c.turn \in Range(conversations[c.of])
  /\ c.kind = "history" /\ c.result = "ok" => Range(c.turns) \subseteq Range(conversations[c.of])

Told(m, conversations) == IsAnswer(m) => m.turn \in Range(conversations[m.of])

Waits(p, calls) ==
  /\ p.chatLoading \/ ~p.composer => \E c \in calls : c.kind = "chat"
  /\ p.historyLoading => \E c \in calls : c.kind = "history"

ChatInv ==
  /\ page \in Pages /\ chatCalls \in SUBSET Calls /\ stored \in [Workspaces -> Seq(Nat)] /\ sent \in Nat
  /\ \A c \in chatCalls : Tells(c, stored)
  /\ \A m \in Range(page.messages) : Told(m, stored)
  /\ Waits(page, chatCalls)

(***************************************************************************)
(* Sequences of messages.                                                  *)
(***************************************************************************)
LEMMA AppendedIs ==
  ASSUME NEW S, NEW s \in Seq(S), NEW x \in S, NEW d, d = Append(s, x)
  PROVE  /\ d \in Seq(S) /\ Len(d) = Len(s) + 1 /\ Len(s) \in Nat
         /\ DOMAIN d = 1 .. Len(s) + 1 /\ DOMAIN s = 1 .. Len(s)
         /\ d[Len(s) + 1] = x /\ \A i \in 1 .. Len(s) : d[i] = s[i]
BY AppendProperties

LEMMA RangeOfAppended ==
  ASSUME NEW S, NEW s \in Seq(S), NEW x \in S
  PROVE  Append(s, x) \in Seq(S) /\ Range(Append(s, x)) = Range(s) \cup {x}
<1>1. PICK d, n : d = Append(s, x) /\ n = Len(s)
  OBVIOUS
<1>2. /\ d \in Seq(S) /\ n \in Nat /\ DOMAIN d = 1 .. n + 1 /\ DOMAIN s = 1 .. n
      /\ d[n + 1] = x /\ \A i \in 1 .. n : d[i] = s[i]
  BY <1>1, AppendProperties
<1>3. \A i \in 1 .. n + 1 : i \in 1 .. n \/ i = n + 1
  BY <1>2
<1>4. 1 .. n \subseteq 1 .. n + 1 /\ n + 1 \in 1 .. n + 1
  BY <1>2
<1>5. Range(d) = Range(s) \cup {x}
  BY <1>2, <1>3, <1>4 DEF Range
<1> QED BY <1>1, <1>2, <1>5

LEMMA WithoutLastIs ==
  ASSUME NEW S, NEW s \in Seq(S), NEW kind, NEW d, d = WithoutLast(s, kind)
  PROVE  /\ d \in Seq(S) /\ Len(d) \in Nat /\ Len(s) \in Nat /\ Len(d) <= Len(s)
         /\ DOMAIN d = 1 .. Len(d) /\ DOMAIN s = 1 .. Len(s)
         /\ \A i \in 1 .. Len(d) : d[i] = s[i]
         /\ Len(d) # Len(s) => Len(d) = Len(s) - 1 /\ s[Len(s)].kind = kind
         /\ Len(d) = Len(s) => d = <<>> \/ s[Len(s)].kind # kind
<1>1. PICK n : n = Len(s)
  OBVIOUS
<1>2. n \in Nat /\ DOMAIN s = 1 .. n /\ \A i \in 1 .. n : s[i] \in S
  BY <1>1
<1>3. CASE s # <<>> /\ s[n].kind = kind
  <2>1. d = SubSeq(s, 1, n - 1)
    BY <1>1, <1>3 DEF WithoutLast
  <2>2. n # 0
    BY <1>1, <1>3, EmptySeq
  <2>3. \A i \in 1 .. n - 1 : s[i] \in S
    BY <1>2
  <2>4. d \in Seq(S) /\ Len(d) = n - 1 /\ \A i \in 1 .. n - 1 : d[i] = s[i]
    BY <1>2, <2>1, <2>2, <2>3, SubSeqProperties
  <2>5. Len(d) \in Nat /\ DOMAIN d = 1 .. Len(d) /\ Len(d) <= n /\ Len(d) # n
    BY <1>2, <2>2, <2>4
  <2>6. \A i \in 1 .. Len(d) : d[i] = s[i]
    BY <2>4
  <2>7. Len(d) = Len(s) - 1 /\ s[Len(s)].kind = kind
    BY <1>1, <1>3, <2>4
  <2>8. Len(s) \in Nat /\ DOMAIN s = 1 .. Len(s) /\ Len(d) <= Len(s) /\ Len(d) # Len(s)
    BY <1>1, <1>2, <2>5
  <2>9. d \in Seq(S)
    BY <2>4
  <2> QED BY <2>5, <2>6, <2>7, <2>8, <2>9
<1>4. CASE ~(s # <<>> /\ s[n].kind = kind)
  <2>1. d = s
    BY <1>1, <1>4 DEF WithoutLast
  <2> QED BY <1>1, <1>2, <1>4, <2>1
<1> QED BY <1>3, <1>4

LEMMA WithoutLastRange ==
  ASSUME NEW S, NEW s \in Seq(S), NEW kind
  PROVE  WithoutLast(s, kind) \in Seq(S) /\ Range(WithoutLast(s, kind)) \subseteq Range(s)
<1>1. PICK d, n, k : d = WithoutLast(s, kind) /\ n = Len(s) /\ k = Len(d)
  OBVIOUS
<1>2. /\ d \in Seq(S) /\ n \in Nat /\ k \in Nat /\ k <= n
      /\ DOMAIN d = 1 .. k /\ DOMAIN s = 1 .. n /\ \A i \in 1 .. k : d[i] = s[i]
  BY <1>1, WithoutLastIs
<1>3. 1 .. k \subseteq 1 .. n
  BY <1>2
<1>4. Range(d) \subseteq Range(s)
  BY <1>2, <1>3 DEF Range
<1> QED BY <1>1, <1>2, <1>4

LEMMA ReplacedRange ==
  ASSUME NEW s \in Seq(Messages), NEW m \in Messages, NEW d, d = ReplaceLoading(s, m)
  PROVE  d \in Seq(Messages) /\ Range(d) \subseteq Range(s) \cup {m}
<1>1. PICK b : b = WithoutLast(s, "loading")
  OBVIOUS
<1>2. b \in Seq(Messages) /\ Range(b) \subseteq Range(s) /\ d = Append(b, m)
  BY <1>1, WithoutLastRange DEF ReplaceLoading
<1> QED BY <1>2, RangeOfAppended

(* A conversation is shown with a message of the user and one of the       *)
(* assistant for each turn.                                                *)
LEMMA ShownIs ==
  ASSUME NEW turns \in Seq(Nat), NEW of \in Workspaces, NEW d, d = Shown(turns, of)
  PROVE  /\ d \in Seq(Messages) /\ Len(turns) \in Nat
         /\ DOMAIN d = 1 .. 2 * Len(turns) /\ DOMAIN turns = 1 .. Len(turns)
         /\ \A i \in 1 .. 2 * Len(turns) :
              /\ (i + 1) \div 2 \in 1 .. Len(turns) /\ d[i].turn = turns[(i + 1) \div 2] /\ d[i].of = of
              /\ d[i].kind = IF i % 2 = 1 THEN "user" ELSE "assistant"
<1>1. PICK n : n = Len(turns)
  OBVIOUS
<1>2. n \in Nat /\ DOMAIN turns = 1 .. n /\ \A i \in 1 .. n : turns[i] \in Nat
  BY <1>1
<1>3. DOMAIN d = 1 .. 2 * n
  BY <1>1 DEF Shown
<1>4. \A i \in 1 .. 2 * n : (i + 1) \div 2 \in 1 .. n
  BY <1>2
<1>7. \A i \in 1 .. 2 * n : turns[(i + 1) \div 2] \in Nat
  BY <1>2, <1>4
<1>5. ASSUME NEW i \in 1 .. 2 * n
      PROVE  /\ d[i] \in Messages /\ d[i].turn = turns[(i + 1) \div 2] /\ d[i].of = of
             /\ d[i].kind = IF i % 2 = 1 THEN "user" ELSE "assistant"
  <2>1. PICK kind, turn : kind = (IF i % 2 = 1 THEN "user" ELSE "assistant") /\ turn = turns[(i + 1) \div 2]
    OBVIOUS
  <2>2. turn \in Nat /\ kind \in {"user", "assistant"}
    BY <1>7, <2>1
  <2>3. d[i] = [kind |-> kind, turn |-> turn, of |-> of]
    BY <1>1, <2>1 DEF Shown, Message
  <2>4. d[i] \in Messages /\ d[i].turn = turn /\ d[i].of = of /\ d[i].kind = kind
    BY <2>2, <2>3 DEF Messages
  <2>5. d[i].turn = turns[(i + 1) \div 2]
    BY <2>1, <2>4
  <2>6. d[i].kind = IF i % 2 = 1 THEN "user" ELSE "assistant"
    BY <2>1, <2>4
  <2> QED BY <2>4, <2>5, <2>6
<1>6. d \in Seq(Messages)
  <2>1. d = [i \in 1 .. 2 * n |-> d[i]] /\ 2 * n \in Nat
    BY <1>1, <1>2 DEF Shown
  <2>2. \A i \in 1 .. 2 * n : d[i] \in Messages
    BY <1>5
  <2>3. PICK k : k = 2 * n
    OBVIOUS
  <2>4. k \in Nat /\ d = [i \in 1 .. k |-> d[i]] /\ \A i \in 1 .. k : d[i] \in Messages
    BY <2>1, <2>2, <2>3
  <2> QED BY <2>4, IsASeq
<1> QED BY <1>1, <1>2, <1>3, <1>4, <1>5, <1>6

LEMMA ShownRange ==
  ASSUME NEW turns \in Seq(Nat), NEW of \in Workspaces, NEW m \in Range(Shown(turns, of))
  PROVE  m.of = of /\ m.turn \in Range(turns)
<1>1. PICK d, n : d = Shown(turns, of) /\ n = Len(turns)
  OBVIOUS
<1>2. /\ DOMAIN d = 1 .. 2 * n /\ DOMAIN turns = 1 .. n
      /\ \A i \in 1 .. 2 * n : (i + 1) \div 2 \in 1 .. n /\ d[i].turn = turns[(i + 1) \div 2] /\ d[i].of = of
  BY <1>1, ShownIs
<1>3. PICK i \in 1 .. 2 * n : m = d[i]
  BY <1>1, <1>2 DEF Range
<1> QED BY <1>2, <1>3 DEF Range

(***************************************************************************)
(* Every answer on the page was stored, and the page waits for what is on  *)
(* its way.                                                                *)
(***************************************************************************)
LEMMA ChatFrame ==
  ASSUME ChatInv,
         page' \in Pages, chatCalls' \in SUBSET Calls, stored' \in [Workspaces -> Seq(Nat)], sent' \in Nat,
         \A w \in Workspaces : Range(stored[w]) \subseteq Range(stored'[w]),
         \A c \in chatCalls' \ chatCalls : Tells(c, stored'),
         \A m \in Range(page'.messages) \ Range(page.messages) : Told(m, stored'),
         Waits(page', chatCalls')
  PROVE  ChatInv'
<1>1. \A c \in chatCalls : Tells(c, stored) => Tells(c, stored')
  BY DEF ChatInv, Calls, Tells
<1>2. \A m \in Messages : Told(m, stored) => Told(m, stored')
  BY DEF Messages, Told
<1>3. page.messages \in Seq(Messages)
  BY DEF ChatInv, Pages
<1>4. \A m \in Range(page.messages) : m \in Messages
  BY <1>3 DEF Range
<1>5. \A c \in chatCalls' : Tells(c, stored')
  BY <1>1 DEF ChatInv
<1>6. \A m \in Range(page'.messages) : Told(m, stored')
  BY <1>2, <1>4 DEF ChatInv
<1> QED BY <1>5, <1>6 DEF ChatInv

(* Steps that move the page alone, and ask.                                *)
LEMMA PageMoves ==
  ASSUME ChatInv, page' \in Pages, chatCalls' \in SUBSET Calls, sent' \in Nat, UNCHANGED stored,
         \A c \in chatCalls' \ chatCalls : c.result = "awaited" /\ (c.kind # "history" => c.turn \in Nat),
         \A m \in Range(page'.messages) \ Range(page.messages) : ~IsAnswer(m),
         Waits(page', chatCalls')
  PROVE  ChatInv'
<1>1. \A c \in chatCalls' \ chatCalls : Tells(c, stored')
  BY DEF Tells
<1>2. \A m \in Range(page'.messages) \ Range(page.messages) : Told(m, stored')
  BY DEF Told
<1>3. stored' \in [Workspaces -> Seq(Nat)] /\ \A w \in Workspaces : Range(stored[w]) \subseteq Range(stored'[w])
  BY DEF ChatInv
<1> QED BY <1>1, <1>2, <1>3, ChatFrame

LEMMA ChatInitHolds == ChatInit => ChatInv
<1> SUFFICES ASSUME ChatInit PROVE ChatInv
  OBVIOUS
<1>1. page \in Pages /\ page.messages = <<>> /\ Waits(page, chatCalls)
  BY DEF ChatInit, Pages, Waits
<1>2. stored \in [Workspaces -> Seq(Nat)] /\ chatCalls = {} /\ sent \in Nat
  BY DEF ChatInit
<1>3. Range(page.messages) = {}
  BY <1>1 DEF Range
<1> QED BY <1>1, <1>2, <1>3 DEF ChatInv

LEMMA NewMessages ==
  ASSUME NEW s \in Seq(Messages), NEW u \in Messages, NEW l \in Messages, NEW mine \in {<<>>, <<u>>}
  PROVE  (s \o mine) \o <<l>> \in Seq(Messages) /\ Range((s \o mine) \o <<l>>) \subseteq Range(s) \cup {u, l}
<1>1. PICK b : b = s \o mine
  OBVIOUS
<1>2. b \in Seq(Messages) /\ Range(b) \subseteq Range(s) \cup {u}
  <2>1. CASE mine = <<>>
    BY <1>1, <2>1, ConcatEmptySeq
  <2>2. CASE mine = <<u>>
    <3>1. b = Append(s, u)
      BY <1>1, <2>2, AppendIsConcat
    <3>2. Append(s, u) \in Seq(Messages) /\ Range(Append(s, u)) = Range(s) \cup {u}
      BY RangeOfAppended
    <3> QED BY <3>1, <3>2
  <2> QED BY <2>1, <2>2
<1>3. b \o <<l>> = Append(b, l)
  BY <1>2, AppendIsConcat
<1>4. Append(b, l) \in Seq(Messages) /\ Range(Append(b, l)) = Range(b) \cup {l}
  BY <1>2, RangeOfAppended
<1> QED BY <1>1, <1>2, <1>3, <1>4

LEMMA SubmitKeeps == ASSUME ChatInv, NEW isRetry \in BOOLEAN, SubmitMessage(isRetry) PROVE ChatInv'
<1>1. PICK turn, before, d, c : /\ turn = sent + 1 /\ before = WithoutLast(page.messages, "error")
                                /\ d = before \o (IF isRetry THEN <<>> ELSE <<Message("user", turn, page.active)>>)
                                         \o <<Message("loading", turn, page.active)>>
                                /\ c = Call("chat", page.active, turn, None)
  OBVIOUS
<1>2. /\ sent' = turn /\ UNCHANGED stored /\ chatCalls' = chatCalls \cup {c}
      /\ page' = [page EXCEPT !.chatLoading = TRUE, !.failedGoal = None, !.composer = FALSE, !.messages = d]
  BY <1>1 DEF SubmitMessage
<1>3. turn \in Nat /\ page.active \in Workspaces /\ page.messages \in Seq(Messages) /\ page \in Pages
  BY <1>1 DEF ChatInv, Pages
<1>4. before \in Seq(Messages) /\ Range(before) \subseteq Range(page.messages)
  BY <1>1, <1>3, WithoutLastRange
<1>5. PICK u, l : u = Message("user", turn, page.active) /\ l = Message("loading", turn, page.active)
  OBVIOUS
<1>6. u \in Messages /\ l \in Messages /\ ~IsAnswer(u) /\ ~IsAnswer(l)
  BY <1>3, <1>5 DEF Message, Messages, IsAnswer
<1>7. PICK mine \in {<<>>, <<u>>} : d = before \o mine \o <<l>>
  BY <1>1, <1>5
<1>8. d \in Seq(Messages) /\ Range(d) \subseteq Range(before) \cup {u, l}
  <2>1. (before \o mine) \o <<l>> \in Seq(Messages) /\ Range((before \o mine) \o <<l>>) \subseteq Range(before) \cup {u, l}
    BY <1>4, <1>6, <1>7, NewMessages
  <2> QED BY <1>7, <2>1
<1>9. \A m \in Range(d) \ Range(page.messages) : ~IsAnswer(m)
  BY <1>4, <1>8, <1>6
<1>10. page' \in Pages /\ page'.messages = d /\ page'.historyLoading = page.historyLoading
  BY <1>2, <1>3, <1>8 DEF Pages
<1>11. c \in Calls /\ c.kind = "chat" /\ c.result = "awaited" /\ c.turn \in Nat
  BY <1>1, <1>3 DEF Call, Calls
<1>12. chatCalls' \in SUBSET Calls /\ Waits(page', chatCalls')
  BY <1>2, <1>10, <1>11 DEF ChatInv, Waits
<1> QED BY <1>2, <1>3, <1>9, <1>10, <1>11, <1>12, PageMoves

(* Arriving at a page: its messages are those there were, or none.         *)
LEMMA ArriveKeeps ==
  ASSUME ChatInv, NEW p \in Pages, Arrive(p), UNCHANGED <<stored, sent>>,
         p.messages \in {<<>>, page.messages}, p.chatLoading = page.chatLoading,
         p.historyLoading = page.historyLoading, p.composer = page.composer
  PROVE  ChatInv'
<1>1. PICK h : h = Call("history", p.active, None, None)
  OBVIOUS
<1>2. h \in Calls /\ h.kind = "history" /\ h.result = "awaited"
  BY <1>1 DEF Call, Calls, Pages
<1>3. /\ page'.messages = p.messages /\ page'.chatLoading = p.chatLoading /\ page' \in Pages /\ page'.composer = TRUE
      /\ chatCalls' = chatCalls \/ chatCalls' = chatCalls \cup {h}
      /\ page'.historyLoading => page.historyLoading \/ h \in chatCalls'
  <2>1. CASE p.route = "chat"
    <3>1. page' = Rendered(p) /\ chatCalls' = chatCalls \cup HistoryCalls(p)
      BY <2>1 DEF Arrive
    <3>2. page' = [p EXCEPT !.composer = TRUE, !.panel = None, !.historyLoading = page'.historyLoading]
          /\ page'.historyLoading = (p.historyLoading \/ NeedsHistory(p))
      BY <3>1 DEF Rendered, Pages
    <3>3. page'.historyLoading \in BOOLEAN
      BY <3>2 DEF Pages
    <3> QED BY <1>1, <3>1, <3>2, <3>3 DEF HistoryCalls, Pages
  <2>2. CASE p.route # "chat"
    <3>1. page' = [p EXCEPT !.composer = TRUE, !.panel = None] /\ chatCalls' = chatCalls
      BY <2>2 DEF Arrive
    <3>2. page' \in Pages /\ page'.composer = TRUE /\ page'.messages = p.messages
          /\ page'.chatLoading = p.chatLoading /\ page'.historyLoading = p.historyLoading
      BY <3>1 DEF Pages
    <3> QED BY <3>1, <3>2
  <2> QED BY <2>1, <2>2
<1>4. Waits(page', chatCalls')
  BY <1>2, <1>3 DEF Waits, ChatInv
<1>5. Range(page'.messages) \subseteq Range(page.messages)
  BY <1>3 DEF Range
<1>6. chatCalls' \in SUBSET Calls /\ sent' \in Nat
  BY <1>2, <1>3 DEF ChatInv
<1> QED BY <1>2, <1>3, <1>4, <1>5, <1>6, PageMoves

LEMMA SwitchKeeps == ASSUME ChatInv, SwitchWorkspace \/ SetRoute PROVE ChatInv'
<1>1. page \in Pages /\ UNCHANGED <<stored, sent>>
  BY DEF ChatInv, SwitchWorkspace, SetRoute
<1>2. CASE SwitchWorkspace
  <2>1. PICK w \in Workspaces : Arrive(Cleared(page, w))
    BY <1>2 DEF SwitchWorkspace
  <2>3. PICK p : p = Cleared(page, w)
    OBVIOUS
  <2>4. <<>> \in Seq(Messages)
    OBVIOUS
  <2>2. p \in Pages /\ p.messages = <<>> /\ p.chatLoading = page.chatLoading
        /\ p.historyLoading = page.historyLoading /\ p.composer = page.composer
    BY <1>1, <2>3, <2>4 DEF Cleared, Pages
  <2> QED BY <1>1, <2>1, <2>2, <2>3, ArriveKeeps
<1>3. CASE SetRoute
  <2>1. PICK r \in {"chat", "other"} : Arrive([page EXCEPT !.route = r])
    BY <1>3 DEF SetRoute
  <2>3. PICK p : p = [page EXCEPT !.route = r]
    OBVIOUS
  <2>2. p \in Pages /\ p.messages = page.messages /\ p.chatLoading = page.chatLoading
        /\ p.historyLoading = page.historyLoading /\ p.composer = page.composer
    BY <1>1, <2>1, <2>3 DEF Pages
  <2> QED BY <1>1, <2>1, <2>2, <2>3, ArriveKeeps
<1> QED BY <1>2, <1>3

LEMMA PanelKeeps == ASSUME ChatInv, OpenPanel \/ ClosePanel PROVE ChatInv'
<1>1. page \in Pages /\ page' = [page EXCEPT !.panel = page'.panel] /\ page'.panel \in Nat \cup {None}
  BY DEF ChatInv, OpenPanel, ClosePanel, Pages
<1>2. page' \in Pages /\ page'.messages = page.messages /\ page'.chatLoading = page.chatLoading
      /\ page'.historyLoading = page.historyLoading /\ page'.composer = page.composer
  BY <1>1 DEF Pages
<1>3. UNCHANGED <<chatCalls, stored, sent>>
  BY DEF OpenPanel, ClosePanel
<1> QED BY <1>2, <1>3, PageMoves DEF ChatInv, Waits

LEMMA CorrectKeeps == ASSUME ChatInv, Correct PROVE ChatInv'
<1>1. PICK c : c = Call("correct", page.active, sent + 1, page.panel)
  OBVIOUS
<1>2. c \in Calls /\ c.result = "awaited" /\ c.turn \in Nat
  BY <1>1 DEF ChatInv, Pages, Call, Calls
<1>3. UNCHANGED <<page, stored>> /\ sent' \in Nat /\ chatCalls' = chatCalls \cup {c}
  BY <1>1 DEF Correct, ChatInv
<1> QED BY <1>2, <1>3, PageMoves DEF ChatInv, Waits

LEMMA AnsweredKeeps_Calls ==
  ASSUME ChatInv, NEW c \in chatCalls, NEW result \in {"ok", "failed"}, NEW turns \in Seq(Nat), Answered(c, result, turns)
  PROVE  /\ chatCalls' \in SUBSET Calls
         /\ \A p : Waits(p, chatCalls) => Waits(p, chatCalls')
         /\ \A d \in chatCalls' \ chatCalls :
              /\ d.kind = c.kind /\ d.of = c.of /\ d.turn = c.turn /\ d.meant = c.meant
              /\ d.result = result /\ d.turns = turns
<1>1. PICK d : d = [c EXCEPT !.result = result, !.turns = turns]
  OBVIOUS
<1>2. c \in Calls
  BY DEF ChatInv
<1>3. /\ d \in Calls /\ d.kind = c.kind /\ d.of = c.of /\ d.turn = c.turn /\ d.meant = c.meant
      /\ d.result = result /\ d.turns = turns
  BY <1>1, <1>2 DEF Calls
<1>4. chatCalls' = (chatCalls \ {c}) \cup {d}
  BY <1>1 DEF Answered
<1>5. ASSUME NEW p, Waits(p, chatCalls) PROVE Waits(p, chatCalls')
  BY <1>3, <1>4, <1>5 DEF Waits
<1> QED BY <1>3, <1>4, <1>5 DEF ChatInv

LEMMA FailKeeps == ASSUME ChatInv, NEW c \in chatCalls, FailChat(c) PROVE ChatInv'
<1>1. Answered(c, "failed", <<>>) /\ UNCHANGED <<page, stored, sent>> /\ <<>> \in Seq(Nat)
  BY DEF FailChat
<1>2. /\ chatCalls' \in SUBSET Calls /\ Waits(page, chatCalls')
      /\ \A d \in chatCalls' \ chatCalls : d.kind = c.kind /\ d.turn = c.turn /\ d.result = "failed"
  BY <1>1, AnsweredKeeps_Calls DEF ChatInv
<1>3. \A d \in chatCalls' \ chatCalls : Tells(d, stored)
  BY <1>2 DEF ChatInv, Tells
<1> QED BY <1>1, <1>2, <1>3, ChatFrame DEF ChatInv

(* The server keeps a turn, and answers with what it has.                  *)
LEMMA ServeKeeps == ASSUME ChatInv, NEW c \in chatCalls, ServeChat(c) PROVE ChatInv'
<1>1. c \in Calls /\ Tells(c, stored) /\ UNCHANGED <<page, sent>>
  BY DEF ChatInv, ServeChat
<1>2. c.of \in Workspaces /\ c.kind \in {"chat", "history", "correct"}
  BY <1>1 DEF Calls
<1>3. stored[c.of] \in Seq(Nat)
  BY <1>2 DEF ChatInv
<1>4. PICK result \in {"ok", "failed"}, turns \in Seq(Nat) :
        Answered(c, result, turns) /\ (result = "ok" => turns = stored[c.of])
  <2>1. CASE Answered(c, "ok", stored[c.of])
    BY <1>3, <2>1
  <2>2. CASE Answered(c, "failed", <<>>)
    <3>1. <<>> \in Seq(Nat) /\ "failed" # "ok"
      OBVIOUS
    <3> QED BY <2>2, <3>1
  <2> QED BY <2>1, <2>2 DEF ServeChat
<1>5. /\ chatCalls' \in SUBSET Calls /\ Waits(page, chatCalls')
      /\ \A d \in chatCalls' \ chatCalls :
           /\ d.kind = c.kind /\ d.of = c.of /\ d.turn = c.turn /\ d.result = result /\ d.turns = turns
  BY <1>4, AnsweredKeeps_Calls DEF ChatInv
<1>6. CASE c.kind = "chat"
  <2>1. c.turn \in Nat /\ stored' = [stored EXCEPT ![c.of] = Append(@, c.turn)]
    BY <1>1, <1>6 DEF ServeChat, Kept, Tells
  <2>2. PICK s, t, g : s = stored[c.of] /\ t = c.turn /\ g = Append(s, t)
    OBVIOUS
  <2>7. s \in Seq(Nat) /\ t \in Nat
    BY <1>3, <2>1, <2>2
  <2>8. Append(s, t) \in Seq(Nat) /\ Range(Append(s, t)) = Range(s) \cup {t}
    BY <2>7, RangeOfAppended
  <2>3. g \in Seq(Nat) /\ Range(g) = Range(s) \cup {c.turn}
    BY <2>2, <2>8
  <2>4. /\ stored' \in [Workspaces -> Seq(Nat)] /\ stored'[c.of] = g
        /\ \A w \in Workspaces \ {c.of} : stored'[w] = stored[w]
    BY <1>2, <2>1, <2>2, <2>3 DEF ChatInv
  <2>5. \A w \in Workspaces : Range(stored[w]) \subseteq Range(stored'[w])
    BY <2>2, <2>3, <2>4
  <2>6. \A d \in chatCalls' \ chatCalls : Tells(d, stored')
    BY <1>5, <1>6, <2>1, <2>3, <2>4 DEF Tells
  <2> QED BY <1>1, <1>5, <2>4, <2>5, <2>6, ChatFrame DEF ChatInv
<1>7. CASE c.kind # "chat"
  <2>1. stored' = stored
    BY <1>7 DEF ServeChat
  <2>2. \A d \in chatCalls' \ chatCalls : Tells(d, stored)
    BY <1>1, <1>4, <1>5, <1>7 DEF Tells
  <2> QED BY <1>1, <1>5, <2>1, <2>2, ChatFrame DEF ChatInv
<1> QED BY <1>6, <1>7

LEMMA HandleKeeps == ASSUME ChatInv, NEW c \in chatCalls, HandleChat(c) PROVE ChatInv'
<1>1. /\ c \in Calls /\ Tells(c, stored) /\ c.result \in {"ok", "failed"} /\ c.of \in Workspaces
      /\ chatCalls' = chatCalls \ {c} /\ UNCHANGED <<stored, sent>>
  BY DEF ChatInv, HandleChat, Calls
<1>2. page \in Pages /\ page.messages \in Seq(Messages) /\ Waits(page, chatCalls)
  BY DEF ChatInv, Pages
<1>3. ASSUME page' \in Pages, \A m \in Range(page'.messages) \ Range(page.messages) : Told(m, stored), Waits(page', chatCalls')
      PROVE  ChatInv'
  <2>1. /\ stored' = stored /\ sent' \in Nat /\ stored' \in [Workspaces -> Seq(Nat)] /\ chatCalls' \in SUBSET Calls
        /\ chatCalls' \ chatCalls = {} /\ \A w \in Workspaces : Range(stored[w]) \subseteq Range(stored'[w])
    BY <1>1 DEF ChatInv
  <2> QED BY <1>3, <2>1, ChatFrame
<1>4. CASE ChatAnswered(c)
  <2>1. PICK kind, m, d : /\ kind = (IF c.result = "ok" THEN "assistant" ELSE "error") /\ m = Message(kind, c.turn, c.of)
                          /\ d = ReplaceLoading(page.messages, m)
    OBVIOUS
  <2>2. c.kind = "chat" /\ c.turn \in Nat
    BY <1>1, <1>4 DEF ChatAnswered, Tells
  <2>3. m \in Messages /\ (IsAnswer(m) => c.result = "ok" /\ m.turn = c.turn /\ m.of = c.of)
    BY <1>1, <2>1, <2>2 DEF Message, Messages, IsAnswer
  <2>4. Told(m, stored)
    BY <1>1, <2>2, <2>3 DEF Told, Tells
  <2>5. d \in Seq(Messages) /\ Range(d) \subseteq Range(page.messages) \cup {m}
    BY <1>2, <2>1, <2>3, ReplacedRange
  <2>6. /\ page' \in Pages /\ page'.messages = d /\ ~page'.chatLoading /\ page'.composer
        /\ page'.historyLoading = page.historyLoading
    <3>1. CASE c.result = "ok"
      <4>1. page' = [page EXCEPT !.messages = d, !.chatLoading = FALSE, !.canCorrect = TRUE, !.correctable = c.turn,
                                 !.loadedFor = c.of, !.composer = TRUE]
        BY <1>4, <2>1, <3>1 DEF ChatAnswered
      <4> QED BY <1>1, <1>2, <2>2, <2>5, <4>1 DEF Pages
    <3>2. CASE c.result # "ok"
      <4>1. page' = [page EXCEPT !.messages = d, !.chatLoading = FALSE, !.canCorrect = FALSE, !.failedGoal = c.turn,
                                 !.composer = TRUE]
        BY <1>4, <2>1, <3>2 DEF ChatAnswered
      <4> QED BY <1>1, <1>2, <2>2, <2>5, <4>1 DEF Pages
    <3> QED BY <3>1, <3>2
  <2>7. Waits(page', chatCalls')
    BY <1>1, <1>2, <2>2, <2>6 DEF Waits
  <2> QED BY <1>3, <2>4, <2>5, <2>6, <2>7
<1>5. CASE HistoryAnswered(c)
  <2>1. c.kind = "history" /\ c.turns \in Seq(Nat)
    BY <1>1, <1>5 DEF HistoryAnswered, Calls
  <2>2. /\ page' \in Pages /\ ~page'.historyLoading
        /\ page'.chatLoading = page.chatLoading /\ page'.composer = page.composer
        /\ page'.messages = IF c.result = "ok" THEN Shown(c.turns, c.of) ELSE page.messages
    <3>1. CASE c.result = "ok"
      <4>1. PICK d, last, some : d = Shown(c.turns, c.of) /\ last = LastOf(c.turns) /\ some = (c.turns # <<>>)
        OBVIOUS
      <4>2. d \in Seq(Messages)
        BY <1>1, <2>1, <4>1, ShownIs
      <4>3. last \in Nat \cup {None}
        BY <2>1, <4>1, EmptySeq DEF LastOf
      <4>4. page' = [page EXCEPT !.messages = d, !.canCorrect = some, !.correctable = last,
                                 !.failedGoal = None, !.historyLoading = FALSE, !.loadedFor = c.of]
        BY <1>2, <1>5, <3>1, <4>1 DEF HistoryAnswered, HistoryEnds, Pages
      <4>5. some \in BOOLEAN
        BY <4>1
      <4>6. /\ page' \in Pages /\ ~page'.historyLoading /\ page'.messages = d
            /\ page'.chatLoading = page.chatLoading /\ page'.composer = page.composer
        BY <1>1, <1>2, <4>2, <4>3, <4>4, <4>5 DEF Pages
      <4> QED BY <3>1, <4>1, <4>6
    <3>2. CASE c.result # "ok"
      <4>1. page' = [page EXCEPT !.historyLoading = FALSE, !.loadedFor = c.of]
        BY <1>5, <3>2 DEF HistoryAnswered, HistoryEnds
      <4> QED BY <1>1, <1>2, <3>2, <4>1 DEF Pages
    <3> QED BY <3>1, <3>2
  <2>3. \A m \in Range(page'.messages) \ Range(page.messages) : Told(m, stored)
    <3>1. CASE c.result = "ok"
      <4>1. Range(c.turns) \subseteq Range(stored[c.of])
        BY <1>1, <2>1, <3>1 DEF Tells
      <4>2. \A m \in Range(Shown(c.turns, c.of)) : m.of = c.of /\ m.turn \in Range(c.turns)
        BY <1>1, <2>1, ShownRange
      <4> QED BY <2>2, <3>1, <4>1, <4>2 DEF Told
    <3> QED BY <2>2, <3>1
  <2>4. Waits(page', chatCalls')
    BY <1>1, <1>2, <2>1, <2>2 DEF Waits
  <2> QED BY <1>3, <2>2, <2>3, <2>4
<1>6. CASE CorrectAnswered(c)
  <2>1. c.kind = "correct" /\ c.turn \in Nat
    BY <1>1, <1>6 DEF CorrectAnswered, Tells
  <2>2. PICK kind, m, d : /\ kind = (IF c.result = "ok" THEN "system" ELSE "error") /\ m = Message(kind, c.turn, c.of)
                          /\ d = Append(page.messages, m)
    OBVIOUS
  <2>3. m \in Messages /\ ~IsAnswer(m)
    BY <1>1, <2>1, <2>2 DEF Message, Messages, IsAnswer
  <2>4. d \in Seq(Messages) /\ Range(d) = Range(page.messages) \cup {m}
    BY <1>2, <2>2, <2>3, RangeOfAppended
  <2>5. /\ page' \in Pages /\ page'.messages = d /\ page'.historyLoading = page.historyLoading
        /\ page'.chatLoading = page.chatLoading /\ page'.composer = page.composer
    <3>1. PICK panel \in {page.panel, None} :
            page' = IF c.result = "ok" THEN [page EXCEPT !.messages = d, !.canCorrect = FALSE, !.panel = panel]
                    ELSE [page EXCEPT !.messages = d, !.panel = panel]
      BY <1>6, <2>2 DEF CorrectAnswered
    <3>2. panel \in Nat \cup {None}
      BY <1>2 DEF Pages
    <3> QED BY <1>2, <2>4, <3>1, <3>2 DEF Pages
  <2>6. Waits(page', chatCalls')
    BY <1>1, <1>2, <2>1, <2>5 DEF Waits
  <2>7. Told(m, stored)
    BY <2>3 DEF Told
  <2> QED BY <1>3, <2>4, <2>5, <2>6, <2>7
<1> QED BY <1>4, <1>5, <1>6 DEF HandleChat

LEMMA ChatStep == ChatInv /\ [ChatNext]_chatVars => ChatInv'
<1> SUFFICES ASSUME ChatInv, [ChatNext]_chatVars PROVE ChatInv'
  OBVIOUS
<1>1. CASE Send \/ Retry
  BY <1>1, SubmitKeeps DEF Send, Retry
<1>2. CASE UNCHANGED chatVars
  BY <1>2 DEF chatVars, ChatInv
<1> QED BY <1>1, <1>2, PanelKeeps, CorrectKeeps, SwitchKeeps, ServeKeeps, FailKeeps, HandleKeeps DEF ChatNext

LEMMA ChatProperty == ChatInv => ShownIsStored
BY DEF ChatInv, ShownIsStored, Told, Waits, Results

(* Whichever answers are late, lost or fail and wherever the user goes     *)
(* meanwhile, an answer on the page is a turn that the server keeps, and   *)
(* the page waits only for what is on its way.                             *)
THEOREM PageShowsStored == ChatSpec => []ShownIsStored
BY ChatInitHolds, ChatStep, ChatProperty, PTL DEF ChatSpec

(***************************************************************************)
(* While the user waits for each answer before going on, the page is what  *)
(* the server keeps.                                                       *)
(***************************************************************************)
Asked(calls, kind) == \E c \in calls : c.kind = kind

NoneLoading(messages) == \A i \in DOMAIN messages : messages[i].kind # "loading"
LastLoading(messages) == \A i \in DOMAIN messages : messages[i].kind = "loading" => i = Len(messages)

(* One request at a time, for the active workspace.                        *)
OneCall(calls, active) ==
  /\ \A c, d \in calls : c = d
  /\ \A c \in calls : c.of = active

(* What the request under way knows of the conversation.                   *)
CallFits(c, turns, n, failures) ==
  /\ c.kind = "chat" =>
       /\ c.turn <= n
       /\ c.result = "awaited" => \A t \in Range(turns) : t < c.turn
       /\ c.result = "ok" => turns # <<>> /\ LastOf(turns) = c.turn
  /\ c.kind = "history" /\ c.result = "ok" => c.turns = turns
  /\ c.kind = "correct" => turns # <<>> /\ c.meant = LastOf(turns)
  /\ failures = 0 => c.result # "failed"

(* What the page knows of it.                                              *)
PageFits(p, calls, turns) ==
  /\ \A m \in Range(p.messages) : m.of = p.active
  /\ LastLoading(p.messages) /\ (~Asked(calls, "chat") => NoneLoading(p.messages))
  /\ p.route = "chat" => p.loadedFor = p.active \/ Asked(calls, "history")
  /\ Asked(calls, "chat") => p.loadedFor = p.active /\ p.panel = None
  /\ p.panel # None => turns # <<>> /\ p.panel = LastOf(turns)
  /\ p.canCorrect /\ ~Asked(calls, "chat") => turns # <<>> /\ p.correctable = LastOf(turns)

(* The answers shown: all, but the one on its way.                         *)
ShowsAll(p, calls, turns) ==
  \/ /\ \A c \in calls : ~(c.kind = "chat" /\ c.result = "ok")
     /\ Shows(p.messages, turns)
  \/ \E ts \in Seq(Nat), c \in calls :
       c.kind = "chat" /\ c.result = "ok" /\ turns = Append(ts, c.turn) /\ Shows(p.messages, ts)

Numbered(conversations, n) == \A w \in Workspaces : Ascending(conversations[w]) /\ \A t \in Range(conversations[w]) : t <= n

Calm(p, calls, conversations, recorded, n, failures) ==
  /\ OneCall(calls, p.active)
  /\ \A c \in calls : CallFits(c, conversations[p.active], n, failures)
  /\ PageFits(p, calls, conversations[p.active])
  /\ failures = 0 /\ p.loadedFor = p.active => ShowsAll(p, calls, conversations[p.active])
  /\ \A x \in recorded : x.turn = x.meant
  /\ Numbered(conversations, n)

CalmNow == Calm(page, chatCalls, stored, corrections, sent, chatFaults)
CalmInv == chatFaults \in Nat /\ (~disturbed => CalmNow)

LEMMA AppendedShows ==
  ASSUME NEW s \in Seq(Messages), NEW x \in Messages
  PROVE  /\ LastLoading(Append(s, x)) \/ ~NoneLoading(s)
         /\ NoneLoading(s) /\ x.kind # "loading" => NoneLoading(Append(s, x))
         /\ \A ts : Shows(s, ts) /\ ~IsAnswer(x) => Shows(Append(s, x), ts)
<1>1. PICK d, n : d = Append(s, x) /\ n = Len(s)
  OBVIOUS
<1>2. /\ d \in Seq(Messages) /\ n \in Nat /\ Len(d) = n + 1 /\ DOMAIN d = 1 .. n + 1 /\ DOMAIN s = 1 .. n
      /\ d[n + 1] = x /\ \A i \in 1 .. n : d[i] = s[i]
  BY <1>1, AppendProperties
<1>3. \A i \in 1 .. n + 1 : i \in 1 .. n \/ i = n + 1
  BY <1>2
<1>4. ASSUME NoneLoading(s) PROVE LastLoading(d)
  BY <1>2, <1>3, <1>4 DEF NoneLoading, LastLoading
<1>5. ASSUME NoneLoading(s), x.kind # "loading" PROVE NoneLoading(d)
  BY <1>2, <1>3, <1>5 DEF NoneLoading
<1>6. ASSUME NEW ts, Shows(s, ts), ~IsAnswer(x) PROVE Shows(d, ts)
  <2>1. Answers(d) = Answers(s)
    <3>1. \A i \in 1 .. n : i \in 1 .. n + 1
      BY <1>2
    <3> QED BY <1>2, <1>3, <1>6, <3>1 DEF Answers
  <2>2. \A i \in Answers(s) : d[i] = s[i]
    BY <1>2 DEF Answers
  <2> QED BY <1>6, <2>1, <2>2 DEF Shows
<1> QED BY <1>1, <1>4, <1>5, <1>6

LEMMA WithoutLastShows ==
  ASSUME NEW s \in Seq(Messages), NEW kind \in {"error", "loading"}
  PROVE  /\ NoneLoading(s) => NoneLoading(WithoutLast(s, kind))
         /\ LastLoading(s) => NoneLoading(WithoutLast(s, "loading"))
         /\ \A ts : Shows(s, ts) => Shows(WithoutLast(s, kind), ts)
<1>1. ASSUME NEW k \in {"error", "loading"}
      PROVE  /\ NoneLoading(s) => NoneLoading(WithoutLast(s, k))
             /\ \A ts : Shows(s, ts) => Shows(WithoutLast(s, k), ts)
  <2>1. PICK d, n, m : d = WithoutLast(s, k) /\ n = Len(s) /\ m = Len(d)
    OBVIOUS
  <2>2. /\ d \in Seq(Messages) /\ n \in Nat /\ m \in Nat /\ m <= n /\ DOMAIN d = 1 .. m /\ DOMAIN s = 1 .. n
        /\ (\A i \in 1 .. m : d[i] = s[i]) /\ (m # n => m = n - 1 /\ s[n].kind = k)
    BY <2>1, WithoutLastIs
  <2>3. \A i \in 1 .. m : i \in 1 .. n
    BY <2>2
  <2>4. ASSUME NoneLoading(s) PROVE NoneLoading(d)
    BY <2>2, <2>3, <2>4 DEF NoneLoading
  <2>5. ASSUME NEW ts, Shows(s, ts) PROVE Shows(d, ts)
    <3>1. \A i \in 1 .. n : i \in 1 .. m \/ s[i].kind = k
      BY <2>2
    <3>2. Answers(d) = Answers(s)
      BY <2>2, <2>3, <3>1 DEF Answers, IsAnswer
    <3>3. \A i \in Answers(s) : d[i] = s[i]
      BY <2>2, <3>2 DEF Answers
    <3> QED BY <2>5, <3>2, <3>3 DEF Shows
  <2> QED BY <2>1, <2>4, <2>5
<1>2. ASSUME LastLoading(s) PROVE NoneLoading(WithoutLast(s, "loading"))
  <2>1. PICK d, n, m : d = WithoutLast(s, "loading") /\ n = Len(s) /\ m = Len(d)
    OBVIOUS
  <2>2. /\ n \in Nat /\ m \in Nat /\ m <= n /\ DOMAIN d = 1 .. m /\ DOMAIN s = 1 .. n
        /\ (\A i \in 1 .. m : d[i] = s[i]) /\ (m = n => d = <<>> \/ s[n].kind # "loading")
    BY <2>1, WithoutLastIs
  <2>3. ASSUME NEW i \in 1 .. m, d[i].kind = "loading" PROVE FALSE
    <3>1. i \in 1 .. n /\ s[i].kind = "loading"
      BY <2>2, <2>3
    <3>2. i = n
      BY <1>2, <2>1, <2>2, <3>1 DEF LastLoading
    <3>3. m = n /\ d # <<>>
      BY <2>1, <2>2, <3>1, <3>2
    <3> QED BY <2>2, <3>1, <3>2, <3>3
  <2> QED BY <2>1, <2>2, <2>3 DEF NoneLoading
<1> QED BY <1>1, <1>2

LEMMA AscendingAppended ==
  ASSUME NEW ts \in Seq(Nat), NEW n \in Nat, Ascending(ts), \A t \in Range(ts) : t < n
  PROVE  Ascending(Append(ts, n))
<1>1. PICK d, k : d = Append(ts, n) /\ k = Len(ts)
  OBVIOUS
<1>2. /\ k \in Nat /\ DOMAIN d = 1 .. k + 1 /\ DOMAIN ts = 1 .. k /\ d[k + 1] = n /\ \A i \in 1 .. k : d[i] = ts[i]
  BY <1>1, AppendProperties
<1>3. \A i \in 1 .. k : ts[i] < n
  BY <1>2 DEF Range
<1>4. ASSUME NEW i \in 1 .. k + 1, NEW j \in 1 .. k + 1, i < j PROVE d[i] < d[j]
  <2>1. i \in 1 .. k /\ (j \in 1 .. k \/ j = k + 1)
    BY <1>2, <1>4
  <2>2. CASE j \in 1 .. k
    BY <1>2, <1>4, <2>1, <2>2 DEF Ascending
  <2>3. CASE j = k + 1
    BY <1>2, <1>3, <2>1, <2>3
  <2> QED BY <2>1, <2>2, <2>3
<1> QED BY <1>1, <1>2, <1>4 DEF Ascending

LEMMA AscendingFront ==
  ASSUME NEW ts \in Seq(Nat), NEW n \in Nat, Ascending(Append(ts, n))
  PROVE  \A t \in Range(ts) : t < n
<1>1. PICK d, k : d = Append(ts, n) /\ k = Len(ts)
  OBVIOUS
<1>2. /\ k \in Nat /\ DOMAIN d = 1 .. k + 1 /\ DOMAIN ts = 1 .. k /\ d[k + 1] = n /\ \A i \in 1 .. k : d[i] = ts[i]
  BY <1>1, AppendProperties
<1>3. \A i \in 1 .. k : i \in 1 .. k + 1 /\ k + 1 \in 1 .. k + 1 /\ i < k + 1
  BY <1>2
<1>4. \A i \in 1 .. k : d[i] < d[k + 1]
  BY <1>1, <1>2, <1>3 DEF Ascending
<1> QED BY <1>2, <1>4 DEF Range

(* The answer of the next turn.                                            *)
LEMMA AnswerShows ==
  ASSUME NEW s \in Seq(Messages), NEW x \in Messages, NEW ts \in Seq(Nat), NEW n \in Nat,
         Shows(s, ts), IsAnswer(x), x.turn = n, \A t \in Range(ts) : t < n
  PROVE  Shows(Append(s, x), Append(ts, n))
<1>1. PICK d, k : d = Append(s, x) /\ k = Len(s)
  OBVIOUS
<1>2. /\ k \in Nat /\ DOMAIN d = 1 .. k + 1 /\ DOMAIN s = 1 .. k /\ d[k + 1] = x /\ \A i \in 1 .. k : d[i] = s[i]
  BY <1>1, AppendProperties
<1>3. \A i \in 1 .. k + 1 : i \in 1 .. k \/ i = k + 1
  BY <1>2
<1>4. Answers(d) = Answers(s) \cup {k + 1}
  <2>1. k + 1 \in 1 .. k + 1 /\ \A i \in 1 .. k : i \in 1 .. k + 1
    BY <1>2
  <2> QED BY <1>2, <1>3, <2>1 DEF Answers
<1>5. \A i \in Answers(s) : i \in 1 .. k /\ d[i] = s[i] /\ s[i].turn \in Range(ts)
  BY <1>2 DEF Answers, Shows
<1>6. {d[i].turn : i \in Answers(d)} = Range(Append(ts, n))
  <2>1. Range(Append(ts, n)) = Range(ts) \cup {n}
    BY RangeOfAppended
  <2>2. {s[i].turn : i \in Answers(s)} = Range(ts)
    BY DEF Shows
  <2> QED BY <1>2, <1>4, <1>5, <2>1, <2>2
<1>7. ASSUME NEW i \in Answers(d), NEW j \in Answers(d), i < j PROVE d[i].turn < d[j].turn
  <2>1. i \in 1 .. k + 1 /\ j \in 1 .. k + 1
    BY <1>2 DEF Answers
  <2>2. i # k + 1
    BY <1>2, <1>7, <2>1
  <2>3. i \in Answers(s)
    BY <1>4, <2>2
  <2>4. CASE j \in Answers(s)
    BY <1>5, <1>7, <2>3, <2>4 DEF Shows
  <2>5. CASE j = k + 1
    BY <1>2, <1>5, <2>3, <2>5
  <2> QED BY <1>4, <2>4, <2>5
<1>8. Ascending(Append(ts, n))
  BY AscendingAppended DEF Shows
<1> QED BY <1>1, <1>6, <1>7, <1>8 DEF Shows

(* The history of a conversation shows it.                                 *)
LEMMA HistoryShows ==
  ASSUME NEW ts \in Seq(Nat), NEW of \in Workspaces, Ascending(ts)
  PROVE  Shows(Shown(ts, of), ts) /\ NoneLoading(Shown(ts, of))
<1>1. PICK d, n : d = Shown(ts, of) /\ n = Len(ts)
  OBVIOUS
<1>2. /\ n \in Nat /\ DOMAIN d = 1 .. 2 * n /\ DOMAIN ts = 1 .. n
      /\ \A i \in 1 .. 2 * n : /\ (i + 1) \div 2 \in 1 .. n /\ d[i].turn = ts[(i + 1) \div 2]
                               /\ d[i].kind = IF i % 2 = 1 THEN "user" ELSE "assistant"
  BY <1>1, ShownIs
<1>3. NoneLoading(d)
  BY <1>2 DEF NoneLoading
<1>4. \A i \in Answers(d) : i \in 1 .. 2 * n /\ i % 2 # 1 /\ (i + 1) \div 2 \in 1 .. n /\ d[i].turn = ts[(i + 1) \div 2]
  BY <1>2 DEF Answers, IsAnswer
<1>5. \A k \in 1 .. n : 2 * k \in 1 .. 2 * n /\ (2 * k) % 2 # 1 /\ (2 * k + 1) \div 2 = k
  <2>1. ASSUME NEW k \in Nat PROVE (2 * k) % 2 = 0 /\ (2 * k + 1) \div 2 = k
    OBVIOUS
  <2>2. ASSUME NEW k \in 1 .. n PROVE 2 * k \in 1 .. 2 * n
    BY <1>2
  <2>3. \A k \in 1 .. n : k \in Nat
    BY <1>2
  <2> QED BY <2>1, <2>2, <2>3
<1>6. \A k \in 1 .. n : 2 * k \in Answers(d) /\ d[2 * k].turn = ts[k]
  BY <1>2, <1>5 DEF Answers, IsAnswer
<1>7. {d[i].turn : i \in Answers(d)} = Range(ts)
  <2>1. PICK half : half = [i \in 1 .. 2 * n |-> (i + 1) \div 2]
    OBVIOUS
  <2>2. \A i \in Answers(d) : half[i] \in 1 .. n /\ d[i].turn = ts[half[i]]
    BY <1>4, <2>1
  <2>3. \A t \in Range(ts) : \E k \in 1 .. n : t = ts[k]
    BY <1>2 DEF Range
  <2>4. \A k \in 1 .. n : ts[k] \in Range(ts)
    BY <1>2 DEF Range
  <2> QED BY <1>6, <2>2, <2>3, <2>4
<1>8. ASSUME NEW i \in Answers(d), NEW j \in Answers(d), i < j PROVE d[i].turn < d[j].turn
  <2>1. PICK k, l : k = (i + 1) \div 2 /\ l = (j + 1) \div 2
    OBVIOUS
  <2>2. i \in 1 .. 2 * n /\ j \in 1 .. 2 * n /\ i % 2 # 1 /\ j % 2 # 1
    BY <1>4
  <2>3. k < l
    <3>1. ASSUME NEW x \in Nat, NEW y \in Nat, x < y, x % 2 # 1, y % 2 # 1 PROVE (x + 1) \div 2 < (y + 1) \div 2
      BY <3>1
    <3>2. i \in Nat /\ j \in Nat
      BY <1>2, <2>2
    <3> QED BY <1>8, <2>1, <2>2, <3>1, <3>2
  <2>4. k \in 1 .. n /\ l \in 1 .. n /\ d[i].turn = ts[k] /\ d[j].turn = ts[l]
    BY <1>4, <2>1
  <2> QED BY <1>2, <2>3, <2>4 DEF Ascending
<1> QED BY <1>1, <1>3, <1>7, <1>8 DEF Shows

LEMMA CalmInitHolds == ChatInit => CalmInv
<1> SUFFICES ASSUME ChatInit PROVE CalmInv
  OBVIOUS
<1>1. /\ page.messages = <<>> /\ page.active \in Workspaces /\ page.loadedFor = None /\ page.route = "other"
      /\ page.panel = None /\ page.canCorrect = FALSE
  BY DEF ChatInit
<1>2. chatCalls = {} /\ stored = [w \in Workspaces |-> <<>>] /\ corrections = {} /\ sent = 0 /\ chatFaults = 0
  BY DEF ChatInit
<1>3. DOMAIN page.messages = {} /\ Range(page.messages) = {}
  BY <1>1 DEF Range
<1>4. \A w \in Workspaces : DOMAIN stored[w] = {} /\ Range(stored[w]) = {}
  <2>1. \A w \in Workspaces : stored[w] = <<>>
    BY <1>2
  <2>2. DOMAIN <<>> = {} /\ Range(<<>>) = {}
    BY DEF Range
  <2> QED BY <2>1, <2>2
<1>5. PageFits(page, chatCalls, stored[page.active])
  BY <1>1, <1>2, <1>3 DEF PageFits, Asked, NoneLoading, LastLoading
<1>6. Numbered(stored, sent)
  BY <1>4 DEF Numbered, Ascending
<1>7. page.loadedFor # page.active
  BY <1>1, NoneIsNoWorkspace
<1> QED BY <1>2, <1>5, <1>6, <1>7 DEF CalmInv, CalmNow, Calm, OneCall

(* A page without a request under way: what is needed of it.               *)
LEMMA QuietIs ==
  ASSUME ChatInv, CalmNow, chatCalls = {}
  PROVE  /\ page \in Pages /\ page.messages \in Seq(Messages) /\ page.active \in Workspaces
         /\ stored[page.active] \in Seq(Nat) /\ sent \in Nat /\ ~page.historyLoading
         /\ \A m \in Range(page.messages) : m.of = page.active
         /\ NoneLoading(page.messages)
         /\ page.route = "chat" => page.loadedFor = page.active
         /\ page.panel # None => stored[page.active] # <<>> /\ page.panel = LastOf(stored[page.active])
         /\ page.canCorrect => stored[page.active] # <<>> /\ page.correctable = LastOf(stored[page.active])
         /\ chatFaults = 0 /\ page.loadedFor = page.active => Shows(page.messages, stored[page.active])
         /\ \A x \in corrections : x.turn = x.meant
         /\ Numbered(stored, sent)
<1>1. page \in Pages /\ sent \in Nat /\ stored \in [Workspaces -> Seq(Nat)] /\ Waits(page, chatCalls)
  BY DEF ChatInv
<1>2. page.messages \in Seq(Messages) /\ page.active \in Workspaces /\ ~page.historyLoading
  BY <1>1 DEF Pages, Waits
<1>3. PageFits(page, chatCalls, stored[page.active]) /\ ~Asked(chatCalls, "chat") /\ ~Asked(chatCalls, "history")
  BY DEF CalmNow, Calm, Asked
<1>4. ShowsAll(page, chatCalls, stored[page.active]) => Shows(page.messages, stored[page.active])
  BY DEF ShowsAll
<1> QED BY <1>1, <1>2, <1>3, <1>4 DEF CalmNow, Calm, PageFits

(* Steps that ask, of a page without a request under way.                  *)
LEMMA AskingCalm ==
  ASSUME ChatInv, CalmNow, chatCalls = {}, UNCHANGED <<stored, corrections, chatFaults>>,
         NEW n \in Nat, sent' = n, sent <= n, NEW c \in Calls, chatCalls' \in {{}, {c}},
         c.of = page'.active, c.result = "awaited", CallFits(c, stored[page'.active], n, chatFaults),
         PageFits(page', chatCalls', stored[page'.active]),
         chatFaults = 0 /\ page'.loadedFor = page'.active => Shows(page'.messages, stored[page'.active])
  PROVE  CalmNow'
<1>1. OneCall(chatCalls', page'.active)
  BY DEF OneCall
<1>2. \A d \in chatCalls' : CallFits(d, stored[page'.active], n, chatFaults)
  OBVIOUS
<1>3. chatFaults = 0 /\ page'.loadedFor = page'.active => ShowsAll(page', chatCalls', stored[page'.active])
  <2>1. \A d \in chatCalls' : ~(d.kind = "chat" /\ d.result = "ok")
    OBVIOUS
  <2> QED BY <2>1 DEF ShowsAll
<1>4. Numbered(stored, n)
  <2>1. ASSUME NEW w \in Workspaces, NEW t \in Range(stored[w]), t <= sent PROVE t <= n
    <3>1. stored[w] \in Seq(Nat) /\ sent \in Nat
      BY DEF ChatInv
    <3>2. t \in Nat
      BY <3>1 DEF Range
    <3> QED BY <2>1, <3>1, <3>2
  <2>2. Numbered(stored, sent)
    BY DEF CalmNow, Calm
  <2> QED BY <2>1, <2>2 DEF Numbered
<1>5. \A x \in corrections : x.turn = x.meant
  BY DEF CalmNow, Calm
<1> QED BY <1>1, <1>2, <1>3, <1>4, <1>5 DEF CalmNow, Calm

LEMMA SubmitCalm ==
  ASSUME ChatInv, CalmNow, NEW isRetry \in BOOLEAN, SubmitMessage(isRetry), page.route = "chat", ~disturbed'
  PROVE  CalmNow'
<1>1. chatCalls = {} /\ page.panel = None
  BY DEF SubmitMessage
<1>2. PICK turn, before, d, c, l, b :
        /\ turn = sent + 1 /\ before = WithoutLast(page.messages, "error")
        /\ l = Message("loading", turn, page.active)
        /\ b = (IF isRetry THEN before ELSE Append(before, Message("user", turn, page.active)))
        /\ d = before \o (IF isRetry THEN <<>> ELSE <<Message("user", turn, page.active)>>)
                 \o <<Message("loading", turn, page.active)>>
        /\ c = Call("chat", page.active, turn, None)
  OBVIOUS
<1>3. /\ sent' = turn /\ UNCHANGED <<stored, corrections, chatFaults>> /\ chatCalls' = {c}
      /\ page' = [page EXCEPT !.chatLoading = TRUE, !.failedGoal = None, !.composer = FALSE, !.messages = d]
  BY <1>1, <1>2 DEF SubmitMessage
<1>4. /\ page \in Pages /\ page.messages \in Seq(Messages) /\ page.active \in Workspaces
      /\ stored[page.active] \in Seq(Nat) /\ sent \in Nat
      /\ \A m \in Range(page.messages) : m.of = page.active
      /\ NoneLoading(page.messages) /\ page.loadedFor = page.active
      /\ chatFaults = 0 => Shows(page.messages, stored[page.active])
      /\ Numbered(stored, sent)
  BY <1>1, QuietIs
<1>5. turn \in Nat /\ sent <= turn
  BY <1>2, <1>4
<1>6. before \in Seq(Messages) /\ Range(before) \subseteq Range(page.messages)
  BY <1>2, <1>4, WithoutLastRange
<1>7. NoneLoading(before) /\ \A ts : Shows(page.messages, ts) => Shows(before, ts)
  BY <1>2, <1>4, WithoutLastShows
<1>8. PICK u : u = Message("user", turn, page.active)
  OBVIOUS
<1>9. /\ u \in Messages /\ l \in Messages /\ ~IsAnswer(u) /\ ~IsAnswer(l) /\ u.kind # "loading"
      /\ u.of = page.active /\ l.of = page.active
  BY <1>2, <1>4, <1>5, <1>8 DEF Message, Messages, IsAnswer
<1>10. /\ d \in Seq(Messages) /\ d = Append(b, l)
       /\ \A m \in Range(d) \ Range(before) : m = u \/ m = l
  <2>1. d = before \o (IF isRetry THEN <<>> ELSE <<u>>) \o <<l>>
    BY <1>2, <1>8
  <2>2. d \in Seq(Messages) /\ Range(d) \subseteq Range(before) \cup {u, l}
    <3>1. PICK mine \in {<<>>, <<u>>} : d = before \o mine \o <<l>>
      BY <2>1
    <3>2. (before \o mine) \o <<l>> \in Seq(Messages) /\ Range((before \o mine) \o <<l>>) \subseteq Range(before) \cup {u, l}
      BY <1>6, <1>9, <3>1, NewMessages
    <3> QED BY <3>1, <3>2
  <2>4. d = Append(b, l)
    <3>2. before \o (IF isRetry THEN <<>> ELSE <<u>>) = b
      <4>1. CASE isRetry
        BY <1>2, <1>6, <4>1, ConcatEmptySeq
      <4>2. CASE ~isRetry
        <5>1. b = Append(before, u)
          BY <1>2, <1>8, <4>2
        <5> QED BY <1>6, <1>9, <4>2, <5>1, AppendIsConcat
      <4> QED BY <4>1, <4>2
    <3>3. b \in Seq(Messages)
      BY <1>2, <1>6, <1>8, <1>9, RangeOfAppended
    <3> QED BY <1>9, <2>1, <3>2, <3>3, AppendIsConcat
  <2> QED BY <2>2, <2>4
<1>11. b \in Seq(Messages) /\ NoneLoading(b) /\ \A ts : Shows(before, ts) => Shows(b, ts)
  <2>1. CASE isRetry
    BY <1>2, <1>6, <1>7, <2>1
  <2>2. CASE ~isRetry
    <3>1. b = Append(before, u)
      BY <1>2, <1>8, <2>2
    <3>2. Append(before, u) \in Seq(Messages)
      BY <1>6, <1>9
    <3>3. NoneLoading(Append(before, u)) /\ \A ts : Shows(before, ts) => Shows(Append(before, u), ts)
      BY <1>6, <1>7, <1>9, AppendedShows
    <3> QED BY <3>1, <3>2, <3>3
  <2> QED BY <2>1, <2>2
<1>12. LastLoading(Append(b, l)) /\ \A ts : Shows(b, ts) => Shows(Append(b, l), ts)
  BY <1>9, <1>11, AppendedShows
<1>13. /\ page'.messages = d /\ page'.active = page.active /\ page'.loadedFor = page.loadedFor /\ page'.panel = page.panel
       /\ page'.route = page.route
  BY <1>3, <1>4 DEF Pages
<1>14. c \in Calls /\ c.kind = "chat" /\ c.of = page.active /\ c.turn = turn /\ c.result = "awaited"
  BY <1>2, <1>4, <1>5 DEF Call, Calls
<1>15. CallFits(c, stored[page.active], turn, chatFaults)
  <2>1. ASSUME NEW t \in Range(stored[page.active]) PROVE t < turn
    <3>1. t \in Nat
      BY <1>4 DEF Range
    <3>2. t <= sent
      BY <1>4 DEF Numbered
    <3> QED BY <1>2, <1>4, <3>1, <3>2
  <2> QED BY <1>5, <1>14, <2>1 DEF CallFits
<1>16. PageFits(page', chatCalls', stored[page.active])
  <2>1. \A m \in Range(d) : m.of = page.active
    BY <1>4, <1>6, <1>9, <1>10
  <2>2. Asked({c}, "chat")
    BY <1>14 DEF Asked
  <2> QED BY <1>1, <1>3, <1>4, <1>10, <1>12, <1>13, <2>1, <2>2 DEF PageFits
<1>17. chatFaults = 0 => Shows(page'.messages, stored[page.active])
  BY <1>4, <1>7, <1>10, <1>11, <1>12, <1>13
<1> QED BY <1>1, <1>3, <1>5, <1>13, <1>14, <1>15, <1>16, <1>17, AskingCalm
LEMMA PanelCalm ==
  ASSUME ChatInv, CalmNow, OpenPanel \/ ClosePanel, ~disturbed'
  PROVE  CalmNow'
<1>1. UNCHANGED <<chatCalls, stored, corrections, sent, chatFaults>> /\ page' = [page EXCEPT !.panel = page'.panel]
  <2>1. page \in Pages
    BY DEF ChatInv
  <2> QED BY <2>1 DEF OpenPanel, ClosePanel, Pages
<1>2. /\ page'.messages = page.messages /\ page'.active = page.active /\ page'.loadedFor = page.loadedFor
      /\ page'.route = page.route /\ page'.canCorrect = page.canCorrect /\ page'.correctable = page.correctable
  <2>1. page \in Pages
    BY DEF ChatInv
  <2> QED BY <1>1, <2>1 DEF Pages
<1>3. PageFits(page', chatCalls, stored[page.active])
  <2>1. CASE OpenPanel
    <3>1. chatCalls = {} /\ page.canCorrect /\ page' = [page EXCEPT !.panel = page.correctable] /\ page \in Pages
      BY <2>1 DEF OpenPanel, Acts, ChatInv
    <3>2. page'.panel = page.correctable
      BY <3>1 DEF Pages
    <3>3. ~Asked(chatCalls, "chat")
      BY <3>1 DEF Asked
    <3> QED BY <1>2, <3>1, <3>2, <3>3 DEF PageFits, CalmNow, Calm
  <2>2. CASE ClosePanel
    <3>1. page' = [page EXCEPT !.panel = None] /\ page \in Pages
      BY <2>2 DEF ClosePanel, ChatInv
    <3>2. page'.panel = None
      BY <3>1 DEF Pages
    <3> QED BY <1>2, <3>2 DEF PageFits, CalmNow, Calm
  <2> QED BY <2>1, <2>2
<1> QED BY <1>1, <1>2, <1>3 DEF CalmNow, Calm, ShowsAll

LEMMA CorrectCalm == ASSUME ChatInv, CalmNow, Correct, ~disturbed' PROVE CalmNow'
<1>1. PICK c : c = Call("correct", page.active, sent + 1, page.panel)
  OBVIOUS
<1>2. /\ chatCalls = {} /\ page.panel # None /\ chatCalls' = {c}
      /\ sent' = sent + 1 /\ UNCHANGED <<page, stored, corrections, chatFaults>>
  BY <1>1 DEF Correct, Acts
<1>3. page \in Pages /\ page.active \in Workspaces /\ sent \in Nat
  BY <1>2, QuietIs
<1>4. /\ stored[page.active] # <<>> /\ page.panel = LastOf(stored[page.active])
      /\ chatFaults = 0 /\ page.loadedFor = page.active => Shows(page.messages, stored[page.active])
  BY <1>2, QuietIs
<1>5. /\ c \in Calls /\ c.kind = "correct" /\ c.of = page.active /\ c.result = "awaited"
      /\ c.meant = page.panel
  BY <1>1, <1>3 DEF Call, Calls, Pages
<1>6. CallFits(c, stored[page.active], sent + 1, chatFaults)
  BY <1>4, <1>5 DEF CallFits
<1>7. PageFits(page, {c}, stored[page.active])
  <2>1. Asked({c}, "chat") <=> Asked({}, "chat")
    BY <1>5 DEF Asked
  <2>2. ~Asked({}, "history") /\ ~Asked({}, "chat")
    BY DEF Asked
  <2>3. PageFits(page, {}, stored[page.active])
    BY <1>2 DEF CalmNow, Calm
  <2> QED BY <2>1, <2>2, <2>3 DEF PageFits
<1>8. sent + 1 \in Nat /\ sent <= sent + 1
  BY <1>3
<1> QED BY <1>2, <1>4, <1>5, <1>6, <1>7, <1>8, AskingCalm

LEMMA ArriveCalm ==
  ASSUME ChatInv, CalmNow, NEW p \in Pages, Arrive(p), chatCalls = {}, UNCHANGED <<stored, corrections, sent, chatFaults>>,
         ~p.historyLoading, \A m \in Range(p.messages) : m.of = p.active, NoneLoading(p.messages),
         p.canCorrect => stored[p.active] # <<>> /\ p.correctable = LastOf(stored[p.active]),
         chatFaults = 0 /\ p.loadedFor = p.active => Shows(p.messages, stored[p.active])
  PROVE  CalmNow'
<1>1. PICK h : h = Call("history", p.active, None, None)
  OBVIOUS
<1>2. h \in Calls /\ h.kind = "history" /\ h.result = "awaited" /\ h.of = p.active
  BY <1>1 DEF Call, Calls, Pages
<1>3. PICK asking : asking = (p.route = "chat" /\ p.loadedFor # p.active)
  OBVIOUS
<1>4. /\ page'.messages = p.messages /\ page'.active = p.active /\ page'.loadedFor = p.loadedFor /\ page'.route = p.route
      /\ page'.canCorrect = p.canCorrect /\ page'.correctable = p.correctable /\ page'.panel = None
      /\ chatCalls' = IF asking THEN {h} ELSE {}
  <2>1. CASE p.route = "chat"
    <3>1. page' = Rendered(p) /\ chatCalls' = chatCalls \cup HistoryCalls(p)
      BY <2>1 DEF Arrive
    <3>2. page' = [p EXCEPT !.composer = TRUE, !.panel = None, !.historyLoading = page'.historyLoading]
      BY <3>1 DEF Rendered, Pages
    <3>3. chatCalls' = IF asking THEN {h} ELSE {}
      BY <1>1, <1>3, <2>1, <3>1 DEF HistoryCalls, NeedsHistory
    <3> QED BY <3>2, <3>3 DEF Pages
  <2>2. CASE p.route # "chat"
    <3>1. page' = [p EXCEPT !.composer = TRUE, !.panel = None] /\ chatCalls' = chatCalls
      BY <2>2 DEF Arrive
    <3> QED BY <1>3, <2>2, <3>1 DEF Pages
  <2> QED BY <2>1, <2>2
<1>5. CallFits(h, stored[p.active], sent, chatFaults)
  BY <1>2 DEF CallFits
<1>6. PageFits(page', chatCalls', stored[p.active])
  <2>1. ~Asked(chatCalls', "chat")
    BY <1>2, <1>4 DEF Asked
  <2>2. page'.route = "chat" => page'.loadedFor = page'.active \/ Asked(chatCalls', "history")
    BY <1>2, <1>3, <1>4 DEF Asked
  <2>3. LastLoading(page'.messages)
    BY <1>4 DEF NoneLoading, LastLoading
  <2> QED BY <1>4, <2>1, <2>2, <2>3 DEF PageFits
<1>7. sent \in Nat /\ sent' = sent /\ sent <= sent
  BY DEF ChatInv
<1>8. chatCalls' \in {{}, {h}}
  BY <1>4
<1> QED BY <1>2, <1>4, <1>5, <1>6, <1>7, <1>8, AskingCalm

LEMMA SwitchCalm == ASSUME ChatInv, CalmNow, SwitchWorkspace \/ SetRoute, ~disturbed' PROVE CalmNow'
<1>1. chatCalls = {} /\ UNCHANGED <<stored, corrections, sent, chatFaults>>
  BY DEF SwitchWorkspace, SetRoute, Acts
<1>2. /\ page \in Pages /\ page.active \in Workspaces /\ ~page.historyLoading
      /\ \A m \in Range(page.messages) : m.of = page.active
      /\ NoneLoading(page.messages)
      /\ page.canCorrect => stored[page.active] # <<>> /\ page.correctable = LastOf(stored[page.active])
      /\ chatFaults = 0 /\ page.loadedFor = page.active => Shows(page.messages, stored[page.active])
  BY <1>1, QuietIs
<1>3. CASE SwitchWorkspace
  <2>1. PICK w \in Workspaces : Arrive(Cleared(page, w))
    BY <1>3 DEF SwitchWorkspace
  <2>2. PICK p : p = Cleared(page, w)
    OBVIOUS
  <2>3. <<>> \in Seq(Messages)
    OBVIOUS
  <2>4. /\ p \in Pages /\ p.messages = <<>> /\ p.historyLoading = page.historyLoading /\ p.active = w
        /\ p.loadedFor = None /\ p.canCorrect = FALSE
    BY <1>2, <2>2, <2>3 DEF Cleared, Pages
  <2>5. Range(p.messages) = {} /\ NoneLoading(p.messages)
    BY <2>4 DEF Range, NoneLoading
  <2>6. p.loadedFor # p.active
    BY <2>1, <2>4, NoneIsNoWorkspace
  <2> QED BY <1>1, <1>2, <2>1, <2>2, <2>4, <2>5, <2>6, ArriveCalm
<1>4. CASE SetRoute
  <2>1. PICK r \in {"chat", "other"} : Arrive([page EXCEPT !.route = r])
    BY <1>4 DEF SetRoute
  <2>2. PICK p : p = [page EXCEPT !.route = r]
    OBVIOUS
  <2>3. /\ p \in Pages /\ p.messages = page.messages /\ p.historyLoading = page.historyLoading /\ p.active = page.active
        /\ p.loadedFor = page.loadedFor /\ p.canCorrect = page.canCorrect /\ p.correctable = page.correctable
    BY <1>2, <2>1, <2>2 DEF Pages
  <2> QED BY <1>1, <1>2, <2>1, <2>2, <2>3, ArriveCalm
<1> QED BY <1>3, <1>4
(* The one request under way is answered.                                  *)
LEMMA AnsweredCalm ==
  ASSUME ChatInv, CalmNow, NEW c \in chatCalls, c.result = "awaited",
         NEW result \in {"ok", "failed"}, NEW turns \in Seq(Nat), Answered(c, result, turns),
         result = "failed" => chatFaults' # 0, chatFaults' = 0 => chatFaults = 0,
         result = "ok" => turns = stored[c.of],
         UNCHANGED <<page, sent>>, c.kind # "chat" => UNCHANGED stored,
         c.kind = "chat" => stored' = stored \/ stored' = [stored EXCEPT ![c.of] = Append(@, c.turn)],
         c.kind = "chat" /\ result = "ok" => stored' = [stored EXCEPT ![c.of] = Append(@, c.turn)],
         \A x \in corrections' : x.turn = x.meant
  PROVE  CalmNow'
<1>1. PICK d, w : d = [c EXCEPT !.result = result, !.turns = turns] /\ w = page.active
  OBVIOUS
<1>2. c \in Calls /\ c.of = w /\ \A e \in chatCalls : e = c
  BY <1>1 DEF ChatInv, CalmNow, Calm, OneCall
<1>3. /\ d \in Calls /\ d.kind = c.kind /\ d.of = w /\ d.turn = c.turn /\ d.meant = c.meant
      /\ d.result = result /\ d.turns = turns
  BY <1>1, <1>2 DEF Calls
<1>4. chatCalls' = {d} /\ chatCalls = {c}
  BY <1>1, <1>2 DEF Answered
<1>5. /\ w \in Workspaces /\ stored \in [Workspaces -> Seq(Nat)] /\ stored[w] \in Seq(Nat) /\ sent \in Nat
  BY <1>2 DEF ChatInv, Calls
<1>6. /\ CallFits(c, stored[w], sent, chatFaults) /\ PageFits(page, {c}, stored[w]) /\ Numbered(stored, sent)
      /\ chatFaults = 0 /\ page.loadedFor = w => ShowsAll(page, {c}, stored[w])
  BY <1>1, <1>4 DEF CalmNow, Calm
<1>7. /\ Asked({c}, "chat") <=> Asked({d}, "chat")
      /\ Asked({c}, "history") <=> Asked({d}, "history")
  BY <1>3 DEF Asked
<1>8. OneCall({d}, w)
  BY <1>3 DEF OneCall
<1>9. ASSUME stored' = stored, c.kind = "chat" => result # "ok"
      PROVE  CalmNow'
  <2>1. CallFits(d, stored[w], sent, chatFaults')
    BY <1>2, <1>3, <1>6, <1>9 DEF CallFits
  <2>2. PageFits(page, {d}, stored[w])
    BY <1>6, <1>7 DEF PageFits
  <2>3. ASSUME chatFaults' = 0, page.loadedFor = w PROVE ShowsAll(page, {d}, stored[w])
    <3>1. ShowsAll(page, {c}, stored[w])
      BY <1>6, <2>3
    <3>2. Shows(page.messages, stored[w])
      BY <3>1 DEF ShowsAll
    <3> QED BY <1>3, <1>9, <3>2 DEF ShowsAll
  <2> QED BY <1>1, <1>4, <1>6, <1>8, <1>9, <2>1, <2>2, <2>3 DEF CalmNow, Calm
<1>10. ASSUME c.kind = "chat", stored' = [stored EXCEPT ![c.of] = Append(@, c.turn)]
       PROVE  CalmNow'
  <2>1. PICK s, t, g : s = stored[w] /\ t = c.turn /\ g = Append(s, t)
    OBVIOUS
  <2>2. s \in Seq(Nat) /\ t \in Nat /\ t <= sent /\ (\A x \in Range(s) : x < t)
    BY <1>5, <1>6, <1>10, <2>1 DEF CallFits, ChatInv, Tells
  <2>3. stored'[w] = g /\ \A v \in Workspaces \ {w} : stored'[v] = stored[v]
    BY <1>2, <1>5, <1>10, <2>1
  <2>4. /\ g \in Seq(Nat) /\ g # <<>> /\ LastOf(g) = t
    <3>1. g \in Seq(Nat) /\ Len(g) = Len(s) + 1 /\ Len(s) \in Nat /\ g[Len(s) + 1] = t
      BY <2>1, <2>2, AppendedIs
    <3>2. g # <<>>
      BY <3>1, EmptySeq
    <3> QED BY <3>1, <3>2 DEF LastOf
  <2>5. CallFits(d, g, sent, chatFaults')
    BY <1>3, <1>10, <2>1, <2>2, <2>4 DEF CallFits
  <2>6. PageFits(page, {d}, g)
    <3>1. Asked({c}, "chat")
      BY <1>10 DEF Asked
    <3> QED BY <1>6, <1>7, <3>1 DEF PageFits
  <2>7. ASSUME chatFaults' = 0, page.loadedFor = w PROVE ShowsAll(page, {d}, g)
    <3>1. Shows(page.messages, s)
      BY <1>6, <2>1, <2>7 DEF ShowsAll
    <3>2. result = "ok"
      BY <2>7
    <3>3. g = Append(s, d.turn)
      BY <1>3, <2>1
    <3> QED BY <1>3, <1>10, <2>2, <3>1, <3>2, <3>3 DEF ShowsAll
  <2>8. Numbered(stored', sent)
    <3>1. Ascending(Append(s, t)) /\ Range(Append(s, t)) = Range(s) \cup {t}
      <4>1. Ascending(s)
        BY <1>5, <1>6, <2>1 DEF Numbered
      <4> QED BY <2>2, <4>1, AscendingAppended, RangeOfAppended
    <3>2. Ascending(g) /\ \A x \in Range(g) : x <= sent
      BY <1>5, <1>6, <2>1, <2>2, <3>1 DEF Numbered
    <3> QED BY <1>6, <2>3, <3>2 DEF Numbered
  <2> QED BY <1>1, <1>4, <1>8, <2>3, <2>5, <2>6, <2>7, <2>8 DEF CalmNow, Calm
<1> QED BY <1>9, <1>10

LEMMA ServeCalm == ASSUME ChatInv, chatFaults \in Nat, CalmNow, NEW c \in chatCalls, ServeChat(c) \/ FailChat(c) PROVE CalmNow'
<1>1. /\ c.result = "awaited" /\ c \in Calls /\ UNCHANGED <<page, sent>> /\ c.of = page.active
      /\ CallFits(c, stored[c.of], sent, chatFaults) /\ \A x \in corrections : x.turn = x.meant
  BY DEF ServeChat, FailChat, ChatInv, CalmNow, Calm, OneCall
<1>2. stored[c.of] \in Seq(Nat) /\ <<>> \in Seq(Nat)
  BY <1>1 DEF ChatInv, Calls
<1>3. CASE FailChat(c)
  <2>1. Answered(c, "failed", <<>>) /\ UNCHANGED <<stored, corrections>> /\ chatFaults' # 0
    <3>1. chatFaults < MaxFaults /\ chatFaults' = chatFaults + 1
      BY <1>3 DEF FailChat
    <3> QED BY <1>3, <3>1 DEF FailChat
  <2> QED BY <1>1, <1>2, <2>1, AnsweredCalm
<1>4. CASE ServeChat(c)
  <2>1. \A x \in corrections' : x.turn = x.meant
    BY <1>1, <1>4 DEF ServeChat, CallFits
  <2>2. /\ c.kind # "chat" => UNCHANGED stored
        /\ c.kind = "chat" => stored' = [stored EXCEPT ![c.of] = Append(@, c.turn)]
    BY <1>4 DEF ServeChat, Kept
  <2>3. CASE Answered(c, "ok", stored[c.of]) /\ UNCHANGED chatFaults
    BY <1>1, <1>2, <2>1, <2>2, <2>3, AnsweredCalm
  <2>4. CASE chatFaults' = chatFaults + 1 /\ Answered(c, "failed", <<>>)
    <3>1. chatFaults' # 0
      BY <2>4
    <3> QED BY <1>1, <1>2, <2>1, <2>2, <2>4, <3>1, AnsweredCalm
  <2> QED BY <1>4, <2>3, <2>4 DEF ServeChat
<1> QED BY <1>3, <1>4
(* The page handles the one answer under way.                              *)
LEMMA HandledCalm ==
  ASSUME ChatInv, CalmNow, NEW c \in chatCalls, HandleChat(c), UNCHANGED <<stored, corrections, sent, chatFaults>>,
         page'.active = page.active, page'.route = page.route,
         \A m \in Range(page'.messages) : m.of = page.active,
         NoneLoading(page'.messages),
         page'.route = "chat" => page'.loadedFor = page'.active,
         page'.panel # None => stored[page.active] # <<>> /\ page'.panel = LastOf(stored[page.active]),
         page'.canCorrect => stored[page.active] # <<>> /\ page'.correctable = LastOf(stored[page.active]),
         chatFaults = 0 /\ page'.loadedFor = page.active => Shows(page'.messages, stored[page.active])
  PROVE  CalmNow'
<1>1. chatCalls' = {}
  BY DEF HandleChat, CalmNow, Calm, OneCall
<1>2. PageFits(page', {}, stored[page.active])
  BY DEF PageFits, Asked, NoneLoading, LastLoading
<1>3. ShowsAll(page', {}, stored[page.active]) <=> Shows(page'.messages, stored[page.active])
  BY DEF ShowsAll
<1>4. Numbered(stored, sent) /\ (\A x \in corrections : x.turn = x.meant)
  BY DEF CalmNow, Calm
<1> QED BY <1>1, <1>2, <1>3, <1>4 DEF CalmNow, Calm, OneCall

(* What is known of the answer and the page then.                          *)
LEMMA AnswerIs ==
  ASSUME ChatInv, CalmNow, NEW c \in chatCalls, HandleChat(c)
  PROVE  /\ c \in Calls /\ c.of = page.active /\ page.active \in Workspaces /\ page \in Pages
         /\ page.messages \in Seq(Messages) /\ stored[page.active] \in Seq(Nat)
         /\ UNCHANGED <<stored, corrections, sent, chatFaults>> /\ c.result \in {"ok", "failed"}
         /\ CallFits(c, stored[page.active], sent, chatFaults)
         /\ PageFits(page, {c}, stored[page.active])
         /\ chatFaults = 0 /\ page.loadedFor = page.active => ShowsAll(page, {c}, stored[page.active])
         /\ Ascending(stored[page.active]) /\ Tells(c, stored)
<1>1. chatCalls = {c} /\ c.of = page.active
  BY DEF CalmNow, Calm, OneCall
<1>2. c \in Calls /\ page \in Pages /\ stored \in [Workspaces -> Seq(Nat)] /\ Tells(c, stored)
  BY DEF ChatInv
<1>3. page.active \in Workspaces /\ page.messages \in Seq(Messages) /\ stored[page.active] \in Seq(Nat)
  BY <1>2 DEF Pages
<1>4. c.result \in {"ok", "failed"} /\ UNCHANGED <<stored, corrections, sent, chatFaults>>
  BY <1>2 DEF HandleChat, Calls
<1> QED BY <1>1, <1>2, <1>3, <1>4 DEF CalmNow, Calm, Numbered

LEMMA ChatAnsweredCalm == ASSUME ChatInv, CalmNow, NEW c \in chatCalls, HandleChat(c), ChatAnswered(c) PROVE CalmNow'
<1>1. PICK turns : turns = stored[page.active]
  OBVIOUS
<1>2. /\ c \in Calls /\ c.of = page.active /\ page.active \in Workspaces /\ page \in Pages
      /\ page.messages \in Seq(Messages) /\ turns \in Seq(Nat)
      /\ UNCHANGED <<stored, corrections, sent, chatFaults>> /\ c.result \in {"ok", "failed"}
      /\ CallFits(c, turns, sent, chatFaults) /\ PageFits(page, {c}, turns)
      /\ chatFaults = 0 /\ page.loadedFor = page.active => ShowsAll(page, {c}, turns)
      /\ Ascending(turns)
  BY <1>1, AnswerIs
<1>3. c.kind = "chat" /\ c.turn \in Nat
  BY AnswerIs DEF ChatAnswered, Tells
<1>4. Asked({c}, "chat")
  BY <1>3 DEF Asked
<1>5. /\ \A m \in Range(page.messages) : m.of = page.active
      /\ LastLoading(page.messages) /\ page.loadedFor = page.active /\ page.panel = None
  BY <1>2, <1>4 DEF PageFits
<1>6. PICK kind, m, b, d : /\ kind = (IF c.result = "ok" THEN "assistant" ELSE "error") /\ m = Message(kind, c.turn, c.of)
                           /\ b = WithoutLast(page.messages, "loading") /\ d = Append(b, m)
  OBVIOUS
<1>7. m \in Messages /\ m.kind # "loading" /\ m.of = page.active /\ m.turn = c.turn /\ (c.result = "ok" => IsAnswer(m))
  BY <1>2, <1>3, <1>6 DEF Message, Messages, IsAnswer
<1>8. b \in Seq(Messages) /\ Range(b) \subseteq Range(page.messages)
  BY <1>2, <1>6, WithoutLastRange
<1>9. NoneLoading(b) /\ \A ts : Shows(page.messages, ts) => Shows(b, ts)
  BY <1>2, <1>5, <1>6, WithoutLastShows
<1>10. NoneLoading(d) /\ \A x \in Range(d) : x.of = page.active
  <2>1. NoneLoading(Append(b, m)) /\ Range(Append(b, m)) = Range(b) \cup {m}
    BY <1>7, <1>8, <1>9, AppendedShows, RangeOfAppended
  <2> QED BY <1>5, <1>6, <1>7, <1>8, <2>1
<1>11. CASE c.result = "ok"
  <2>1. page' = [page EXCEPT !.messages = d, !.chatLoading = FALSE, !.canCorrect = TRUE, !.correctable = c.turn,
                             !.loadedFor = c.of, !.composer = TRUE]
    BY <1>6, <1>11 DEF ChatAnswered, ReplaceLoading
  <2>2. /\ page'.messages = d /\ page'.active = page.active /\ page'.route = page.route /\ page'.loadedFor = page.active
        /\ page'.panel = None /\ page'.correctable = c.turn
    BY <1>2, <1>5, <2>1 DEF Pages
  <2>3. turns # <<>> /\ LastOf(turns) = c.turn
    BY <1>2, <1>3, <1>11 DEF CallFits
  <2>4. ASSUME chatFaults = 0 PROVE Shows(d, turns)
    <3>1. PICK ts \in Seq(Nat) : turns = Append(ts, c.turn) /\ Shows(page.messages, ts)
      BY <1>2, <1>3, <1>5, <1>11, <2>4 DEF ShowsAll
    <3>2. Shows(b, ts)
      BY <1>9, <3>1
    <3>3. \A t \in Range(ts) : t < c.turn
      BY <1>2, <1>3, <3>1, AscendingFront
    <3>4. Shows(Append(b, m), Append(ts, c.turn))
      BY <1>3, <1>7, <1>8, <1>11, <3>2, <3>3, AnswerShows
    <3> QED BY <1>6, <3>1, <3>4
  <2> QED BY <1>1, <1>2, <1>10, <2>2, <2>3, <2>4, HandledCalm
<1>12. CASE c.result # "ok"
  <2>1. page' = [page EXCEPT !.messages = d, !.chatLoading = FALSE, !.canCorrect = FALSE, !.failedGoal = c.turn,
                             !.composer = TRUE]
    BY <1>6, <1>12 DEF ChatAnswered, ReplaceLoading
  <2>2. /\ page'.messages = d /\ page'.active = page.active /\ page'.route = page.route /\ page'.loadedFor = page.active
        /\ page'.panel = None /\ page'.canCorrect = FALSE
    BY <1>2, <1>5, <2>1 DEF Pages
  <2>3. chatFaults # 0
    BY <1>2, <1>12 DEF CallFits
  <2> QED BY <1>1, <1>2, <1>10, <2>2, <2>3, HandledCalm
<1> QED BY <1>11, <1>12

LEMMA HistoryAnsweredCalm == ASSUME ChatInv, CalmNow, NEW c \in chatCalls, HandleChat(c), HistoryAnswered(c) PROVE CalmNow'
<1>1. PICK turns : turns = stored[page.active]
  OBVIOUS
<1>2. /\ c \in Calls /\ c.of = page.active /\ page.active \in Workspaces /\ page \in Pages
      /\ page.messages \in Seq(Messages) /\ turns \in Seq(Nat)
      /\ UNCHANGED <<stored, corrections, sent, chatFaults>> /\ c.result \in {"ok", "failed"}
      /\ CallFits(c, turns, sent, chatFaults) /\ PageFits(page, {c}, turns)
      /\ Ascending(turns)
  BY <1>1, AnswerIs
<1>3. c.kind = "history" /\ ~Asked({c}, "chat")
  BY DEF HistoryAnswered, Asked
<1>4. /\ \A m \in Range(page.messages) : m.of = page.active
      /\ NoneLoading(page.messages)
      /\ page.panel # None => turns # <<>> /\ page.panel = LastOf(turns)
      /\ page.canCorrect => turns # <<>> /\ page.correctable = LastOf(turns)
  BY <1>2, <1>3 DEF PageFits
<1>5. CASE c.result = "ok"
  <2>1. c.turns = turns
    BY <1>2, <1>3, <1>5 DEF CallFits
  <2>2. PICK d, last, some : d = Shown(c.turns, c.of) /\ last = LastOf(c.turns) /\ some = (c.turns # <<>>)
    OBVIOUS
  <2>3. Shows(d, turns) /\ NoneLoading(d) /\ \A m \in Range(d) : m.of = page.active
    BY <1>2, <2>1, <2>2, HistoryShows, ShownRange
  <2>4. page' = [page EXCEPT !.messages = d, !.canCorrect = some, !.correctable = last,
                             !.failedGoal = None, !.historyLoading = FALSE, !.loadedFor = c.of]
    BY <1>2, <1>5, <2>2 DEF HistoryAnswered, HistoryEnds, Pages
  <2>5. /\ page'.messages = d /\ page'.active = page.active /\ page'.route = page.route /\ page'.loadedFor = page.active
        /\ page'.panel = page.panel /\ page'.canCorrect = some /\ page'.correctable = last
    BY <1>2, <2>4 DEF Pages
  <2> QED BY <1>1, <1>2, <1>4, <2>1, <2>2, <2>3, <2>5, HandledCalm
<1>6. CASE c.result # "ok"
  <2>1. page' = [page EXCEPT !.historyLoading = FALSE, !.loadedFor = c.of]
    BY <1>6 DEF HistoryAnswered, HistoryEnds
  <2>2. /\ page'.messages = page.messages /\ page'.active = page.active /\ page'.route = page.route
        /\ page'.loadedFor = page.active /\ page'.panel = page.panel /\ page'.canCorrect = page.canCorrect
        /\ page'.correctable = page.correctable
    BY <1>2, <2>1 DEF Pages
  <2>3. chatFaults # 0
    BY <1>2, <1>6 DEF CallFits
  <2> QED BY <1>1, <1>2, <1>4, <2>2, <2>3, HandledCalm
<1> QED BY <1>5, <1>6

LEMMA CorrectAnsweredCalm == ASSUME ChatInv, CalmNow, NEW c \in chatCalls, HandleChat(c), CorrectAnswered(c) PROVE CalmNow'
<1>1. PICK turns : turns = stored[page.active]
  OBVIOUS
<1>2. /\ c \in Calls /\ c.of = page.active /\ page.active \in Workspaces /\ page \in Pages
      /\ page.messages \in Seq(Messages) /\ turns \in Seq(Nat)
      /\ UNCHANGED <<stored, corrections, sent, chatFaults>>
      /\ PageFits(page, {c}, turns)
      /\ chatFaults = 0 /\ page.loadedFor = page.active => ShowsAll(page, {c}, turns)
  BY <1>1, AnswerIs
<1>3. c.kind = "correct" /\ c.turn \in Nat /\ ~Asked({c}, "chat") /\ ~Asked({c}, "history")
  BY AnswerIs DEF CorrectAnswered, Asked, Tells
<1>4. /\ \A m \in Range(page.messages) : m.of = page.active
      /\ NoneLoading(page.messages)
      /\ page.route = "chat" => page.loadedFor = page.active
      /\ page.panel # None => turns # <<>> /\ page.panel = LastOf(turns)
      /\ page.canCorrect => turns # <<>> /\ page.correctable = LastOf(turns)
  BY <1>2, <1>3 DEF PageFits
<1>5. PICK kind, m, d : /\ kind = (IF c.result = "ok" THEN "system" ELSE "error") /\ m = Message(kind, c.turn, c.of)
                        /\ d = Append(page.messages, m)
  OBVIOUS
<1>6. m \in Messages /\ m.kind # "loading" /\ m.of = page.active /\ ~IsAnswer(m)
  BY <1>2, <1>3, <1>5 DEF Message, Messages, IsAnswer
<1>7. NoneLoading(d) /\ (\A x \in Range(d) : x.of = page.active) /\ \A ts : Shows(page.messages, ts) => Shows(d, ts)
  <2>1. /\ NoneLoading(Append(page.messages, m)) /\ Range(Append(page.messages, m)) = Range(page.messages) \cup {m}
        /\ \A ts : Shows(page.messages, ts) => Shows(Append(page.messages, m), ts)
    BY <1>2, <1>4, <1>6, AppendedShows, RangeOfAppended
  <2> QED BY <1>4, <1>5, <1>6, <2>1
<1>8. PICK panel \in {page.panel, None}, can \in {page.canCorrect, FALSE} :
        page' = [page EXCEPT !.messages = d, !.canCorrect = can, !.panel = panel]
  <2>1. PICK panel \in {page.panel, None} :
          page' = IF c.result = "ok" THEN [page EXCEPT !.messages = d, !.canCorrect = FALSE, !.panel = panel]
                  ELSE [page EXCEPT !.messages = d, !.panel = panel]
    BY <1>5 DEF CorrectAnswered
  <2>2. CASE c.result = "ok"
    BY <2>1, <2>2
  <2>3. CASE c.result # "ok"
    <3>1. page' = [page EXCEPT !.messages = d, !.canCorrect = page.canCorrect, !.panel = panel]
      BY <1>2, <2>1, <2>3 DEF Pages
    <3> QED BY <3>1
  <2> QED BY <2>2, <2>3
<1>9. /\ page'.messages = d /\ page'.active = page.active /\ page'.route = page.route /\ page'.loadedFor = page.loadedFor
      /\ page'.panel = panel /\ page'.canCorrect = can /\ page'.correctable = page.correctable
  BY <1>2, <1>8 DEF Pages
<1>10. ASSUME chatFaults = 0, page.loadedFor = page.active PROVE Shows(d, turns)
  <2>1. Shows(page.messages, turns)
    BY <1>2, <1>3, <1>10 DEF ShowsAll
  <2> QED BY <1>7, <2>1
<1> QED BY <1>1, <1>2, <1>4, <1>7, <1>8, <1>9, <1>10, HandledCalm

LEMMA CalmStep == ChatInv /\ CalmInv /\ [ChatNext]_chatVars => CalmInv'
<1> SUFFICES ASSUME ChatInv, CalmInv, [ChatNext]_chatVars PROVE CalmInv'
  OBVIOUS
<1>1. chatFaults' \in Nat
  <2>1. chatFaults \in Nat
    BY DEF CalmInv
  <2> QED BY <2>1 DEF chatVars, ChatNext, Send, Retry, SubmitMessage, OpenPanel, ClosePanel, Correct, SwitchWorkspace,
                      SetRoute, ServeChat, FailChat, HandleChat
<1>2. ASSUME ~disturbed' PROVE ~disturbed
  BY <1>2 DEF chatVars, ChatNext, Send, Retry, SubmitMessage, OpenPanel, ClosePanel, Correct, SwitchWorkspace,
              SetRoute, ServeChat, FailChat, HandleChat, Acts
<1>3. ASSUME ~disturbed' PROVE CalmNow'
  <2>1. CalmNow /\ chatFaults \in Nat
    BY <1>2, <1>3 DEF CalmInv
  <2>2. CASE Send
    BY <1>3, <2>1, <2>2, SubmitCalm DEF Send
  <2>3. CASE Retry
    <3>1. page.route = "chat"
      BY <2>3 DEF Retry, Painted
    <3> QED BY <1>3, <2>1, <2>3, <3>1, SubmitCalm DEF Retry
  <2>4. CASE \E c \in chatCalls : HandleChat(c)
    BY <2>1, <2>4, ChatAnsweredCalm, HistoryAnsweredCalm, CorrectAnsweredCalm DEF HandleChat
  <2>5. CASE UNCHANGED chatVars
    BY <2>1, <2>5 DEF chatVars, CalmNow
  <2> QED BY <1>3, <2>1, <2>2, <2>3, <2>4, <2>5, PanelCalm, CorrectCalm, SwitchCalm, ServeCalm DEF ChatNext
<1> QED BY <1>1, <1>3 DEF CalmInv

LEMMA CalmProperty == ChatInv /\ CalmInv => UndisturbedPage
<1> SUFFICES ASSUME CalmNow PROVE UndisturbedPage
  BY DEF CalmInv, UndisturbedPage
<1>1. PageFits(page, chatCalls, stored[page.active]) /\ \A x \in corrections : x.turn = x.meant
  BY DEF CalmNow, Calm
<1>2. ASSUME chatCalls = {} PROVE \A m \in Range(page.messages) : m.kind # "loading"
  <2>1. NoneLoading(page.messages)
    BY <1>1, <1>2 DEF PageFits, Asked
  <2> QED BY <2>1 DEF NoneLoading, Range
<1>3. ASSUME chatCalls = {}, chatFaults = 0, page.loadedFor = page.active PROVE Shows(page.messages, stored[page.active])
  BY <1>3 DEF CalmNow, Calm, ShowsAll
<1> QED BY <1>1, <1>2, <1>3 DEF UndisturbedPage, PageFits

(* As long as the user waits for each answer, the page shows the active    *)
(* workspace alone, with nothing left loading; corrections are recorded of *)
(* the turns they were meant for; and, failures apart, the answers shown   *)
(* are the turns that the server keeps, each once and in order.            *)
THEOREM PageUndisturbed == ChatSpec => []UndisturbedPage
BY ChatInitHolds, ChatStep, CalmInitHolds, CalmStep, CalmProperty, PTL DEF ChatSpec

-----------------------------------------------------------------------------
(***************************************************************************)
(* WebKnowledge, for any number of batches, files, folders and workspaces. *)
(***************************************************************************)
KnowledgeSpec == KnowledgeInit /\ [][KnowledgeNext]_knowledgeVars

Documents == [batch : Batches, file : Files, of : Workspaces, folder : Folders, chunks : Nat]
BatchStates ==
  [pc : {"idle", "listing", "asking", "uploading", "searching", "done", "stuck", "abandoned"},
   of : Workspaces \cup {None}, folder : Folders \cup {None}, left : Seq(Files), matches : SUBSET Files,
   asked : BOOLEAN, blind : BOOLEAN, alone : BOOLEAN,
   answer : {None, "sent", "extracting", "ok", "failed"}, succeeded : SUBSET Files]
Questions ==
  [kind : {"list", "search"}, of : Workspaces, folder : Folders \cup {"all"}, batch : Batches \cup {None},
   found : SUBSET Documents, answer : {"awaited", "ok", "failed"}]
Libraries ==
  [route : {"knowledge", "other"}, active : Workspaces, of : Workspaces, folder : Folders \cup {"all"},
   loading : BOOLEAN, shown : SUBSET Documents]

KnowledgeTypes ==
  /\ library \in Libraries /\ pending \in SUBSET Questions /\ documents \in SUBSET Documents
  /\ batches \in [Batches -> BatchStates] /\ folders \in [Workspaces -> SUBSET Folders]
  /\ dialog \in Batches \cup {None} /\ faults \in Nat
  /\ search \in [view : {"idle", "loading", "shown"}, of : Workspaces \cup {None}]

(* What a batch holds, and what is stored of it.                           *)
Whole(x, b, f, docs) ==
  \E d \in docs : d.batch = b /\ d.file = f /\ d.chunks = Chunks /\ d.of = x.of /\ d.folder = x.folder

Uploading(x, b, docs, known) ==
  x.pc = "uploading" =>
    /\ x.left # <<>>
    /\ x.answer \in {"extracting", "ok"} => x.folder \in known[x.of]
    /\ x.answer = "ok" => Whole(x, b, Head(x.left), docs)

Unseen(x, b, docs) ==
  x.pc = "uploading" /\ x.alone /\ ~x.asked /\ ~x.blind =>
    \A d \in docs : d.batch < b /\ d.of = x.of /\ d.folder = x.folder => d.file \notin Range(x.left)

BatchTrue(x, b, docs, known) ==
  /\ x.pc # "idle" => x.of \in Workspaces /\ x.folder \in Folders
  /\ x.pc = "idle" => x.succeeded = {}
  /\ x.pc \in {"idle", "listing"} => ~x.blind
  /\ x.pc \in {"listing", "asking"} => x.left # <<>>
  /\ Uploading(x, b, docs, known)
  /\ \A f \in x.succeeded : Whole(x, b, f, docs) /\ x.folder \in known[x.of]
  /\ Unseen(x, b, docs)

(* A document is of a batch that has begun to upload.                      *)
DocumentTrue(d, all) ==
  /\ all[d.batch].pc \notin {"idle", "listing", "asking"}
  /\ d.of = all[d.batch].of /\ d.folder = all[d.batch].folder /\ d.chunks > 0

(* The batches are chosen in order; those before one chosen alone are over.*)
InOrder(all) ==
  \A a, b \in Batches :
    a < b /\ all[b].pc # "idle" => all[a].pc # "idle" /\ (all[b].alone => all[a].pc \notin Running)

DialogTrue(b, all) == b # None => all[b].pc = "asking"
QuestionTrue(c, all) == c.batch # None => c.kind = "search" /\ all[c.batch].pc \in {"searching", "done", "stuck"}

KnowledgeInv ==
  /\ KnowledgeTypes
  /\ \A b \in Batches : BatchTrue(batches[b], b, documents, folders)
  /\ \A d \in documents : DocumentTrue(d, batches)
  /\ InOrder(batches)
  /\ DialogTrue(dialog, batches)
  /\ \A c \in pending : QuestionTrue(c, batches)
  /\ DuplicatesAsked

(* The library and the search, as long as nothing overlaps and fails.      *)
Stale == \E b \in Batches : batches[b].pc = "uploading" /\ (batches[b].succeeded # {} \/ batches[b].answer = "ok")

LibraryInv ==
  ~overlapped /\ faults = 0 =>
    /\ \A b \in Batches : batches[b].pc = "uploading" => batches[b].answer # "failed"
    /\ \A c, d \in pending : c.kind = d.kind => c = d
    /\ \A c \in pending : c.of = library.active /\ c.answer # "failed"
    /\ \A c \in pending : c.kind = "list" =>
         /\ c.folder = library.folder
         /\ c.answer = "ok" => c.found = Listing(c.of, c.folder) \/ Stale
    /\ library.route = "knowledge" =>
         /\ library.of = library.active
         /\ search.view # "idle" => search.of = library.active
         /\ \/ \E c \in pending : c.kind = "list"
            \/ library.shown = Listing(library.active, library.folder)
            \/ Stale

LEMMA IdleIs ==
  /\ Idle \in BatchStates /\ Idle.pc = "idle" /\ Idle.succeeded = {} /\ Idle.blind = FALSE
  /\ \A b, docs, known : BatchTrue(Idle, b, docs, known)
<1>1. <<>> \in Seq(Files)
  OBVIOUS
<1>2. Idle \in BatchStates /\ Idle.pc = "idle" /\ Idle.succeeded = {} /\ Idle.blind = FALSE
  BY <1>1 DEF Idle, BatchStates
<1> QED BY <1>2 DEF BatchTrue, Uploading, Unseen

LEMMA AskedIs ==
  ASSUME NEW kind \in {"list", "search"}, NEW w \in Workspaces, NEW folder \in Folders \cup {"all"},
         NEW batch \in Batches \cup {None}, NEW q, q = Ask(kind, w, folder, batch)
  PROVE  /\ q \in Questions /\ q.kind = kind /\ q.of = w /\ q.folder = folder /\ q.batch = batch
         /\ kind = "list" => q.answer = "awaited"
         /\ kind = "search" => q.answer = "ok"
<1>1. PICK answer : answer = IF kind = "list" THEN "awaited" ELSE "ok"
  OBVIOUS
<1>2. answer \in {"awaited", "ok", "failed"} /\ q = [kind |-> kind, of |-> w, folder |-> folder, batch |-> batch, found |-> {}, answer |-> answer]
  BY <1>1 DEF Ask
<1> QED BY <1>1, <1>2 DEF Questions

LEMMA KnowledgeInitHolds == KnowledgeInit => KnowledgeInv /\ LibraryInv
<1> SUFFICES ASSUME KnowledgeInit PROVE KnowledgeInv /\ LibraryInv
  OBVIOUS
<1>1. PICK w \in Workspaces : library = [route |-> "knowledge", active |-> w, of |-> w, folder |-> "all",
                                          loading |-> TRUE, shown |-> {}]
  BY DEF KnowledgeInit
<1>2. PICK q : q = Ask("list", w, "all", None)
  OBVIOUS
<1>3. /\ library \in Libraries /\ library.active = w /\ library.folder = "all" /\ library.of = w
      /\ library.route = "knowledge"
  BY <1>1 DEF Libraries
<1>4. pending = {q}
  BY <1>2, <1>3 DEF KnowledgeInit, Listed
<1>5. q \in Questions /\ q.kind = "list" /\ q.of = w /\ q.folder = "all" /\ q.batch = None /\ q.answer = "awaited"
  BY <1>2, AskedIs
<1>6. /\ dialog = None /\ batches = [b \in Batches |-> Idle] /\ documents = {} /\ faults = 0
      /\ folders = [v \in Workspaces |-> {}] /\ search = [view |-> "idle", of |-> None]
  BY DEF KnowledgeInit, NoSearch
<1>7. \A b \in Batches : batches[b] = Idle
  BY <1>6
<1>8. KnowledgeTypes
  BY <1>3, <1>4, <1>5, <1>6, IdleIs DEF KnowledgeTypes
<1>9. KnowledgeInv
  BY <1>4, <1>5, <1>6, <1>7, <1>8, IdleIs DEF KnowledgeInv, InOrder, DialogTrue, QuestionTrue, DuplicatesAsked
<1>10. search.view = "idle"
  BY <1>6
<1>11. LibraryInv
  BY <1>3, <1>4, <1>5, <1>7, <1>10, IdleIs DEF LibraryInv
<1> QED BY <1>9, <1>11

-----------------------------------------------------------------------------
(***************************************************************************)
(* Batches and documents.                                                  *)
(***************************************************************************)
LEMMA ServerGrows ==
  ASSUME NEW x \in BatchStates, NEW b, NEW docs, NEW known, NEW moreDocs, NEW more,
         docs \subseteq moreDocs, \A w \in Workspaces : known[w] \subseteq more[w],
         BatchTrue(x, b, docs, known), Unseen(x, b, moreDocs)
  PROVE  BatchTrue(x, b, moreDocs, more)
<1>1. \A f : Whole(x, b, f, docs) => Whole(x, b, f, moreDocs)
  BY DEF Whole
<1>2. x.pc # "idle" => x.of \in Workspaces
  BY DEF BatchTrue
<1>3. \A f \in x.succeeded : x.pc # "idle"
  BY DEF BatchTrue
<1>4. Uploading(x, b, moreDocs, more)
  BY <1>1, <1>2 DEF BatchTrue, Uploading
<1>5. \A f \in x.succeeded : Whole(x, b, f, moreDocs) /\ x.folder \in more[x.of]
  BY <1>1, <1>2, <1>3 DEF BatchTrue
<1> QED BY <1>4, <1>5 DEF BatchTrue

(* How a batch that was chosen goes on.                                    *)
Follows(x, y) ==
  y # x =>
    /\ x.pc # "idle" /\ y.pc # "idle"
    /\ y.of = x.of /\ y.folder = x.folder /\ y.alone = x.alone
    /\ x.asked => y.asked
    /\ x.blind => y.blind
    /\ y.pc \in Running => x.pc \in Running
    /\ x.pc \notin {"idle", "listing", "asking"} => y.pc \notin {"idle", "listing", "asking"}

LEMMA BatchesMove ==
  ASSUME KnowledgeInv, KnowledgeTypes', UNCHANGED documents,
         \A b \in Batches : Follows(batches[b], batches'[b]),
         \A b \in Batches : BatchTrue(batches'[b], b, documents, folders'),
         DialogTrue(dialog', batches'), \A c \in pending' : QuestionTrue(c, batches')
  PROVE  KnowledgeInv'
<1>1. \A d \in documents : d.batch \in Batches
  BY DEF KnowledgeInv, KnowledgeTypes, Documents
<1>2. \A d \in documents : DocumentTrue(d, batches')
  <2>1. ASSUME NEW d \in documents PROVE DocumentTrue(d, batches')
    <3>1. PICK x, y : x = batches[d.batch] /\ y = batches'[d.batch]
      OBVIOUS
    <3>2. Follows(x, y) /\ DocumentTrue(d, batches)
      BY <1>1, <3>1 DEF KnowledgeInv
    <3> QED BY <3>1, <3>2 DEF DocumentTrue, Follows
  <2> QED BY <2>1
<1>3. InOrder(batches')
  <2>1. ASSUME NEW a \in Batches, NEW b \in Batches, a < b, batches'[b].pc # "idle"
        PROVE  batches'[a].pc # "idle" /\ (batches'[b].alone => batches'[a].pc \notin Running)
    <3>1. batches[b].pc # "idle" /\ batches'[b].alone = batches[b].alone
      BY <2>1 DEF Follows
    <3>2. batches[a].pc # "idle" /\ (batches[b].alone => batches[a].pc \notin Running)
      BY <2>1, <3>1 DEF KnowledgeInv, InOrder
    <3>3. Follows(batches[a], batches'[a])
      OBVIOUS
    <3> QED BY <3>1, <3>2, <3>3 DEF Follows
  <2> QED BY <2>1 DEF InOrder
<1>4. DuplicatesAsked'
  <2>1. \A b \in Batches : /\ batches'[b].alone = batches[b].alone /\ (batches[b].asked => batches'[b].asked)
                           /\ (batches[b].blind => batches'[b].blind)
    BY DEF Follows
  <2> QED BY <1>1, <2>1 DEF KnowledgeInv, DuplicatesAsked
<1> QED BY <1>2, <1>3, <1>4 DEF KnowledgeInv

(* Steps of the page alone.                                                *)
LEMMA OnlyThePage ==
  ASSUME KnowledgeInv, KnowledgeTypes', UNCHANGED <<documents, batches, dialog>>,
         \A w \in Workspaces : folders[w] \subseteq folders'[w],
         \A c \in pending' : c \in pending \/ QuestionTrue(c, batches)
  PROVE  KnowledgeInv'
<1>1. \A b \in Batches : Follows(batches[b], batches[b])
  BY DEF Follows
<1>2. \A b \in Batches : BatchTrue(batches[b], b, documents, folders')
  <2>1. ASSUME NEW b \in Batches PROVE BatchTrue(batches[b], b, documents, folders')
    <3>1. batches[b] \in BatchStates /\ BatchTrue(batches[b], b, documents, folders) /\ Unseen(batches[b], b, documents)
      BY DEF KnowledgeInv, KnowledgeTypes, BatchTrue
    <3> QED BY <3>1, ServerGrows
  <2> QED BY <2>1
<1> QED BY <1>1, <1>2, BatchesMove DEF KnowledgeInv

(* Steps of one batch.                                                     *)
LEMMA OneMoves ==
  ASSUME KnowledgeInv, NEW b \in Batches, NEW x \in BatchStates, batches' = [batches EXCEPT ![b] = x],
         KnowledgeTypes', UNCHANGED documents, \A w \in Workspaces : folders[w] \subseteq folders'[w],
         Follows(batches[b], x), BatchTrue(x, b, documents, folders'),
         dialog' = None \/ (dialog' = dialog /\ batches[b].pc # "asking"),
         batches[b].pc \in {"searching", "done", "stuck"} => x.pc \in {"searching", "done", "stuck"},
         \A c \in pending' : \/ c \in pending \/ c.batch = None
                             \/ c.kind = "search" /\ c.batch = b /\ x.pc = "searching"
  PROVE  KnowledgeInv'
<1>1. batches \in [Batches -> BatchStates] /\ dialog \in Batches \cup {None}
      /\ \A c \in pending : c.batch \in Batches \cup {None}
  BY DEF KnowledgeInv, KnowledgeTypes, Questions
<1>2. batches'[b] = x /\ \A a \in Batches : a # b => batches'[a] = batches[a]
  BY <1>1
<1>3. \A a \in Batches : Follows(batches[a], batches'[a])
  BY <1>2 DEF Follows
<1>4. ASSUME NEW a \in Batches PROVE BatchTrue(batches'[a], a, documents, folders')
  <2>1. CASE a = b
    BY <1>2, <2>1
  <2>2. CASE a # b
    <3>1. batches[a] \in BatchStates /\ BatchTrue(batches[a], a, documents, folders) /\ Unseen(batches[a], a, documents)
      BY DEF KnowledgeInv, KnowledgeTypes, BatchTrue
    <3>2. BatchTrue(batches[a], a, documents, folders')
      BY <3>1, ServerGrows
    <3> QED BY <1>2, <2>2, <3>2
  <2> QED BY <2>1, <2>2
<1>5. DialogTrue(dialog', batches')
  <2>1. ASSUME dialog' = dialog, dialog # None, batches[b].pc # "asking" PROVE batches'[dialog].pc = "asking"
    <3>1. dialog \in Batches /\ batches[dialog].pc = "asking"
      BY <1>1, <2>1 DEF KnowledgeInv, DialogTrue
    <3> QED BY <1>2, <2>1, <3>1
  <2> QED BY <2>1 DEF DialogTrue
<1>6. ASSUME NEW c \in pending' PROVE QuestionTrue(c, batches')
  <2>1. CASE c \in pending
    <3>1. QuestionTrue(c, batches) /\ c.batch \in Batches \cup {None}
      BY <1>1, <2>1 DEF KnowledgeInv
    <3> QED BY <1>2, <3>1 DEF QuestionTrue
  <2>2. CASE c.batch = None
    BY <2>2 DEF QuestionTrue
  <2>3. CASE c.kind = "search" /\ c.batch = b /\ x.pc = "searching"
    BY <1>2, <2>3 DEF QuestionTrue
  <2> QED BY <2>1, <2>2, <2>3
<1> QED BY <1>3, <1>4, <1>5, <1>6, BatchesMove

LEMMA ChooseKeeps == ASSUME KnowledgeInv, NEW b \in Batches, Choose(b) PROVE KnowledgeInv'
<1> DEFINE Chosen(files, folder) ==
             [Idle EXCEPT !.pc = "listing", !.of = library.active, !.folder = folder, !.left = files,
                          !.alone = \A a \in Batches : batches[a].pc \notin Running]
<1>1. PICK n \in 1 .. MaxFiles : \E files \in [1 .. n -> Files], folder \in Folders : Set(b, Chosen(files, folder))
  BY DEF Choose
<1>2. PICK files \in [1 .. n -> Files], folder \in Folders : Set(b, Chosen(files, folder))
  BY <1>1
<1>3. PICK alone, x :
        /\ alone = (\A a \in Batches : batches[a].pc \notin Running)
        /\ x = [Idle EXCEPT !.pc = "listing", !.of = library.active, !.folder = folder, !.left = files, !.alone = alone]
        /\ batches' = [batches EXCEPT ![b] = x]
  BY <1>2 DEF Set
<1> HIDE DEF Chosen
<1>4. /\ UNCHANGED <<library, search, dialog, pending, documents, folders, faults>>
      /\ batches[b].pc = "idle" /\ \A a \in Batches : a < b => batches[a].pc # "idle"
  BY DEF Choose, server
<1>5. /\ batches \in [Batches -> BatchStates] /\ library.active \in Workspaces /\ KnowledgeTypes
      /\ \A c \in pending : c.batch \in Batches \cup {None}
  BY DEF KnowledgeInv, KnowledgeTypes, Libraries, Questions
<1>6. files \in Seq(Files) /\ files # <<>>
  <2>1. n \in Nat /\ n # 0
    BY KnowledgeBounds
  <2>2. files \in Seq(Files) /\ Len(files) = n
    BY <2>1
  <2> QED BY <2>1, <2>2
<1>7. alone \in BOOLEAN
  BY <1>3
<1>8. /\ x \in BatchStates /\ x.pc = "listing" /\ x.of = library.active /\ x.folder = folder /\ x.left = files
      /\ x.alone = alone /\ x.blind = FALSE /\ x.succeeded = {}
  BY <1>3, <1>5, <1>6, <1>7 DEF Idle, BatchStates
<1>9. batches'[b] = x /\ \A a \in Batches : a # b => batches'[a] = batches[a]
  BY <1>3, <1>5
<1>10. KnowledgeTypes'
  BY <1>3, <1>4, <1>5, <1>8 DEF KnowledgeTypes
<1>11. \A a \in Batches : BatchTrue(batches'[a], a, documents, folders)
  <2>1. BatchTrue(x, b, documents, folders)
    BY <1>5, <1>6, <1>8 DEF BatchTrue, Uploading, Unseen
  <2> QED BY <1>9, <2>1 DEF KnowledgeInv
<1>12. \A d \in documents : d.batch \in Batches /\ d.batch # b /\ DocumentTrue(d, batches')
  <2>1. ASSUME NEW d \in documents PROVE d.batch \in Batches /\ d.batch # b /\ DocumentTrue(d, batches')
    <3>1. d.batch \in Batches /\ DocumentTrue(d, batches)
      BY DEF KnowledgeInv, KnowledgeTypes, Documents
    <3>2. d.batch # b
      BY <1>4, <3>1 DEF DocumentTrue
    <3>3. batches'[d.batch] = batches[d.batch]
      BY <1>9, <3>1, <3>2
    <3> QED BY <3>1, <3>2, <3>3 DEF DocumentTrue
  <2> QED BY <2>1
<1>13. InOrder(batches')
  <2>1. ASSUME NEW a \in Batches, NEW e \in Batches, a < e, batches'[e].pc # "idle"
        PROVE  batches'[a].pc # "idle" /\ (batches'[e].alone => batches'[a].pc \notin Running)
    <3>1. a # e
      BY <2>1, BatchesNumbered
    <3>2. CASE e = b
      <4>1. batches'[a] = batches[a] /\ batches[a].pc # "idle"
        BY <1>4, <1>9, <2>1, <3>1, <3>2
      <4> QED BY <1>3, <1>8, <1>9, <3>2, <4>1
    <3>3. CASE e # b
      <4>1. batches'[e] = batches[e]
        BY <1>9, <3>3
      <4>2. batches[a].pc # "idle" /\ (batches[e].alone => batches[a].pc \notin Running)
        BY <2>1, <4>1 DEF KnowledgeInv, InOrder
      <4>3. a # b
        BY <1>4, <4>2
      <4> QED BY <1>9, <4>1, <4>2, <4>3
    <3> QED BY <3>2, <3>3
  <2> QED BY <2>1 DEF InOrder
<1>14. DialogTrue(dialog, batches')
  <2>1. dialog # None => dialog \in Batches /\ batches[dialog].pc = "asking"
    BY DEF KnowledgeInv, KnowledgeTypes, DialogTrue
  <2> QED BY <1>4, <1>9, <2>1 DEF DialogTrue
<1>15. \A c \in pending : QuestionTrue(c, batches')
  <2>1. \A c \in pending : QuestionTrue(c, batches)
    BY DEF KnowledgeInv
  <2> QED BY <1>4, <1>5, <1>9, <2>1 DEF QuestionTrue
<1>16. DuplicatesAsked'
  BY <1>4, <1>9, <1>12 DEF KnowledgeInv, DuplicatesAsked
<1> QED BY <1>4, <1>10, <1>11, <1>12, <1>13, <1>14, <1>15, <1>16 DEF KnowledgeInv

(* A batch that goes on to upload, its duplicates known.                   *)
LEMMA UploadsKeeps ==
  ASSUME KnowledgeInv, NEW b \in Batches, NEW known \in BatchStates, Uploads(b, known),
         batches[b].pc \in {"listing", "asking"},
         known.of = batches[b].of, known.folder = batches[b].folder, known.left = batches[b].left,
         known.alone = batches[b].alone, known.succeeded = batches[b].succeeded,
         batches[b].asked => known.asked, batches[b].blind => known.blind,
         ~known.asked /\ ~known.blind =>
           \A d \in documents : d.of = known.of /\ d.folder = known.folder => d.file \notin Range(known.left),
         dialog' = None \/ (dialog' = dialog /\ batches[b].pc # "asking"),
         UNCHANGED <<library, search, pending, documents, folders>>, faults' \in Nat
  PROVE  KnowledgeInv'
<1>1. PICK x : x = [known EXCEPT !.pc = "uploading", !.answer = "sent"]
  OBVIOUS
<1>2. /\ x \in BatchStates /\ x.pc = "uploading" /\ x.answer = "sent" /\ x.of = known.of /\ x.folder = known.folder
      /\ x.left = known.left /\ x.alone = known.alone /\ x.succeeded = known.succeeded /\ x.asked = known.asked
      /\ x.blind = known.blind
  BY <1>1 DEF BatchStates
<1>3. batches' = [batches EXCEPT ![b] = x]
  BY <1>1 DEF Uploads, Set
<1>4. KnowledgeTypes'
  <2>1. dialog' \in Batches \cup {None}
    BY DEF KnowledgeInv, KnowledgeTypes
  <2> QED BY <1>2, <1>3, <2>1 DEF KnowledgeInv, KnowledgeTypes
<1>5. Follows(batches[b], x)
  BY <1>2 DEF Follows, Running
<1>6. BatchTrue(batches[b], b, documents, folders)
  BY DEF KnowledgeInv
<1>7. Unseen(x, b, documents)
  BY <1>2 DEF Unseen
<1>8. Uploading(x, b, documents, folders)
  BY <1>2, <1>6 DEF BatchTrue, Uploading
<1>9. BatchTrue(x, b, documents, folders)
  BY <1>2, <1>6, <1>7, <1>8 DEF BatchTrue, Whole
<1> QED BY <1>2, <1>3, <1>4, <1>5, <1>9, OneMoves

LEMMA AskDuplicatesKeeps ==
  ASSUME KnowledgeInv, NEW b \in Batches, NEW known \in BatchStates, AskDuplicates(b, known),
         batches[b].pc = "listing",
         known.of = batches[b].of, known.folder = batches[b].folder, known.left = batches[b].left,
         known.alone = batches[b].alone, known.succeeded = batches[b].succeeded, known.asked = batches[b].asked,
         UNCHANGED <<library, search, pending, documents, folders>>, faults' \in Nat
  PROVE  KnowledgeInv'
<1>1. PICK x : x = [known EXCEPT !.pc = "asking"]
  OBVIOUS
<1>2. /\ x \in BatchStates /\ x.pc = "asking" /\ x.of = known.of /\ x.folder = known.folder
      /\ x.left = known.left /\ x.alone = known.alone /\ x.succeeded = known.succeeded /\ x.asked = known.asked
  BY <1>1 DEF BatchStates
<1>3. /\ KnowledgeTypes /\ batches \in [Batches -> BatchStates] /\ b # dialog /\ dialog' = b /\ b # None
      /\ dialog # None => dialog \in Batches /\ batches[dialog].pc = "asking"
  <2>1. KnowledgeTypes /\ DialogTrue(dialog, batches) /\ dialog \in Batches \cup {None} /\ batches \in [Batches -> BatchStates]
    BY DEF KnowledgeInv, KnowledgeTypes
  <2> QED BY <2>1, BatchesNumbered DEF DialogTrue, AskDuplicates
<1>4. /\ batches'[b] = x
      /\ \A a \in Batches : a # b /\ a # dialog => batches'[a] = batches[a]
      /\ \A a \in Batches : a = dialog => batches'[a] = [batches[a] EXCEPT !.pc = "abandoned"]
      /\ batches' = [a \in Batches |-> batches'[a]]
  BY <1>1, <1>3 DEF AskDuplicates
<1>5. ASSUME NEW a \in Batches, a = dialog
      PROVE  /\ batches'[a] \in BatchStates /\ Follows(batches[a], batches'[a])
             /\ BatchTrue(batches'[a], a, documents, folders)
  <2>1. PICK y, z : y = batches[a] /\ z = batches'[a]
    OBVIOUS
  <2>2. y \in BatchStates /\ z = [y EXCEPT !.pc = "abandoned"] /\ y.pc = "asking" /\ BatchTrue(y, a, documents, folders)
    <3>1. dialog # None
      BY <1>5, BatchesNumbered
    <3> QED BY <1>3, <1>4, <1>5, <2>1, <3>1 DEF KnowledgeInv
  <2>3. /\ z \in BatchStates /\ z.pc = "abandoned" /\ z.of = y.of /\ z.folder = y.folder /\ z.alone = y.alone
        /\ z.asked = y.asked /\ z.blind = y.blind /\ z.succeeded = y.succeeded
    BY <2>2 DEF BatchStates
  <2>4. Follows(y, z)
    BY <2>2, <2>3 DEF Follows, Running
  <2>5. BatchTrue(z, a, documents, folders)
    BY <2>2, <2>3 DEF BatchTrue, Uploading, Unseen, Whole
  <2> QED BY <2>1, <2>3, <2>4, <2>5
<1>6. Follows(batches[b], x) /\ BatchTrue(x, b, documents, folders)
  <2>1. BatchTrue(batches[b], b, documents, folders)
    BY DEF KnowledgeInv
  <2>2. ~batches[b].blind
    BY <2>1 DEF BatchTrue
  <2>3. Follows(batches[b], x)
    BY <1>2, <2>2 DEF Follows, Running
  <2>4. BatchTrue(x, b, documents, folders)
    BY <1>2, <2>1 DEF BatchTrue, Uploading, Unseen, Whole
  <2> QED BY <2>3, <2>4
<1>7. ASSUME NEW a \in Batches
      PROVE  /\ batches'[a] \in BatchStates /\ Follows(batches[a], batches'[a])
             /\ BatchTrue(batches'[a], a, documents, folders)
  <2>1. CASE a = b
    BY <1>2, <1>4, <1>6, <2>1
  <2>2. CASE a = dialog
    BY <1>5, <2>2
  <2>3. CASE a # b /\ a # dialog
    BY <1>3, <1>4, <2>3 DEF Follows, KnowledgeInv
  <2> QED BY <2>1, <2>2, <2>3
<1>8. KnowledgeTypes'
  <2>1. batches' \in [Batches -> BatchStates]
    BY <1>4, <1>7
  <2> QED BY <1>3, <2>1 DEF KnowledgeTypes
<1>9. DialogTrue(dialog', batches')
  BY <1>2, <1>3, <1>4 DEF DialogTrue
<1>10. ASSUME NEW c \in pending PROVE QuestionTrue(c, batches')
  <2>1. QuestionTrue(c, batches) /\ c.batch \in Batches \cup {None}
    BY DEF KnowledgeInv, KnowledgeTypes, Questions
  <2>2. ASSUME c.batch # None PROVE batches'[c.batch] = batches[c.batch]
    <3>1. c.batch # b /\ c.batch # dialog
      BY <1>3, <2>1, <2>2 DEF QuestionTrue
    <3> QED BY <1>4, <2>1, <2>2, <3>1
  <2> QED BY <2>1, <2>2 DEF QuestionTrue
<1> QED BY <1>7, <1>8, <1>9, <1>10, BatchesMove

LEMMA CompareIs ==
  ASSUME KnowledgeInv, NEW b \in Batches, Compare(b)
  PROVE  /\ batches[b].pc = "listing" /\ ~batches[b].blind
         /\ UNCHANGED <<library, search, pending, documents, folders, overlapped>>
         /\ faults' = faults \/ faults' = faults + 1
         /\ \E known \in BatchStates :
              /\ known.of = batches[b].of /\ known.folder = batches[b].folder /\ known.left = batches[b].left
              /\ known.alone = batches[b].alone /\ known.succeeded = batches[b].succeeded
              /\ known.asked = batches[b].asked
              /\ \/ AskDuplicates(b, known)
                 \/ /\ Uploads(b, known) /\ UNCHANGED dialog
                    /\ ~known.blind =>
                         \A d \in documents : d.of = known.of /\ d.folder = known.folder
                                              => d.file \notin Range(known.left)
<1>1. PICK batch, files : batch = batches[b] /\ files = {batch.left[i] : i \in DOMAIN batch.left}
  OBVIOUS
<1>2. /\ batch \in BatchStates /\ batch.pc = "listing" /\ BatchTrue(batch, b, documents, folders)
      /\ UNCHANGED <<library, search, pending, documents, folders, overlapped>>
  BY <1>1 DEF KnowledgeInv, KnowledgeTypes, Compare, server
<1> DEFINE Held == {batches[b].left[i] : i \in DOMAIN batches[b].left}
           Seen(blind) == IF blind THEN library.shown ELSE Listing(batches[b].of, batches[b].folder)
           Known(blind) == [batches[b] EXCEPT !.matches = Matches(Held, Seen(blind), batches[b].folder), !.blind = blind]
<1>3. PICK blind \in BOOLEAN :
         /\ faults' = IF blind THEN faults + 1 ELSE faults
         /\ IF Known(blind).matches # {} THEN AskDuplicates(b, Known(blind))
            ELSE Uploads(b, Known(blind)) /\ UNCHANGED dialog
  BY Zenon DEF Compare, Existing
<1>4. PICK docs, known :
        /\ docs = (IF blind THEN library.shown ELSE Listing(batch.of, batch.folder))
        /\ known = [batch EXCEPT !.matches = Matches(files, docs, batch.folder), !.blind = blind]
        /\ IF known.matches # {} THEN AskDuplicates(b, known) ELSE Uploads(b, known) /\ UNCHANGED dialog
  <2>1. PICK docs, known : docs = Seen(blind) /\ known = Known(blind)
    OBVIOUS
  <2>2. /\ docs = (IF blind THEN library.shown ELSE Listing(batch.of, batch.folder))
        /\ known = [batch EXCEPT !.matches = Matches(files, docs, batch.folder), !.blind = blind]
    BY <1>1, <2>1
  <2>3. IF known.matches # {} THEN AskDuplicates(b, known) ELSE Uploads(b, known) /\ UNCHANGED dialog
    <3> HIDE DEF Seen, Known
    <3> QED BY <1>3, <2>1
  <2> QED BY <2>2, <2>3
<1> HIDE DEF Held, Seen, Known
<1>5. files = Range(batch.left) /\ files \subseteq Files
  <2>1. batch.left \in Seq(Files)
    BY <1>2 DEF BatchStates
  <2> QED BY <1>1, <2>1 DEF Range
<1>6. PICK matches : matches = Matches(files, docs, batch.folder)
  OBVIOUS
<1>7. matches \subseteq Files
  BY <1>5, <1>6 DEF Matches
<1>8. /\ known \in BatchStates /\ known.of = batch.of /\ known.folder = batch.folder /\ known.left = batch.left
      /\ known.alone = batch.alone /\ known.succeeded = batch.succeeded /\ known.asked = batch.asked
      /\ known.blind = blind /\ known.matches = matches
  <2>1. known = [batch EXCEPT !.matches = matches, !.blind = blind]
    BY <1>4, <1>6
  <2> QED BY <1>2, <1>7, <2>1 DEF BatchStates
<1>9. ASSUME known.matches = {}, ~known.blind, NEW d \in documents, d.of = known.of, d.folder = known.folder
      PROVE  d.file \notin Range(known.left)
  <2>1. d.chunks > 0
    BY DEF KnowledgeInv, DocumentTrue
  <2>2. d \in docs
    BY <1>4, <1>8, <1>9, <2>1 DEF Listing
  <2> QED BY <1>5, <1>6, <1>8, <1>9, <2>2 DEF Matches
<1>10. \/ AskDuplicates(b, known)
       \/ Uploads(b, known) /\ UNCHANGED dialog /\ known.matches = {}
  BY <1>4
<1>11. faults' = faults \/ faults' = faults + 1
  BY <1>3
<1>12. ~batch.blind
  BY <1>2 DEF BatchTrue
<1>13. /\ known.of = batches[b].of /\ known.folder = batches[b].folder /\ known.left = batches[b].left
       /\ known.alone = batches[b].alone /\ known.succeeded = batches[b].succeeded
       /\ known.asked = batches[b].asked
  BY <1>1, <1>8
<1> QED BY <1>1, <1>2, <1>8, <1>9, <1>10, <1>11, <1>12, <1>13

LEMMA CompareKeeps == ASSUME KnowledgeInv, NEW b \in Batches, Compare(b) PROVE KnowledgeInv'
<1>1. /\ batches[b].pc = "listing" /\ ~batches[b].blind /\ faults' \in Nat
      /\ UNCHANGED <<library, search, pending, documents, folders>>
  <2>1. faults \in Nat
    BY DEF KnowledgeInv, KnowledgeTypes
  <2> QED BY <2>1, CompareIs
<1>2. PICK known \in BatchStates :
        /\ known.of = batches[b].of /\ known.folder = batches[b].folder /\ known.left = batches[b].left
        /\ known.alone = batches[b].alone /\ known.succeeded = batches[b].succeeded
        /\ known.asked = batches[b].asked
        /\ \/ AskDuplicates(b, known)
           \/ /\ Uploads(b, known) /\ UNCHANGED dialog
              /\ ~known.blind => \A d \in documents : d.of = known.of /\ d.folder = known.folder
                                                       => d.file \notin Range(known.left)
  BY CompareIs
<1>3. CASE AskDuplicates(b, known)
  BY <1>1, <1>2, <1>3, AskDuplicatesKeeps
<1>4. CASE ~AskDuplicates(b, known)
  BY <1>1, <1>2, <1>4, UploadsKeeps
<1> QED BY <1>3, <1>4

LEMMA ConfirmKeeps == ASSUME KnowledgeInv, NEW b \in Batches, Confirm(b) PROVE KnowledgeInv'
<1>1. PICK batch, known : batch = batches[b] /\ known = [batch EXCEPT !.asked = TRUE]
  OBVIOUS
<1>2. batch \in BatchStates /\ batch.pc = "asking" /\ faults \in Nat
  <2>1. dialog = b /\ b # None
    BY BatchesNumbered DEF Confirm
  <2> QED BY <1>1, <2>1 DEF KnowledgeInv, KnowledgeTypes, DialogTrue
<1>3. /\ known \in BatchStates /\ known.of = batch.of /\ known.folder = batch.folder /\ known.left = batch.left
      /\ known.alone = batch.alone /\ known.succeeded = batch.succeeded /\ known.asked = TRUE
      /\ known.blind = batch.blind
  BY <1>1, <1>2 DEF BatchStates
<1>4. /\ Uploads(b, known) /\ dialog' = None /\ UNCHANGED <<library, search, pending, documents, folders, faults>>
  BY <1>1 DEF Confirm, server
<1>5. /\ batches[b].pc \in {"listing", "asking"}
      /\ known.of = batches[b].of /\ known.folder = batches[b].folder /\ known.left = batches[b].left
      /\ known.alone = batches[b].alone /\ known.succeeded = batches[b].succeeded
      /\ batches[b].asked => known.asked
      /\ batches[b].blind => known.blind
  BY <1>1, <1>2, <1>3
<1>6. known.asked /\ faults' \in Nat
  BY <1>2, <1>3, <1>4
<1> QED BY <1>3, <1>4, <1>5, <1>6, UploadsKeeps

LEMMA DeclineKeeps == ASSUME KnowledgeInv, NEW b \in Batches, Decline(b) PROVE KnowledgeInv'
<1>1. PICK batch, x : batch = batches[b] /\ x = [batch EXCEPT !.pc = "done"]
  OBVIOUS
<1>2. batch \in BatchStates /\ batch.pc = "asking" /\ BatchTrue(batch, b, documents, folders)
  <2>1. dialog = b /\ b # None
    BY BatchesNumbered DEF Decline
  <2> QED BY <1>1, <2>1 DEF KnowledgeInv, KnowledgeTypes, DialogTrue
<1>3. /\ x \in BatchStates /\ x.pc = "done" /\ x.of = batch.of /\ x.folder = batch.folder
      /\ x.alone = batch.alone /\ x.succeeded = batch.succeeded /\ x.asked = batch.asked /\ x.blind = batch.blind
  BY <1>1, <1>2 DEF BatchStates
<1>4. /\ batches' = [batches EXCEPT ![b] = x] /\ dialog' = None
      /\ UNCHANGED <<library, search, pending, documents, folders, faults>>
  BY <1>1 DEF Decline, Set, server
<1>5. Follows(batch, x) /\ BatchTrue(x, b, documents, folders)
  BY <1>2, <1>3 DEF Follows, Running, BatchTrue, Uploading, Unseen, Whole
<1>6. KnowledgeTypes'
  BY <1>3, <1>4 DEF KnowledgeInv, KnowledgeTypes
<1>7. Follows(batches[b], x) /\ batches[b].pc = "asking"
  BY <1>1, <1>2, <1>5
<1>8. /\ \A w \in Workspaces : folders[w] \subseteq folders'[w]
      /\ BatchTrue(x, b, documents, folders') /\ UNCHANGED documents /\ dialog' = None
      /\ \A c \in pending' : c \in pending
      /\ ~(batches[b].pc \in {"searching", "done", "stuck"})
  BY <1>4, <1>5, <1>7
<1>9. batches' = [batches EXCEPT ![b] = x] /\ x \in BatchStates
  BY <1>3, <1>4
<1> QED BY <1>6, <1>7, <1>8, <1>9, OneMoves

LEMMA ReceiveKeeps == ASSUME KnowledgeInv, NEW b \in Batches, Receive(b) PROVE KnowledgeInv'
<1>1. PICK batch : batch = batches[b]
  OBVIOUS
<1>2. /\ batch \in BatchStates /\ batch.pc = "uploading" /\ BatchTrue(batch, b, documents, folders)
      /\ batch.of \in Workspaces /\ batch.folder \in Folders
      /\ UNCHANGED <<library, search, pending, documents, dialog>> /\ faults \in Nat
      /\ folders \in [Workspaces -> SUBSET Folders]
  BY <1>1 DEF KnowledgeInv, KnowledgeTypes, Receive, BatchTrue
<1>3. PICK answer \in {"extracting", "failed"}, registered \in BOOLEAN :
        /\ answer = "extracting" => registered
        /\ Settle(b, answer)
        /\ folders' = IF registered
                      THEN [folders EXCEPT ![batches[b].of] = @ \cup {batches[b].folder}] ELSE folders
  BY DEF Receive
<1>4. PICK x : x = [batch EXCEPT !.answer = answer]
  OBVIOUS
<1>5. /\ x \in BatchStates /\ x.pc = "uploading" /\ x.answer = answer /\ x.of = batch.of /\ x.folder = batch.folder
      /\ x.left = batch.left /\ x.alone = batch.alone /\ x.succeeded = batch.succeeded /\ x.asked = batch.asked
      /\ x.blind = batch.blind
  BY <1>2, <1>4 DEF BatchStates
<1>6. batches' = [batches EXCEPT ![b] = x] /\ faults' \in Nat
  BY <1>1, <1>2, <1>3, <1>4 DEF Settle, Set
<1>7. /\ folders' \in [Workspaces -> SUBSET Folders] /\ \A w \in Workspaces : folders[w] \subseteq folders'[w]
      /\ answer = "extracting" => batch.folder \in folders'[batch.of]
  BY <1>1, <1>2, <1>3
<1>8. BatchTrue(x, b, documents, folders')
  <2>1. BatchTrue(batch, b, documents, folders')
    BY <1>2, <1>7, ServerGrows DEF BatchTrue
  <2>2. Uploading(x, b, documents, folders')
    BY <1>3, <1>5, <1>7, <2>1, <1>2 DEF BatchTrue, Uploading
  <2> QED BY <1>2, <1>5, <2>1, <2>2 DEF BatchTrue, Unseen, Whole
<1>9. Follows(batches[b], x)
  BY <1>1, <1>2, <1>5 DEF Follows, Running
<1>10. KnowledgeTypes'
  BY <1>2, <1>5, <1>6, <1>7 DEF KnowledgeInv, KnowledgeTypes
<1>11. batches[b].pc = "uploading" /\ dialog' = dialog /\ pending' = pending /\ UNCHANGED documents
  BY <1>1, <1>2
<1> QED BY <1>5, <1>6, <1>7, <1>8, <1>9, <1>10, <1>11, OneMoves

LEMMA StoreKeeps == ASSUME KnowledgeInv, NEW b \in Batches, Store(b) PROVE KnowledgeInv'
<1>1. PICK batch : batch = batches[b]
  OBVIOUS
<1>2. /\ batch \in BatchStates /\ batch.pc = "uploading" /\ BatchTrue(batch, b, documents, folders)
      /\ batch.answer = "extracting" /\ batch.of \in Workspaces /\ batch.folder \in Folders
      /\ UNCHANGED <<library, search, pending, folders, dialog>> /\ faults \in Nat
  BY <1>1 DEF KnowledgeInv, KnowledgeTypes, Store, BatchTrue
<1>3. PICK n \in 0 .. Chunks, answer \in {"ok", "failed"} :
        /\ answer = "ok" => ChunksStored(n)
        /\ Settle(b, answer)
        /\ documents' = documents \cup (IF n > 0 THEN {Document(b, n)} ELSE {})
  BY DEF Store
<1>4. PICK x, d, f : x = [batch EXCEPT !.answer = answer] /\ d = Document(b, n) /\ f = Head(batch.left)
  OBVIOUS
<1>5. /\ x \in BatchStates /\ x.pc = "uploading" /\ x.answer = answer /\ x.of = batch.of /\ x.folder = batch.folder
      /\ x.left = batch.left /\ x.alone = batch.alone /\ x.succeeded = batch.succeeded /\ x.asked = batch.asked
      /\ x.blind = batch.blind
  BY <1>2, <1>4 DEF BatchStates
<1>6. batches' = [batches EXCEPT ![b] = x] /\ faults' \in Nat
  BY <1>1, <1>2, <1>3, <1>4 DEF Settle, Set
<1>7. n \in Nat /\ (answer = "ok" => n = Chunks /\ n > 0)
  BY <1>3, KnowledgeBounds DEF ChunksStored
<1>8. batch.left # <<>> /\ batch.left \in Seq(Files) /\ batch.folder \in folders[batch.of]
  BY <1>2 DEF BatchTrue, Uploading, BatchStates
<1>9. f \in Range(batch.left) /\ f \in Files
  <2>1. 1 \in DOMAIN batch.left /\ f = batch.left[1]
    BY <1>4, <1>8
  <2> QED BY <1>8, <2>1 DEF Range
<1>10. d \in Documents /\ d.batch = b /\ d.file = f /\ d.of = batch.of /\ d.folder = batch.folder /\ d.chunks = n
  BY <1>1, <1>2, <1>4, <1>7, <1>9 DEF Document, File, Documents
<1>11. /\ batches \in [Batches -> BatchStates] /\ batches'[b] = x /\ (\A a \in Batches : a # b => batches'[a] = batches[a])
       /\ \A a \in Batches : /\ batches'[a].pc = batches[a].pc /\ batches'[a].alone = batches[a].alone
                             /\ batches'[a].asked = batches[a].asked /\ batches'[a].blind = batches[a].blind
                             /\ batches'[a].of = batches[a].of /\ batches'[a].folder = batches[a].folder
  BY <1>1, <1>2, <1>5, <1>6 DEF KnowledgeInv, KnowledgeTypes
<1>12. documents' \subseteq documents \cup {d} /\ documents \subseteq documents' /\ (answer = "ok" => d \in documents')
  BY <1>3, <1>4, <1>7
<1>13. KnowledgeTypes'
  BY <1>2, <1>5, <1>6, <1>10, <1>12 DEF KnowledgeInv, KnowledgeTypes
<1>14. \A a \in Batches : b < a /\ batches[a].pc # "idle" => ~batches[a].alone
  BY <1>1, <1>2 DEF KnowledgeInv, InOrder, Running
<1>15. ASSUME NEW a \in Batches PROVE BatchTrue(batches'[a], a, documents', folders')
  <2>1. CASE a = b
    <3>1. Unseen(x, b, documents')
      <4>1. Unseen(batch, b, documents)
        BY <1>2 DEF BatchTrue
      <4>2. ~(b < b)
        BY BatchesNumbered
      <4> QED BY <1>2, <1>5, <1>10, <1>12, <4>1, <4>2 DEF Unseen
    <3>2. Uploading(x, b, documents', folders)
      <4>1. answer = "ok" => Whole(x, b, f, documents')
        BY <1>5, <1>7, <1>10, <1>12 DEF Whole
      <4> QED BY <1>4, <1>5, <1>8, <4>1 DEF Uploading
    <3>3. \A g \in x.succeeded : Whole(x, b, g, documents') /\ x.folder \in folders[x.of]
      BY <1>2, <1>5, <1>12 DEF BatchTrue, Whole
    <3> QED BY <1>2, <1>5, <1>11, <2>1, <3>1, <3>2, <3>3 DEF BatchTrue
  <2>2. CASE a # b
    <3>1. batches[a] \in BatchStates /\ BatchTrue(batches[a], a, documents, folders) /\ Unseen(batches[a], a, documents)
      BY DEF KnowledgeInv, KnowledgeTypes, BatchTrue
    <3>2. Unseen(batches[a], a, documents')
      BY <1>10, <1>12, <1>14, <3>1 DEF Unseen
    <3> QED BY <1>2, <1>11, <1>12, <2>2, <3>1, <3>2, ServerGrows
  <2> QED BY <2>1, <2>2
<1>16. ASSUME NEW e \in documents' PROVE DocumentTrue(e, batches') /\ e.batch \in Batches
  <2>1. CASE e \in documents
    <3>1. DocumentTrue(e, batches) /\ e.batch \in Batches
      BY <2>1 DEF KnowledgeInv, KnowledgeTypes, Documents
    <3> QED BY <1>11, <3>1 DEF DocumentTrue
  <2>2. CASE e \notin documents
    <3>1. e = d /\ n > 0
      BY <1>3, <1>4, <2>2
    <3> QED BY <1>2, <1>5, <1>10, <1>11, <3>1 DEF DocumentTrue
  <2> QED BY <2>1, <2>2
<1>17. InOrder(batches')
  BY <1>11 DEF KnowledgeInv, InOrder
<1>18. DialogTrue(dialog', batches')
  BY <1>2, <1>11 DEF KnowledgeInv, KnowledgeTypes, DialogTrue
<1>19. \A c \in pending' : QuestionTrue(c, batches')
  BY <1>2, <1>11 DEF KnowledgeInv, KnowledgeTypes, QuestionTrue, Questions
<1>20. DuplicatesAsked'
  <2> SUFFICES ASSUME NEW e \in documents', NEW g \in documents', e.batch < g.batch, e.file = g.file, e.of = g.of,
                      e.folder = g.folder, batches'[g.batch].alone
               PROVE  batches'[g.batch].asked \/ batches'[g.batch].blind
    BY DEF DuplicatesAsked
  <2>1. e.batch \in Batches /\ g.batch \in Batches /\ batches[g.batch].alone /\ batches[g.batch].pc # "idle"
    BY <1>11, <1>16 DEF DocumentTrue
  <2>2. e \in documents
    BY <1>10, <1>12, <1>14, <2>1
  <2>3. CASE g \in documents
    BY <1>11, <2>1, <2>2, <2>3 DEF KnowledgeInv, DuplicatesAsked
  <2>4. CASE g = d
    <3>1. Unseen(batch, b, documents)
      BY <1>2 DEF BatchTrue
    <3>2. batch.asked \/ batch.blind
      BY <1>1, <1>2, <1>9, <1>10, <2>1, <2>2, <2>4, <3>1 DEF Unseen
    <3> QED BY <1>1, <1>10, <1>11, <2>4, <3>2
  <2> QED BY <1>12, <2>3, <2>4
<1> QED BY <1>13, <1>15, <1>16, <1>17, <1>18, <1>19, <1>20 DEF KnowledgeInv

(* What a batch holds when the upload of a file is answered.               *)
AfterAnswer(batch) ==
  [batch EXCEPT !.left = Tail(@), !.answer = None,
                !.succeeded = IF batch.answer = "ok" THEN @ \cup {Head(batch.left)} ELSE @]

(* What it goes on with.                                                   *)
Goes(told, pc, answer) == [told EXCEPT !.pc = pc, !.answer = answer]

LEMMA AfterAnswerIs ==
  ASSUME NEW batch \in BatchStates, NEW b \in Batches, NEW docs, NEW known, BatchTrue(batch, b, docs, known),
         batch.pc = "uploading", NEW pc \in {"uploading", "searching", "done", "stuck"},
         NEW answer \in {None, "sent"}, NEW told, told = AfterAnswer(batch),
         NEW x, x = Goes(told, pc, answer),
         pc = "uploading" => told.left # <<>> /\ answer = "sent"
  PROVE  /\ x \in BatchStates /\ x.pc = pc /\ BatchTrue(x, b, docs, known) /\ Follows(batch, x)
<1>1. /\ batch.left # <<>> /\ batch.left \in Seq(Files)
      /\ batch.of \in Workspaces /\ batch.folder \in Folders
      /\ batch.answer = "ok" => batch.folder \in known[batch.of] /\ Whole(batch, b, Head(batch.left), docs)
  BY DEF BatchTrue, Uploading, BatchStates
<1>2. PICK left, succeeded :
        /\ left = Tail(batch.left)
        /\ succeeded = (IF batch.answer = "ok" THEN batch.succeeded \cup {Head(batch.left)} ELSE batch.succeeded)
  OBVIOUS
<1>3. PICK s : s = batch.left
  OBVIOUS
<1>4. s \in Seq(Files) /\ s # <<>> /\ Head(s) \in Files /\ Tail(s) \in Seq(Files)
  BY <1>1, <1>3, HeadTailProperties
<1>5. Range(Tail(s)) \subseteq Range(s)
  <2>1. /\ Len(s) \in Nat /\ DOMAIN s = 1 .. Len(s) /\ DOMAIN Tail(s) = 1 .. Len(s) - 1
        /\ \A i \in 1 .. Len(s) - 1 : Tail(s)[i] = s[i + 1] /\ i + 1 \in 1 .. Len(s)
    BY <1>4
  <2> QED BY <2>1 DEF Range
<1>6. left \in Seq(Files) /\ Range(left) \subseteq Range(batch.left) /\ succeeded \subseteq Files
  <2>1. Head(batch.left) \in Files /\ batch.succeeded \subseteq Files
    BY <1>3, <1>4 DEF BatchStates
  <2> QED BY <1>2, <1>3, <1>4, <1>5, <2>1
<1>7. x = [batch EXCEPT !.left = left, !.answer = answer, !.succeeded = succeeded, !.pc = pc]
  <2>1. told = [batch EXCEPT !.left = left, !.answer = None, !.succeeded = succeeded]
    BY <1>2 DEF AfterAnswer, BatchStates
  <2>2. x = [told EXCEPT !.pc = pc, !.answer = answer]
    BY DEF Goes
  <2> QED BY <2>1, <2>2 DEF BatchStates
<1>8. /\ x \in BatchStates /\ x.pc = pc /\ x.left = left /\ x.answer = answer /\ x.succeeded = succeeded
      /\ x.of = batch.of /\ x.folder = batch.folder /\ x.alone = batch.alone /\ x.asked = batch.asked
      /\ x.blind = batch.blind
  <2>1. /\ left \in Seq(Files) /\ succeeded \in SUBSET Files
        /\ answer \in {None, "sent", "extracting", "ok", "failed"}
        /\ pc \in {"idle", "listing", "asking", "uploading", "searching", "done", "stuck", "abandoned"}
    BY <1>6
  <2>2. x \in BatchStates
    BY <1>7, <2>1 DEF BatchStates
  <2>3. /\ x.pc = pc /\ x.left = left /\ x.answer = answer /\ x.succeeded = succeeded
        /\ x.of = batch.of /\ x.folder = batch.folder /\ x.alone = batch.alone /\ x.asked = batch.asked
        /\ x.blind = batch.blind
    BY <1>7 DEF BatchStates
  <2> QED BY <2>2, <2>3
<1>9. Follows(batch, x)
  BY <1>8 DEF Follows, Running
<1>10. told.left = left
  BY <1>2 DEF AfterAnswer, BatchStates
<1>11. Uploading(x, b, docs, known)
  <2>1. pc = "uploading" => left # <<>> /\ answer \notin {"extracting", "ok"}
    BY <1>10
  <2> QED BY <1>8, <2>1 DEF Uploading
<1>12. Unseen(x, b, docs)
  <2>1. Unseen(batch, b, docs)
    BY DEF BatchTrue
  <2> QED BY <1>6, <1>8, <2>1 DEF Unseen
<1>13. ASSUME NEW f \in succeeded PROVE Whole(x, b, f, docs) /\ x.folder \in known[x.of]
  <2>1. Whole(batch, b, f, docs) /\ batch.folder \in known[batch.of]
    BY <1>1, <1>2, <1>13 DEF BatchTrue
  <2> QED BY <1>8, <2>1 DEF Whole
<1>14. BatchTrue(x, b, docs, known)
  BY <1>1, <1>8, <1>11, <1>12, <1>13 DEF BatchTrue
<1> QED BY <1>2, <1>8, <1>9, <1>14

(* The library that a batch reloads as it ends.                            *)
LEMMA ReloadIs ==
  ASSUME KnowledgeTypes, NEW folder \in Folders \cup {"all"}, NEW lib, lib = Reload(folder)
  PROVE  /\ lib \in Libraries /\ lib.active = library.active /\ lib.of = library.active /\ lib.folder = folder
         /\ lib.route = library.route
<1>1. library \in Libraries
  BY DEF KnowledgeTypes
<1> QED BY <1>1 DEF Reload, Loading, Libraries

LEMMA ListedIs ==
  ASSUME NEW lib \in Libraries
  PROVE  \E q \in Questions : /\ Listed(lib) = {q} /\ q.kind = "list" /\ q.of = lib.active /\ q.folder = lib.folder
                              /\ q.batch = None /\ q.answer = "awaited"
<1>1. lib.active \in Workspaces /\ lib.folder \in Folders \cup {"all"}
  BY DEF Libraries
<1>2. PICK q : q = Ask("list", lib.active, lib.folder, None)
  OBVIOUS
<1>3. q \in Questions /\ q.kind = "list" /\ q.of = lib.active /\ q.folder = lib.folder /\ q.batch = None /\ q.answer = "awaited"
  BY <1>1, <1>2, AskedIs
<1> QED BY <1>2, <1>3 DEF Listed

(* How a batch ends: its state, and what is asked.                         *)
LEMMA FinishIs ==
  ASSUME KnowledgeTypes, NEW b \in Batches, NEW told \in BatchStates, Finish(b, told), told.folder \in Folders
  PROVE  \E pc \in {"searching", "done", "stuck"} :
           /\ batches' = [batches EXCEPT ![b] = [told EXCEPT !.pc = pc]]
           /\ library' \in Libraries /\ pending' \in SUBSET Questions
           /\ search' \in [view : {"idle", "loading", "shown"}, of : Workspaces \cup {None}]
           /\ \A c \in pending' \ pending : \/ c.batch = None
                                            \/ c.kind = "search" /\ c.batch = b /\ pc = "searching"
<1>1. CASE told.succeeded = {}
  BY <1>1 DEF Finish, Finished, Set, KnowledgeTypes
<1>2. CASE told.succeeded # {}
  <2>1. PICK lib : lib = Reload(told.folder)
    OBVIOUS
  <2>2. lib \in Libraries /\ lib.active = library.active
    BY <2>1, ReloadIs
  <2>3. lib.active \in Workspaces
    BY <2>2 DEF Libraries
  <2>4. PICK q \in Questions : Listed(lib) = {q} /\ q.batch = None
    BY <2>2, ListedIs
  <2>5. PICK r : r = Ask("search", lib.active, "all", b)
    OBVIOUS
  <2>6. r \in Questions /\ r.kind = "search" /\ r.batch = b
    <3>1. PICK kind, folder, batch : kind = "search" /\ folder = "all" /\ batch = b
      OBVIOUS
    <3>2. /\ kind \in {"list", "search"} /\ folder \in Folders \cup {"all"} /\ batch \in Batches \cup {None}
          /\ r = Ask(kind, lib.active, folder, batch)
      BY <2>5, <3>1
    <3>3. r \in Questions /\ r.kind = kind /\ r.batch = batch
      BY <2>3, <3>2, AskedIs
    <3> QED BY <3>1, <3>3
  <2>7. library' = lib
    BY <1>2, <2>1 DEF Finish
  <2>8. CASE search.view = "idle"
    BY <1>2, <2>1, <2>2, <2>4, <2>7, <2>8 DEF Finish, Finished, Set, KnowledgeTypes
  <2>9. CASE search.view # "idle"
    <3>1. search' = [view |-> "loading", of |-> lib.active]
      BY <1>2, <2>1, <2>9 DEF Finish
    <3>2. CASE lib.route = "knowledge"
      <4>1. batches' = [batches EXCEPT ![b] = [told EXCEPT !.pc = "searching"]] /\ pending' = pending \cup {q} \cup {r}
        BY <1>2, <2>1, <2>4, <2>5, <2>9, <3>2 DEF Finish, Set
      <4> QED BY <2>2, <2>3, <2>4, <2>6, <2>7, <3>1, <4>1 DEF KnowledgeTypes
    <3>3. CASE lib.route # "knowledge"
      <4>1. batches' = [batches EXCEPT ![b] = [told EXCEPT !.pc = "stuck"]] /\ pending' = pending \cup {q}
        BY <1>2, <2>1, <2>4, <2>9, <3>3 DEF Finish, Set
      <4> QED BY <2>2, <2>3, <2>4, <2>7, <3>1, <4>1 DEF KnowledgeTypes
    <3> QED BY <3>2, <3>3
  <2> QED BY <2>8, <2>9
<1> QED BY <1>1, <1>2

LEMMA FileAnsweredKeeps == ASSUME KnowledgeInv, NEW b \in Batches, FileAnswered(b) PROVE KnowledgeInv'
<1>1. PICK batch, told : batch = batches[b] /\ told = AfterAnswer(batch)
  OBVIOUS
<1>2. /\ batch \in BatchStates /\ batch.pc = "uploading" /\ BatchTrue(batch, b, documents, folders) /\ KnowledgeTypes
      /\ UNCHANGED <<documents, folders, dialog, faults>> /\ batch.folder \in Folders
  BY <1>1 DEF KnowledgeInv, KnowledgeTypes, FileAnswered, server, BatchTrue
<1>3. IF told.left # <<>>
      THEN Set(b, [told EXCEPT !.answer = "sent"]) /\ UNCHANGED <<library, pending, search>>
      ELSE Finish(b, told)
  BY <1>1, Zenon DEF FileAnswered, AfterAnswer, File
<1>4. PICK rest, done : rest = Tail(batch.left)
           /\ done = (IF batch.answer = "ok" THEN batch.succeeded \cup {Head(batch.left)} ELSE batch.succeeded)
  OBVIOUS
<1>5. told = [batch EXCEPT !.left = rest, !.answer = None, !.succeeded = done]
  BY <1>1, <1>2, <1>4 DEF AfterAnswer, BatchStates
<1>6. PICK pc \in {"uploading", "searching", "done", "stuck"}, answer \in {None, "sent"} :
        /\ pc = "uploading" => told.left # <<>> /\ answer = "sent"
        /\ batches' = [batches EXCEPT ![b] = [told EXCEPT !.pc = pc, !.answer = answer]]
        /\ library' \in Libraries /\ pending' \in SUBSET Questions
        /\ search' \in [view : {"idle", "loading", "shown"}, of : Workspaces \cup {None}]
        /\ \A c \in pending' \ pending : \/ c.batch = None
                                         \/ c.kind = "search" /\ c.batch = b /\ pc = "searching"
  <2>1. CASE told.left # <<>>
    <3>1. [told EXCEPT !.answer = "sent"] = [told EXCEPT !.pc = "uploading", !.answer = "sent"]
      BY <1>2, <1>5 DEF BatchStates
    <3> QED BY <1>2, <1>3, <2>1, <3>1 DEF Set, KnowledgeTypes
  <2>2. CASE told.left = <<>>
    <3>1. Finish(b, told)
      BY <1>3, <2>2
    <3>2. told \in BatchStates /\ told.folder \in Folders
      <4>1. PICK x : x = [told EXCEPT !.pc = "done", !.answer = None]
        OBVIOUS
      <4>2. x \in BatchStates
        <5>1. PICK pc, answer : pc = "done" /\ answer = None
          OBVIOUS
        <5>2. /\ pc \in {"uploading", "searching", "done", "stuck"} /\ answer \in {None, "sent"} /\ pc # "uploading"
              /\ x = Goes(told, pc, answer)
          BY <4>1, <5>1 DEF Goes
        <5> QED BY <1>1, <1>2, <5>2, AfterAnswerIs
      <4>3. rest \in Seq(Files) /\ done \subseteq Files
        <5>1. x.left = rest /\ x.succeeded = done
          BY <1>1, <1>2, <1>5, <4>1 DEF BatchStates
        <5> QED BY <4>2, <5>1 DEF BatchStates
      <4> QED BY <1>2, <1>5, <4>3 DEF BatchStates
    <3>3. PICK pc \in {"searching", "done", "stuck"} :
             /\ batches' = [batches EXCEPT ![b] = [told EXCEPT !.pc = pc]]
             /\ library' \in Libraries /\ pending' \in SUBSET Questions
             /\ search' \in [view : {"idle", "loading", "shown"}, of : Workspaces \cup {None}]
             /\ \A c \in pending' \ pending : \/ c.batch = None
                                              \/ c.kind = "search" /\ c.batch = b /\ pc = "searching"
      BY <1>2, <3>1, <3>2, FinishIs
    <3>4. [told EXCEPT !.pc = pc] = [told EXCEPT !.pc = pc, !.answer = None]
      BY <1>2, <1>5 DEF BatchStates
    <3> QED BY <3>3, <3>4
  <2> QED BY <2>1, <2>2
<1>7. PICK x : x = Goes(told, pc, answer)
  OBVIOUS
<1>8. x \in BatchStates /\ x.pc = pc /\ BatchTrue(x, b, documents, folders) /\ Follows(batch, x)
  BY <1>1, <1>2, <1>6, <1>7, AfterAnswerIs
<1>9. KnowledgeTypes'
  BY <1>2, <1>6, <1>7, <1>8 DEF KnowledgeTypes, Goes
<1>10. /\ batches' = [batches EXCEPT ![b] = x] /\ Follows(batches[b], x) /\ BatchTrue(x, b, documents, folders')
       /\ dialog' = dialog /\ batches[b].pc = "uploading" /\ UNCHANGED documents
       /\ \A w \in Workspaces : folders[w] \subseteq folders'[w]
       /\ \A c \in pending' : \/ c \in pending \/ c.batch = None
                              \/ c.kind = "search" /\ c.batch = b /\ x.pc = "searching"
  BY <1>1, <1>2, <1>6, <1>7, <1>8 DEF Goes
<1> QED BY <1>8, <1>9, <1>10, OneMoves

(* The page shown, with the library that it asks for.                      *)
LEMMA ShowIs ==
  ASSUME KnowledgeTypes, NEW lib \in Libraries, Show(lib)
  PROVE  /\ library' \in Libraries /\ library'.active = lib.active /\ library'.route = lib.route
         /\ search' \in [view : {"idle", "loading", "shown"}, of : Workspaces \cup {None}]
         /\ lib.route # "knowledge" => library' = lib /\ pending' = pending /\ search' = search
         /\ lib.route = "knowledge" =>
              /\ library'.of = lib.active
              /\ search'.view # "idle" => search'.of = lib.active
              /\ \E q \in Questions : /\ pending' = pending \cup {q} /\ q.kind = "list" /\ q.of = lib.active
                                      /\ q.folder = library'.folder /\ q.batch = None /\ q.answer = "awaited"
<1>1. CASE lib.route # "knowledge"
  BY <1>1 DEF Show, KnowledgeTypes
<1>2. CASE lib.route = "knowledge"
  <2>1. PICK reset : reset = ResetLibrary(lib)
    OBVIOUS
  <2>2. reset \in Libraries /\ reset.active = lib.active /\ reset.route = lib.route /\ lib.active \in Workspaces
    BY <2>1 DEF ResetLibrary, Libraries
  <2>3. library' = [reset EXCEPT !.loading = TRUE, !.of = reset.active] /\ pending' = pending \cup Listed(reset)
        /\ search' = IF search.view # "idle" /\ search.of # lib.active
                     THEN NoSearch ELSE [search EXCEPT !.of = lib.active]
    BY <1>2, <2>1 DEF Show, Loading
  <2>4. PICK yes : yes = TRUE
    OBVIOUS
  <2>5. /\ library' \in Libraries /\ library'.active = lib.active /\ library'.route = lib.route
        /\ library'.of = lib.active /\ library'.folder = reset.folder
    <3>1. library' = [reset EXCEPT !.loading = yes, !.of = reset.active] /\ yes \in BOOLEAN
      BY <2>3, <2>4
    <3> QED BY <2>2, <3>1 DEF Libraries
  <2>6. PICK q \in Questions : /\ Listed(reset) = {q} /\ q.kind = "list" /\ q.of = reset.active
                               /\ q.folder = reset.folder /\ q.batch = None /\ q.answer = "awaited"
    BY <2>2, ListedIs
  <2>7. /\ search' \in [view : {"idle", "loading", "shown"}, of : Workspaces \cup {None}]
        /\ search'.view # "idle" => search'.of = lib.active
    BY <2>2, <2>3 DEF KnowledgeTypes, NoSearch
  <2> QED BY <1>2, <2>2, <2>3, <2>5, <2>6, <2>7
<1> QED BY <1>1, <1>2

LEMMA GoToIs ==
  ASSUME KnowledgeTypes, GoTo
  PROVE  \E lib \in Libraries : /\ Show(lib) /\ lib.active = library.active /\ lib.folder = library.folder
                                /\ lib.route # library.route /\ lib.of = library.of
<1>1. PICK r \in {"knowledge", "other"} \ {library.route} : Show([library EXCEPT !.route = r])
  BY DEF GoTo
<1>2. PICK lib : lib = [library EXCEPT !.route = r]
  OBVIOUS
<1>3. lib \in Libraries /\ lib.active = library.active /\ lib.folder = library.folder /\ lib.route = r /\ lib.of = library.of
  BY <1>2 DEF KnowledgeTypes, Libraries
<1> QED BY <1>1, <1>2, <1>3

LEMMA SwitchToIs ==
  ASSUME KnowledgeTypes, SwitchTo
  PROVE  \E lib \in Libraries : Show(lib) /\ lib.route = library.route
<1>1. PICK w \in Workspaces : Show([library EXCEPT !.active = w])
  BY DEF SwitchTo
<1>2. PICK lib : lib = [library EXCEPT !.active = w]
  OBVIOUS
<1>3. lib \in Libraries /\ lib.route = library.route
  BY <1>2 DEF KnowledgeTypes, Libraries
<1> QED BY <1>1, <1>2, <1>3

LEMMA FolderIs ==
  ASSUME KnowledgeTypes, NEW f \in Folders \cup {"all"},
         NEW lib, lib = [library EXCEPT !.folder = f], NEW lib2, lib2 = Loading(lib)
  PROVE  /\ lib2 \in Libraries /\ lib2.active = library.active /\ lib2.of = library.active /\ lib2.folder = f
         /\ \E q \in Questions : /\ Listed(lib) = {q} /\ q.kind = "list" /\ q.of = library.active
                                 /\ q.folder = f /\ q.batch = None /\ q.answer = "awaited"
<1>1. library \in Libraries
  BY DEF KnowledgeTypes
<1>2. lib \in Libraries /\ lib.active = library.active /\ lib.folder = f /\ lib.active \in Workspaces
  BY <1>1 DEF Libraries
<1>3. lib2 \in Libraries /\ lib2.active = library.active /\ lib2.of = library.active /\ lib2.folder = f
  BY <1>2 DEF Loading, Libraries
<1>4. PICK q \in Questions : /\ Listed(lib) = {q} /\ q.kind = "list" /\ q.of = lib.active /\ q.folder = lib.folder
                             /\ q.batch = None /\ q.answer = "awaited"
  BY <1>2, ListedIs
<1> QED BY <1>2, <1>3, <1>4

(* The folder is chosen, or created.                                       *)
LEMMA FolderChosen ==
  ASSUME KnowledgeTypes, SetFolder \/ CreateFolder
  PROVE  /\ library' \in Libraries /\ library'.active = library.active /\ library'.of = library.active
         /\ \E q \in Questions : /\ pending' = pending \cup {q} /\ q.kind = "list" /\ q.of = library.active
                                 /\ q.folder = library'.folder /\ q.batch = None /\ q.answer = "awaited"
         /\ folders' \in [Workspaces -> SUBSET Folders] /\ \A w \in Workspaces : folders[w] \subseteq folders'[w]
         /\ UNCHANGED <<search, uploading, dialog, batches, documents, faults>>
<1>1. PICK f \in Folders \cup {"all"} :
        LET lib == [library EXCEPT !.folder = f]
        IN  library' = Loading(lib) /\ pending' = pending \cup Listed(lib)
  BY DEF SetFolder, CreateFolder
<1>2. PICK lib, lib2 : lib = [library EXCEPT !.folder = f] /\ lib2 = Loading(lib)
  OBVIOUS
<1>3. library' = lib2 /\ pending' = pending \cup Listed(lib)
  BY <1>1, <1>2
<1>4. folders' \in [Workspaces -> SUBSET Folders] /\ \A w \in Workspaces : folders[w] \subseteq folders'[w]
  <2>1. CASE SetFolder
    BY <2>1 DEF SetFolder, server, KnowledgeTypes
  <2>2. CASE CreateFolder
    <3>1. PICK g \in Folders : folders' = [folders EXCEPT ![library.active] = @ \cup {g}]
      BY <2>2 DEF CreateFolder
    <3>2. library.active \in Workspaces /\ folders \in [Workspaces -> SUBSET Folders]
      BY DEF KnowledgeTypes, Libraries
    <3> QED BY <3>1, <3>2
  <2> QED BY <2>1, <2>2
<1>5. UNCHANGED <<search, uploading, dialog, batches, documents, faults>>
  BY DEF SetFolder, CreateFolder, server
<1> QED BY <1>2, <1>3, <1>4, <1>5, FolderIs

LEMMA SearchIs ==
  ASSUME KnowledgeTypes, Search
  PROVE  /\ search' = [view |-> "loading", of |-> library.active]
         /\ search' \in [view : {"idle", "loading", "shown"}, of : Workspaces \cup {None}]
         /\ \E q \in Questions : /\ pending' = pending \cup {q} /\ q.kind = "search" /\ q.of = library.active
                                 /\ q.batch = None /\ q.answer = "ok"
         /\ UNCHANGED <<library, uploading, dialog, batches, documents, folders, faults>>
<1>1. library.active \in Workspaces
  BY DEF KnowledgeTypes, Libraries
<1>2. PICK kind, folder : kind = "search" /\ folder = "all"
  OBVIOUS
<1>3. PICK q : q = Ask(kind, library.active, folder, None)
  OBVIOUS
<1>4. q \in Questions /\ q.kind = kind /\ q.of = library.active /\ q.batch = None /\ q.answer = "ok"
  BY <1>1, <1>2, <1>3, AskedIs
<1>5. /\ search' = [view |-> "loading", of |-> library.active] /\ pending' = pending \cup {q}
      /\ UNCHANGED <<library, uploading, dialog, batches, documents, folders, faults>>
  BY <1>2, <1>3 DEF Search, Searching, server
<1> QED BY <1>1, <1>2, <1>4, <1>5

LEMMA PageKeeps ==
  ASSUME KnowledgeInv, GoTo \/ SwitchTo \/ SetFolder \/ CreateFolder \/ Search PROVE KnowledgeInv'
<1>1. KnowledgeTypes
  BY DEF KnowledgeInv
<1>2. CASE GoTo \/ SwitchTo
  <2>1. PICK lib \in Libraries : Show(lib)
    BY <1>1, <1>2, GoToIs, SwitchToIs
  <2>2. UNCHANGED <<dialog, batches, documents, folders, faults>>
    BY <1>2 DEF GoTo, SwitchTo, server
  <2>3. /\ library' \in Libraries /\ pending' \in SUBSET Questions
        /\ search' \in [view : {"idle", "loading", "shown"}, of : Workspaces \cup {None}]
        /\ \A c \in pending' : c \in pending \/ c.batch = None
    <3>1. pending' = pending \/ \E q \in Questions : pending' = pending \cup {q} /\ q.batch = None
      BY <1>1, <2>1, ShowIs
    <3>2. pending \in SUBSET Questions
      BY <1>1 DEF KnowledgeTypes
    <3> QED BY <1>1, <2>1, <3>1, <3>2, ShowIs
  <2>4. KnowledgeTypes'
    BY <1>1, <2>2, <2>3 DEF KnowledgeTypes
  <2> QED BY <2>2, <2>3, <2>4, OnlyThePage DEF QuestionTrue
<1>3. CASE SetFolder \/ CreateFolder
  <2>1. PICK q \in Questions : pending' = pending \cup {q} /\ q.batch = None
    BY <1>1, <1>3, FolderChosen
  <2>2. KnowledgeTypes'
    BY <1>1, <1>3, <2>1, FolderChosen DEF KnowledgeTypes
  <2> QED BY <1>1, <1>3, <2>1, <2>2, FolderChosen, OnlyThePage DEF QuestionTrue
<1>4. CASE Search
  <2>1. PICK q \in Questions : pending' = pending \cup {q} /\ q.batch = None
    BY <1>1, <1>4, SearchIs
  <2>2. KnowledgeTypes'
    BY <1>1, <1>4, <2>1, SearchIs DEF KnowledgeTypes
  <2> QED BY <1>1, <1>4, <2>1, <2>2, SearchIs, OnlyThePage DEF QuestionTrue
<1> QED BY <1>2, <1>3, <1>4

(* The server lists; the page handles the answer.                          *)
LEMMA ListingIs == ASSUME KnowledgeTypes, NEW w, NEW folder PROVE Listing(w, folder) \subseteq Documents
BY DEF KnowledgeTypes, Listing

LEMMA ServedIs ==
  ASSUME KnowledgeTypes, NEW c \in pending, ServeLibrary(c)
  PROVE  /\ \E answer \in {"ok", "failed"}, q \in Questions :
              /\ pending' = (pending \ {c}) \cup {q}
              /\ q.kind = c.kind /\ q.of = c.of /\ q.folder = c.folder /\ q.batch = c.batch /\ q.answer = answer
              /\ answer = "ok" => q.found = Listing(c.of, c.folder)
              /\ answer = "failed" => faults' = faults + 1
         /\ faults' \in Nat
         /\ UNCHANGED <<library, search, dialog, batches, documents, folders>>
<1>1. PICK answer \in {"ok", "failed"} :
        /\ faults' = IF answer = "failed" THEN faults + 1 ELSE faults
        /\ pending' = (pending \ {c}) \cup
             {[c EXCEPT !.answer = answer, !.found = IF answer = "ok" THEN Listing(c.of, c.folder) ELSE {}]}
  BY DEF ServeLibrary
<1>2. PICK found : found = IF answer = "ok" THEN Listing(c.of, c.folder) ELSE {}
  OBVIOUS
<1>3. found \in SUBSET Documents /\ c \in Questions /\ faults \in Nat
  BY <1>2, ListingIs DEF KnowledgeTypes
<1>4. PICK q : q = [c EXCEPT !.answer = answer, !.found = found]
  OBVIOUS
<1>5. /\ q \in Questions /\ q.kind = c.kind /\ q.of = c.of /\ q.folder = c.folder /\ q.batch = c.batch
      /\ q.answer = answer /\ q.found = found
  BY <1>3, <1>4 DEF Questions
<1>6. UNCHANGED <<library, search, dialog, batches, documents, folders>>
  BY DEF ServeLibrary, server
<1>7. faults' \in Nat /\ (answer = "failed" => faults' = faults + 1)
  BY <1>1, <1>3
<1>8. pending' = (pending \ {c}) \cup {q} /\ (answer = "ok" => q.found = Listing(c.of, c.folder))
  BY <1>1, <1>2, <1>4, <1>5
<1> QED BY <1>5, <1>6, <1>7, <1>8

LEMMA ServeLibraryKeeps == ASSUME KnowledgeInv, NEW c \in pending, ServeLibrary(c) PROVE KnowledgeInv'
<1>1. KnowledgeTypes /\ QuestionTrue(c, batches)
  BY DEF KnowledgeInv
<1>2. PICK q \in Questions : pending' = (pending \ {c}) \cup {q} /\ q.kind = c.kind /\ q.batch = c.batch
  BY <1>1, ServedIs
<1>3. KnowledgeTypes'
  BY <1>1, <1>2, ServedIs DEF KnowledgeTypes
<1>4. QuestionTrue(q, batches)
  BY <1>1, <1>2 DEF QuestionTrue
<1> QED BY <1>1, <1>2, <1>3, <1>4, ServedIs, OnlyThePage

LEMMA ListAnsweredIs ==
  ASSUME KnowledgeTypes, NEW c \in pending, ListAnswered(c)
  PROVE  /\ library' \in Libraries /\ library'.route = library.route /\ library'.active = library.active
         /\ library'.folder = library.folder /\ library'.of = c.of /\ library'.shown = c.found
<1>1. c \in Questions /\ library \in Libraries
  BY DEF KnowledgeTypes
<1>2. PICK no : no = FALSE
  OBVIOUS
<1>3. /\ library' = [library EXCEPT !.loading = no, !.of = c.of, !.shown = c.found] /\ no \in BOOLEAN
      /\ c.of \in Workspaces /\ c.found \in SUBSET Documents
  BY <1>1, <1>2 DEF ListAnswered, Questions
<1> QED BY <1>1, <1>3 DEF Libraries

(* A search whose answer is handled: of a batch, it is over.               *)
LEMMA SearchAnsweredIs ==
  ASSUME KnowledgeTypes, NEW c \in pending, SearchAnswered(c)
  PROVE  /\ library' = library /\ search' = [view |-> "shown", of |-> c.of]
         /\ search' \in [view : {"idle", "loading", "shown"}, of : Workspaces \cup {None}]
         /\ c.batch = None => UNCHANGED batches
         /\ c.batch # None => c.batch \in Batches /\ \E pc \in {"done", "stuck"} :
              batches' = [batches EXCEPT ![c.batch] = [batches[c.batch] EXCEPT !.pc = pc]]
<1>1. c.of \in Workspaces /\ c.batch \in Batches \cup {None}
  BY DEF KnowledgeTypes, Questions
<1>2. c.batch # None => \E pc \in {"done", "stuck"} :
        batches' = [batches EXCEPT ![c.batch] = [batches[c.batch] EXCEPT !.pc = pc]]
  BY DEF SearchAnswered, Finished, Set
<1> QED BY <1>1, <1>2 DEF SearchAnswered

LEMMA HandleLibraryKeeps == ASSUME KnowledgeInv, NEW c \in pending, HandleLibrary(c) PROVE KnowledgeInv'
<1>1. /\ KnowledgeTypes /\ QuestionTrue(c, batches) /\ pending' = pending \ {c}
      /\ UNCHANGED <<dialog, documents, folders, faults>>
  BY DEF KnowledgeInv, HandleLibrary, server
<1>2. CASE ListAnswered(c)
  <2>1. UNCHANGED <<search, batches>>
    BY <1>2 DEF ListAnswered
  <2>2. KnowledgeTypes'
    BY <1>1, <1>2, <2>1, ListAnsweredIs DEF KnowledgeTypes
  <2> QED BY <1>1, <2>1, <2>2, OnlyThePage
<1>3. CASE SearchAnswered(c)
  <2>1. CASE c.batch = None
    <3>1. KnowledgeTypes'
      BY <1>1, <1>3, <2>1, SearchAnsweredIs DEF KnowledgeTypes
    <3> QED BY <1>1, <1>3, <2>1, <3>1, SearchAnsweredIs, OnlyThePage
  <2>2. CASE c.batch # None
    <3>1. PICK b \in Batches, pc \in {"done", "stuck"} :
            b = c.batch /\ batches' = [batches EXCEPT ![b] = [batches[b] EXCEPT !.pc = pc]]
      BY <1>1, <1>3, <2>2, SearchAnsweredIs
    <3>2. PICK batch, x : batch = batches[b] /\ x = [batch EXCEPT !.pc = pc]
      OBVIOUS
    <3>3. batch \in BatchStates /\ batch.pc \in {"searching", "done", "stuck"} /\ BatchTrue(batch, b, documents, folders)
      BY <1>1, <2>2, <3>1, <3>2 DEF KnowledgeInv, KnowledgeTypes, QuestionTrue
    <3>4. /\ x \in BatchStates /\ x.pc = pc /\ x.of = batch.of /\ x.folder = batch.folder /\ x.alone = batch.alone
          /\ x.succeeded = batch.succeeded /\ x.asked = batch.asked /\ x.blind = batch.blind
      BY <3>2, <3>3 DEF BatchStates
    <3>5. Follows(batch, x) /\ BatchTrue(x, b, documents, folders)
      BY <3>3, <3>4 DEF Follows, Running, BatchTrue, Uploading, Unseen, Whole
    <3>6. batches' = [batches EXCEPT ![b] = x]
      BY <3>1, <3>2
    <3>7. KnowledgeTypes'
      BY <1>1, <1>3, <3>4, <3>6, SearchAnsweredIs DEF KnowledgeTypes
    <3>8. /\ \A w \in Workspaces : folders[w] \subseteq folders'[w]
          /\ Follows(batches[b], x) /\ BatchTrue(x, b, documents, folders') /\ UNCHANGED documents
          /\ dialog' = dialog /\ batches[b].pc # "asking"
          /\ x.pc \in {"searching", "done", "stuck"}
          /\ \A q \in pending' : q \in pending
      BY <1>1, <3>2, <3>3, <3>4, <3>5
    <3> QED BY <3>4, <3>6, <3>7, <3>8, OneMoves
  <2> QED BY <2>1, <2>2
<1> QED BY <1>2, <1>3 DEF HandleLibrary

LEMMA KnowledgeStep == KnowledgeInv /\ [KnowledgeNext]_knowledgeVars => KnowledgeInv'
<1> SUFFICES ASSUME KnowledgeInv, [KnowledgeNext]_knowledgeVars PROVE KnowledgeInv'
  OBVIOUS
<1>1. CASE GoTo \/ SwitchTo \/ SetFolder \/ CreateFolder \/ Search
  BY <1>1, PageKeeps
<1>2. ASSUME NEW b \in Batches,
             Choose(b) \/ Compare(b) \/ Confirm(b) \/ Decline(b) \/ Receive(b) \/ Store(b) \/ FileAnswered(b)
      PROVE  KnowledgeInv'
  BY <1>2, ChooseKeeps, CompareKeeps, ConfirmKeeps, DeclineKeeps, ReceiveKeeps, StoreKeeps, FileAnsweredKeeps
<1>3. ASSUME NEW c \in pending, ServeLibrary(c) \/ HandleLibrary(c) PROVE KnowledgeInv'
  BY <1>3, ServeLibraryKeeps, HandleLibraryKeeps
<1>4. CASE UNCHANGED knowledgeVars
  <2>1. KnowledgeTypes' /\ UNCHANGED <<documents, batches, dialog, folders, pending>>
    BY <1>4 DEF knowledgeVars, server, KnowledgeInv, KnowledgeTypes
  <2> QED BY <2>1, OnlyThePage
<1> QED BY <1>1, <1>2, <1>3, <1>4 DEF KnowledgeNext

LEMMA KnowledgeAlways == KnowledgeSpec => []KnowledgeInv
<1>1. KnowledgeInit => KnowledgeInv
  BY KnowledgeInitHolds
<1> QED BY <1>1, KnowledgeStep, PTL DEF KnowledgeSpec

(* What the page counts as uploaded is stored whole, where it was sent,    *)
(* wherever the user has gone meanwhile (handleUploadFiles and             *)
(* uploadKnowledgeDocument).                                               *)
THEOREM UploadsAreWhole == KnowledgeSpec => []UploadedIsWhole
<1>1. KnowledgeInv => UploadedIsWhole
  <2> SUFFICES ASSUME KnowledgeInv PROVE UploadedIsWhole
    OBVIOUS
  <2>1. \A b \in Batches : BatchTrue(batches[b], b, documents, folders)
    BY DEF KnowledgeInv
  <2> QED BY <2>1 DEF BatchTrue, Whole, UploadedIsWhole
<1> QED BY <1>1, KnowledgeAlways, PTL

(* A batch chosen when no other ran stores a file twice in a folder only   *)
(* if the user was asked or the listing failed (handleUploadFiles,         *)
(* confirmDuplicateUploadDialog).                                          *)
THEOREM DuplicatesStayAsked == KnowledgeSpec => []DuplicatesAsked
<1>1. KnowledgeInv => DuplicatesAsked
  BY DEF KnowledgeInv
<1> QED BY <1>1, KnowledgeAlways, PTL
-----------------------------------------------------------------------------
(***************************************************************************)
(* The library and the search of the knowledge page, as long as no listing *)
(* or search has overlapped another and none has failed.                   *)
(***************************************************************************)
(* Nothing overlapped or failed so far.                                    *)
Smooth == ~overlapped /\ faults = 0

(* A batch that is sending files goes on, or asks for the library.         *)
Sending(x, y) ==
  x.pc = "uploading" /\ (x.succeeded # {} \/ x.answer = "ok") =>
    y.pc = "uploading" /\ (y.succeeded # {} \/ y.answer = "ok")

LEMMA StaleStays == ASSUME Stale, \A b \in Batches : Sending(batches[b], batches'[b]) PROVE Stale'
BY DEF Stale, Sending

(* Steps of the batches alone.                                             *)
LEMMA OnlyTheBatches ==
  ASSUME LibraryInv, Smooth' => Smooth, UNCHANGED <<library, search, pending, documents>>,
         \A b \in Batches : Sending(batches[b], batches'[b]),
         Smooth' => \A b \in Batches :
           batches'[b].pc = "uploading" => batches'[b].answer # "failed"
  PROVE  LibraryInv'
BY StaleStays DEF LibraryInv, Smooth, Listing

(* Steps that ask for the library, when none is awaited.                   *)
LEMMA ListIsAsked ==
  ASSUME LibraryInv, KnowledgeTypes, Smooth' => Smooth, UNCHANGED <<batches, documents>>,
         Smooth' => \A c \in pending : c.kind # "list",
         library'.active = library.active,
         library'.route = "knowledge" => library'.of = library'.active,
         library'.route = "knowledge" /\ search'.view # "idle" => search'.of = library'.active,
         NEW q \in Questions, pending' = pending \cup {q}, q.kind = "list", q.of = library'.active,
         q.folder = library'.folder, q.answer = "awaited"
  PROVE  LibraryInv'
<1> SUFFICES ASSUME Smooth' PROVE LibraryInv'
  BY DEF LibraryInv, Smooth
<1>1. Smooth
  OBVIOUS
<1>2. \A b \in Batches : batches'[b].pc = "uploading" => batches'[b].answer # "failed"
  BY <1>1 DEF LibraryInv, Smooth
<1>3. \A c, d \in pending' : c.kind = d.kind => c = d
  BY <1>1 DEF LibraryInv, Smooth
<1>4. \A c \in pending' : c.of = library'.active /\ c.answer # "failed"
  BY <1>1 DEF LibraryInv, Smooth
<1>5. \A c \in pending' : c.kind = "list" => c = q
  OBVIOUS
<1> QED BY <1>1, <1>2, <1>3, <1>4, <1>5 DEF LibraryInv, Smooth

LEMMA PageStaysCurrent ==
  ASSUME KnowledgeInv, LibraryInv, GoTo \/ SwitchTo \/ SetFolder \/ CreateFolder \/ Search PROVE LibraryInv'
<1>1. KnowledgeTypes
  BY DEF KnowledgeInv
<1>2. CASE GoTo
  <2>1. PICK lib \in Libraries : /\ Show(lib) /\ lib.active = library.active /\ lib.folder = library.folder
                                 /\ lib.route # library.route
    BY <1>1, <1>2, GoToIs
  <2>2. /\ UNCHANGED <<batches, documents, faults>>
        /\ overlapped' = (overlapped \/ \E c \in pending : c.kind = "list")
    BY <1>2 DEF GoTo, server, Overlaps
  <2>3. Smooth' => Smooth /\ \A c \in pending : c.kind # "list"
    BY <2>2 DEF Smooth
  <2>4. CASE lib.route = "knowledge"
    <3>1. PICK q \in Questions : /\ pending' = pending \cup {q} /\ q.kind = "list" /\ q.of = lib.active
                                 /\ q.folder = library'.folder /\ q.answer = "awaited"
      BY <1>1, <2>1, <2>4, ShowIs
    <3>2. /\ library'.active = library.active /\ library'.of = library'.active
          /\ search'.view # "idle" => search'.of = library'.active
      BY <1>1, <2>1, <2>4, ShowIs
    <3> QED BY <1>1, <2>1, <2>2, <2>3, <3>1, <3>2, ListIsAsked
  <2>5. CASE lib.route # "knowledge"
    <3>1. library' = lib /\ pending' = pending /\ search' = search
      BY <1>1, <2>1, <2>5, ShowIs
    <3>2. Stale => Stale'
      BY <2>2 DEF Stale
    <3> QED BY <2>1, <2>2, <2>3, <2>5, <3>1, <3>2 DEF LibraryInv, Smooth, Listing
  <2> QED BY <2>4, <2>5
<1>3. CASE SwitchTo
  <2>1. PICK lib \in Libraries : Show(lib)
    BY <1>1, <1>3, SwitchToIs
  <2>2. UNCHANGED <<batches, documents, faults>> /\ overlapped' = (overlapped \/ pending # {})
    BY <1>3 DEF SwitchTo, server
  <2> SUFFICES ASSUME Smooth' PROVE LibraryInv'
    BY DEF LibraryInv, Smooth
  <2>3. Smooth /\ pending = {}
    BY <2>2 DEF Smooth
  <2>4. \A b \in Batches : batches'[b].pc = "uploading" => batches'[b].answer # "failed"
    BY <2>2, <2>3 DEF LibraryInv, Smooth
  <2>5. CASE lib.route = "knowledge"
    <3>1. PICK q \in Questions : /\ pending' = pending \cup {q} /\ q.kind = "list" /\ q.of = lib.active
                                 /\ q.folder = library'.folder /\ q.answer = "awaited"
      BY <1>1, <2>1, <2>5, ShowIs
    <3>2. /\ library'.active = lib.active /\ library'.of = lib.active
          /\ search'.view # "idle" => search'.of = lib.active
      BY <1>1, <2>1, <2>5, ShowIs
    <3>3. pending' = {q}
      BY <2>3, <3>1
    <3> QED BY <2>4, <3>1, <3>2, <3>3 DEF LibraryInv
  <2>6. CASE lib.route # "knowledge"
    <3>1. library' = lib /\ pending' = {}
      BY <1>1, <2>1, <2>3, <2>6, ShowIs
    <3> QED BY <2>4, <2>6, <3>1 DEF LibraryInv
  <2> QED BY <2>5, <2>6
<1>4. CASE SetFolder \/ CreateFolder
  <2>1. /\ overlapped' = (overlapped \/ \E c \in pending : c.kind = "list") /\ library.route = "knowledge"
    BY <1>4 DEF SetFolder, CreateFolder, Overlaps
  <2>2. UNCHANGED <<search, batches, documents, faults>> /\ library'.active = library.active /\ library'.of = library.active
    BY <1>1, <1>4, FolderChosen
  <2>3. Smooth' => Smooth /\ \A c \in pending : c.kind # "list"
    BY <2>1, <2>2 DEF Smooth
  <2>4. PICK q \in Questions : /\ pending' = pending \cup {q} /\ q.kind = "list" /\ q.of = library.active
                               /\ q.folder = library'.folder /\ q.answer = "awaited"
    BY <1>1, <1>4, FolderChosen
  <2>5. CASE Smooth'
    <3>1. search'.view # "idle" => search'.of = library'.active
      BY <2>1, <2>2, <2>3, <2>5 DEF LibraryInv, Smooth
    <3> QED BY <1>1, <2>2, <2>3, <2>4, <3>1, ListIsAsked
  <2>6. CASE ~Smooth'
    BY <2>6 DEF LibraryInv, Smooth
  <2> QED BY <2>5, <2>6
<1>5. CASE Search
  <2>1. overlapped' = (overlapped \/ \E c \in pending : c.kind = "search")
    BY <1>5 DEF Search, Overlaps
  <2>2. UNCHANGED <<library, batches, documents, faults>> /\ search' = [view |-> "loading", of |-> library.active]
    BY <1>1, <1>5, SearchIs
  <2>3. PICK q \in Questions : /\ pending' = pending \cup {q} /\ q.kind = "search" /\ q.of = library.active
                               /\ q.answer = "ok"
    BY <1>1, <1>5, SearchIs
  <2> SUFFICES ASSUME Smooth' PROVE LibraryInv'
    BY DEF LibraryInv, Smooth
  <2>4. Smooth /\ \A c \in pending : c.kind # "search"
    BY <2>1, <2>2 DEF Smooth
  <2>5. (Stale => Stale') /\ search'.of = library'.active
    BY <2>2 DEF Stale
  <2>6. /\ \A c \in pending' : c.kind = "list" => c \in pending
        /\ \A c \in pending : c \in pending'
        /\ \A c \in pending' : c \in pending \/ c = q
    BY <2>3
  <2>7. \A c, d \in pending' : c.kind = d.kind => c = d
    BY <2>3, <2>4, <2>6 DEF LibraryInv, Smooth
  <2>8. \A c \in pending' : c.of = library'.active /\ c.answer # "failed"
    BY <2>2, <2>3, <2>4, <2>6 DEF LibraryInv, Smooth
  <2>9. \A c \in pending' : c.kind = "list" =>
          /\ c.folder = library'.folder
          /\ c.answer = "ok" => c.found = Listing(c.of, c.folder)' \/ Stale'
    BY <2>2, <2>4, <2>5, <2>6 DEF LibraryInv, Smooth, Listing
  <2>10. library'.route = "knowledge" =>
          /\ library'.of = library'.active
          /\ \/ \E c \in pending' : c.kind = "list"
             \/ library'.shown = Listing(library.active, library.folder)'
             \/ Stale'
    BY <2>2, <2>4, <2>5, <2>6 DEF LibraryInv, Smooth, Listing
  <2> QED BY <2>2, <2>4, <2>5, <2>7, <2>8, <2>9, <2>10 DEF LibraryInv, Smooth
<1> QED BY <1>2, <1>3, <1>4, <1>5

(* A step that counts a failure or not is smooth only after a smooth state.    *)
LEMMA SmoothBefore ==
  ASSUME KnowledgeTypes, overlapped => overlapped', faults' = faults \/ faults' = faults + 1
  PROVE  /\ Smooth' => Smooth
         /\ Smooth' => faults' = faults
BY DEF KnowledgeTypes, Smooth

(* One batch, that was not uploading or goes on uploading.                 *)
LEMMA OneStays ==
  ASSUME KnowledgeTypes, LibraryInv, Smooth' => Smooth, UNCHANGED <<library, search, pending, documents>>,
         NEW b \in Batches, NEW x \in BatchStates, batches' = [batches EXCEPT ![b] = x],
         Sending(batches[b], x), Smooth' /\ x.pc = "uploading" => x.answer # "failed"
  PROVE  LibraryInv'
<1>1. batches'[b] = x /\ \A a \in Batches : a # b => batches'[a] = batches[a]
  BY DEF KnowledgeTypes
<1>2. \A a \in Batches : Sending(batches[a], batches'[a])
  BY <1>1 DEF Sending
<1>3. Smooth' => \A a \in Batches : batches'[a].pc = "uploading" => batches'[a].answer # "failed"
  BY <1>1 DEF LibraryInv, Smooth
<1> QED BY <1>2, <1>3, OnlyTheBatches

LEMMA UploadsStaysCurrent ==
  ASSUME KnowledgeInv, LibraryInv, Smooth' => Smooth, UNCHANGED <<library, search, pending, documents>>,
         NEW b \in Batches, NEW known \in BatchStates, Uploads(b, known), batches[b].pc # "uploading"
  PROVE  LibraryInv'
<1>1. PICK x : x = [known EXCEPT !.pc = "uploading", !.answer = "sent"]
  OBVIOUS
<1>2. x \in BatchStates /\ x.answer = "sent"
  BY <1>1 DEF BatchStates
<1>3. batches' = [batches EXCEPT ![b] = x] /\ Sending(batches[b], x)
  BY <1>1 DEF Uploads, Set, Sending
<1>4. Smooth' /\ x.pc = "uploading" => x.answer # "failed"
  BY <1>2
<1>5. KnowledgeTypes
  BY DEF KnowledgeInv
<1> QED BY <1>2, <1>3, <1>4, <1>5, OneStays

LEMMA ChooseStaysCurrent ==
  ASSUME KnowledgeInv, LibraryInv, NEW b \in Batches, Choose(b) PROVE LibraryInv'
<1>1. /\ batches \in [Batches -> BatchStates] /\ batches[b].pc = "idle"
      /\ UNCHANGED <<library, search, pending, documents, faults, overlapped>>
  BY DEF KnowledgeInv, KnowledgeTypes, Choose, server
<1>2. /\ \A a \in Batches : a # b => batches'[a] = batches[a]
      /\ batches'[b].pc = "listing"
  <2> DEFINE Chosen(files, folder) ==
               [Idle EXCEPT !.pc = "listing", !.of = library.active, !.folder = folder, !.left = files,
                            !.alone = \A a \in Batches : batches[a].pc \notin Running]
  <2>1. PICK n \in 1 .. MaxFiles : \E files \in [1 .. n -> Files], folder \in Folders : Set(b, Chosen(files, folder))
    BY DEF Choose
  <2>2. PICK files \in [1 .. n -> Files], folder \in Folders : Set(b, Chosen(files, folder))
    BY <2>1
  <2>3. PICK x, alone : /\ x = [Idle EXCEPT !.pc = "listing", !.of = library.active, !.folder = folder, !.left = files, !.alone = alone]
                        /\ batches' = [batches EXCEPT ![b] = x]
    BY <2>2 DEF Set
  <2> HIDE DEF Chosen
  <2>4. x.pc = "listing"
    BY <2>3 DEF Idle
  <2> QED BY <1>1, <2>3, <2>4
<1>3. \A a \in Batches : Sending(batches[a], batches'[a])
  BY <1>1, <1>2 DEF Sending
<1>4. Smooth' => Smooth /\ \A a \in Batches : batches'[a].pc = "uploading" => batches'[a].answer # "failed"
  BY <1>1, <1>2 DEF Smooth, LibraryInv
<1> QED BY <1>1, <1>3, <1>4, OnlyTheBatches

LEMMA CompareStaysCurrent ==
  ASSUME KnowledgeInv, LibraryInv, NEW b \in Batches, Compare(b) PROVE LibraryInv'
<1>1. /\ batches[b].pc = "listing" /\ UNCHANGED <<library, search, pending, documents, overlapped>>
      /\ faults' = faults \/ faults' = faults + 1
  BY CompareIs
<1>2. KnowledgeTypes /\ (Smooth' => Smooth)
  BY <1>1, SmoothBefore DEF KnowledgeInv
<1>3. PICK known \in BatchStates : AskDuplicates(b, known) \/ Uploads(b, known)
  BY CompareIs
<1>4. CASE Uploads(b, known)
  BY <1>1, <1>2, <1>4, UploadsStaysCurrent
<1>5. CASE AskDuplicates(b, known)
  <2>1. /\ batches'[b].pc = "asking"
        /\ \A a \in Batches : a # b => batches'[a] = batches[a] \/ (batches'[a].pc = "abandoned" /\ a = dialog)
    <3>1. PICK x : x = [known EXCEPT !.pc = "asking"]
      OBVIOUS
    <3>2. x.pc = "asking"
      BY <3>1 DEF BatchStates
    <3>3. /\ batches'[b] = x
          /\ \A a \in Batches : a # b /\ a # dialog => batches'[a] = batches[a]
          /\ \A a \in Batches : a # b /\ a = dialog => batches'[a] = [batches[a] EXCEPT !.pc = "abandoned"]
      BY <1>5, <3>1 DEF AskDuplicates
    <3>4. batches'[b].pc = "asking"
      BY <3>2, <3>3
    <3>5. ASSUME NEW a \in Batches, a # b PROVE batches'[a] = batches[a] \/ (batches'[a].pc = "abandoned" /\ a = dialog)
      <4>1. batches[a] \in BatchStates
        BY <1>2 DEF KnowledgeTypes
      <4>2. PICK y : y = [batches[a] EXCEPT !.pc = "abandoned"]
        OBVIOUS
      <4>3. y.pc = "abandoned"
        BY <4>1, <4>2 DEF BatchStates
      <4>4. CASE a = dialog
        <5>1. batches'[a] = y
          BY <3>3, <3>5, <4>2, <4>4
        <5> QED BY <4>3, <4>4, <5>1
      <4>5. CASE a # dialog
        BY <3>3, <3>5, <4>5
      <4> QED BY <4>4, <4>5
    <3> QED BY <3>4, <3>5
  <2>2. \A a \in Batches : a = dialog => batches[a].pc = "asking"
    BY BatchesNumbered DEF KnowledgeInv, DialogTrue
  <2>3. \A a \in Batches : Sending(batches[a], batches'[a])
    BY <1>1, <2>1, <2>2 DEF Sending
  <2>4. Smooth' => \A a \in Batches : batches'[a].pc = "uploading" => batches'[a].answer # "failed"
    BY <1>2, <2>1 DEF LibraryInv, Smooth
  <2> QED BY <1>1, <1>2, <2>3, <2>4, OnlyTheBatches
<1> QED BY <1>3, <1>4, <1>5

LEMMA AnswersStayCurrent ==
  ASSUME KnowledgeInv, LibraryInv, NEW b \in Batches, Confirm(b) \/ Decline(b) \/ Receive(b) PROVE LibraryInv'
<1>1. PICK batch : batch = batches[b]
  OBVIOUS
<1>2. KnowledgeTypes /\ batch \in BatchStates /\ UNCHANGED <<library, search, pending, documents, overlapped>>
  BY <1>1 DEF KnowledgeInv, KnowledgeTypes, Confirm, Decline, Receive, server
<1>3. Confirm(b) \/ Decline(b) => batches[b].pc = "asking" /\ UNCHANGED faults
  BY BatchesNumbered DEF KnowledgeInv, DialogTrue, Confirm, Decline
<1>4. CASE Confirm(b)
  <2>1. PICK yes, known : yes = TRUE /\ known = [batch EXCEPT !.asked = yes]
    OBVIOUS
  <2>2. known \in BatchStates /\ Uploads(b, known)
    BY <1>1, <1>2, <1>4, <2>1 DEF Confirm, BatchStates
  <2> QED BY <1>2, <1>3, <1>4, <2>2, UploadsStaysCurrent DEF Smooth
<1>5. CASE Decline(b)
  <2>1. PICK x : x = [batch EXCEPT !.pc = "done"]
    OBVIOUS
  <2>2. x \in BatchStates /\ x.pc = "done" /\ batches' = [batches EXCEPT ![b] = x]
    BY <1>1, <1>2, <1>5, <2>1 DEF Decline, Set, BatchStates
  <2>3. Sending(batches[b], x)
    BY <1>3, <1>5 DEF Sending
  <2>4. Smooth' => Smooth /\ (x.pc = "uploading" => x.answer # "failed")
    BY <1>2, <1>3, <1>5, <2>2 DEF Smooth
  <2> QED BY <1>2, <2>2, <2>3, <2>4, OneStays
<1>6. CASE Receive(b)
  <2>1. PICK answer \in {"extracting", "failed"} : Settle(b, answer)
    BY <1>6 DEF Receive
  <2>2. PICK x : x = [batch EXCEPT !.answer = answer]
    OBVIOUS
  <2>3. /\ x \in BatchStates /\ x.pc = batch.pc /\ x.succeeded = batch.succeeded /\ x.answer = answer
        /\ batches' = [batches EXCEPT ![b] = x] /\ batch.answer = "sent"
    BY <1>1, <1>2, <1>6, <2>1, <2>2 DEF Receive, Settle, Set, BatchStates
  <2>4. Sending(batches[b], x)
    BY <1>1, <2>3 DEF Sending
  <2>5. /\ answer = "failed" => faults' = faults + 1
        /\ faults' = faults \/ faults' = faults + 1
    BY <2>1 DEF Settle
  <2>6. Smooth' => Smooth /\ (x.pc = "uploading" => x.answer # "failed")
    BY <1>2, <2>3, <2>5 DEF Smooth, KnowledgeTypes
  <2> QED BY <1>2, <2>3, <2>4, <2>6, OneStays
<1> QED BY <1>4, <1>5, <1>6

LEMMA StoreStaysCurrent ==
  ASSUME KnowledgeInv, LibraryInv, NEW b \in Batches, Store(b) PROVE LibraryInv'
<1>1. PICK batch : batch = batches[b]
  OBVIOUS
<1>2. /\ KnowledgeTypes /\ batch \in BatchStates /\ UNCHANGED <<library, search, pending, overlapped>>
      /\ batch.pc = "uploading"
  BY <1>1 DEF KnowledgeInv, KnowledgeTypes, Store
<1>3. PICK answer \in {"ok", "failed"} : Settle(b, answer)
  BY DEF Store
<1>4. PICK x : x = [batch EXCEPT !.answer = answer]
  OBVIOUS
<1>5. x \in BatchStates /\ x.pc = "uploading" /\ x.answer = answer /\ batches' = [batches EXCEPT ![b] = x]
  BY <1>1, <1>2, <1>3, <1>4 DEF Settle, Set, BatchStates
<1>6. batches'[b] = x /\ \A a \in Batches : a # b => batches'[a] = batches[a]
  BY <1>2, <1>5 DEF KnowledgeTypes
<1> SUFFICES ASSUME Smooth' PROVE LibraryInv'
  BY DEF LibraryInv, Smooth
<1>7. Smooth /\ answer = "ok"
  BY <1>2, <1>3 DEF Smooth, Settle, KnowledgeTypes
<1>8. Stale'
  BY <1>5, <1>6, <1>7 DEF Stale
<1>9. \A a \in Batches : batches'[a].pc = "uploading" => batches'[a].answer # "failed"
  BY <1>5, <1>6, <1>7 DEF LibraryInv, Smooth
<1> QED BY <1>2, <1>7, <1>8, <1>9 DEF LibraryInv, Smooth

(* What a batch that uploaded a file asks as it ends.                      *)
LEMMA FinishAsks ==
  ASSUME KnowledgeTypes, NEW b \in Batches, NEW told \in BatchStates, Finish(b, told), told.folder \in Folders,
         told.succeeded # {}
  PROVE  /\ library'.active = library.active /\ library'.of = library.active
         /\ \E q \in Questions :
              /\ q.kind = "list" /\ q.of = library.active /\ q.folder = library'.folder /\ q.answer = "awaited"
              /\ \/ /\ search.view = "idle" /\ search' = search /\ pending' = pending \cup {q}
                    /\ overlapped' = (overlapped \/ \E c \in pending : c.kind = "list")
                 \/ /\ search'.of = library.active /\ q \in pending' /\ overlapped' = (overlapped \/ pending # {})
                    /\ \A c \in pending' \ pending :
                         \/ c = q
                         \/ c.kind = "search" /\ c.of = library.active /\ c.answer = "ok"
                    /\ \A c, d \in pending' \ pending : c.kind = "search" /\ d.kind = "search" => c = d
<1>1. PICK lib : lib = Reload(told.folder)
  OBVIOUS
<1>2. lib \in Libraries /\ lib.active = library.active /\ lib.of = library.active
  BY <1>1, ReloadIs
<1>3. PICK q \in Questions : /\ Listed(lib) = {q} /\ q.kind = "list" /\ q.of = lib.active /\ q.folder = lib.folder
                             /\ q.answer = "awaited"
  BY <1>2, ListedIs
<1>4. PICK kind, folder, batch : kind = "search" /\ folder = "all" /\ batch = b
  OBVIOUS
<1>5. PICK r : r = Ask(kind, lib.active, folder, batch)
  OBVIOUS
<1>6. r.kind = kind /\ r.of = lib.active /\ r.answer = "ok"
  <2>1. lib.active \in Workspaces /\ kind \in {"list", "search"} /\ folder \in Folders \cup {"all"} /\ batch \in Batches \cup {None}
    BY <1>2, <1>4 DEF Libraries
  <2> QED BY <1>4, <1>5, <2>1, AskedIs
<1>7. library' = lib
  BY <1>1 DEF Finish
<1>8. CASE search.view = "idle"
  <2>1. /\ search' = search /\ pending' = pending \cup {q}
        /\ overlapped' = (overlapped \/ \E c \in pending : c.kind = "list")
    BY <1>1, <1>3, <1>8 DEF Finish, Overlaps
  <2> QED BY <1>2, <1>3, <1>7, <1>8, <2>1
<1>9. CASE search.view # "idle"
  <2>1. /\ search' = [view |-> "loading", of |-> lib.active] /\ overlapped' = (overlapped \/ pending # {})
        /\ pending' = pending \cup {q} \cup {r} \/ pending' = pending \cup {q}
    BY <1>1, <1>3, <1>4, <1>5, <1>9 DEF Finish
  <2>2. search'.of = library.active
    BY <1>2, <2>1
  <2>3. \A c \in pending' \ pending : c = q \/ c = r
    BY <2>1
  <2>4. /\ \A c \in pending' \ pending : \/ c = q
                                         \/ c.kind = "search" /\ c.of = library.active /\ c.answer = "ok"
        /\ \A c, d \in pending' \ pending : c.kind = "search" /\ d.kind = "search" => c = d
    BY <1>2, <1>3, <1>4, <1>6, <2>3
  <2> QED BY <1>2, <1>3, <1>7, <2>1, <2>2, <2>4
<1> QED BY <1>8, <1>9

LEMMA FileAnsweredStaysCurrent ==
  ASSUME KnowledgeInv, LibraryInv, NEW b \in Batches, FileAnswered(b) PROVE LibraryInv'
<1>1. PICK batch, told : batch = batches[b] /\ told = AfterAnswer(batch)
  OBVIOUS
<1>2. /\ batch \in BatchStates /\ batch.pc = "uploading" /\ BatchTrue(batch, b, documents, folders) /\ KnowledgeTypes
      /\ UNCHANGED <<documents, folders, faults>> /\ batch.folder \in Folders /\ batch.answer \in {"ok", "failed"}
      /\ batch.left # <<>>
  BY <1>1 DEF KnowledgeInv, KnowledgeTypes, FileAnswered, server, BatchTrue, Uploading
<1>3. IF told.left # <<>>
      THEN Set(b, [told EXCEPT !.answer = "sent"]) /\ UNCHANGED <<library, pending, search, overlapped>>
      ELSE Finish(b, told)
  BY <1>1, Zenon DEF FileAnswered, AfterAnswer, File
<1>4. told \in BatchStates /\ told.pc = "uploading" /\ told.folder = batch.folder /\ (batch.answer = "ok" => told.succeeded # {})
  <2>1. PICK s, done : /\ s = batch.left
                       /\ done = (IF batch.answer = "ok" THEN batch.succeeded \cup {Head(batch.left)} ELSE batch.succeeded)
    OBVIOUS
  <2>2. s \in Seq(Files) /\ Head(s) \in Files /\ Tail(s) \in Seq(Files)
    BY <1>2, <2>1, HeadTailProperties DEF BatchStates
  <2>3. done \subseteq Files /\ (batch.answer = "ok" => done # {})
    BY <1>2, <2>1, <2>2 DEF BatchStates
  <2>4. PICK rest : rest = Tail(s)
    OBVIOUS
  <2>5. told = [batch EXCEPT !.left = rest, !.answer = None, !.succeeded = done]
    BY <1>1, <1>2, <2>1, <2>4 DEF AfterAnswer, BatchStates
  <2> QED BY <1>2, <2>2, <2>3, <2>4, <2>5 DEF BatchStates
<1>5. overlapped => overlapped'
  BY <1>3 DEF Finish, Overlaps
<1> SUFFICES ASSUME Smooth' PROVE LibraryInv'
  BY DEF LibraryInv, Smooth
<1>6. Smooth
  BY <1>2, <1>5 DEF Smooth
<1>7. batch.answer = "ok" /\ told.succeeded # {}
  BY <1>1, <1>2, <1>4, <1>6 DEF LibraryInv, Smooth
<1>8. CASE told.left # <<>>
  <2>1. PICK x : x = [told EXCEPT !.answer = "sent"]
    OBVIOUS
  <2>2. x \in BatchStates /\ x.pc = "uploading" /\ x.answer = "sent" /\ x.succeeded = told.succeeded
    BY <1>4, <2>1 DEF BatchStates
  <2>3. batches' = [batches EXCEPT ![b] = x] /\ UNCHANGED <<library, pending, search, overlapped>>
    BY <1>3, <1>8, <2>1 DEF Set
  <2>4. Sending(batches[b], x)
    BY <1>7, <2>2 DEF Sending
  <2>5. Smooth' /\ x.pc = "uploading" => x.answer # "failed"
    BY <2>2
  <2> QED BY <1>2, <1>6, <2>2, <2>3, <2>4, <2>5, OneStays
<1>9. CASE told.left = <<>>
  <2>1. Finish(b, told) /\ told.folder \in Folders
    BY <1>2, <1>3, <1>4, <1>9
  <2>2. PICK pc \in {"searching", "done", "stuck"} : batches' = [batches EXCEPT ![b] = [told EXCEPT !.pc = pc]]
    BY <1>2, <1>4, <2>1, FinishIs
  <2>3. \A a \in Batches : batches'[a].pc = "uploading" => batches'[a].answer # "failed"
    <3>1. PICK x : x = [told EXCEPT !.pc = pc]
      OBVIOUS
    <3>2. x.pc # "uploading"
      BY <1>4, <3>1 DEF BatchStates
    <3>3. batches'[b] = x /\ \A a \in Batches : a # b => batches'[a] = batches[a]
      BY <1>2, <2>2, <3>1 DEF KnowledgeTypes
    <3> QED BY <1>6, <3>2, <3>3 DEF LibraryInv, Smooth
  <2>4. library'.active = library.active /\ library'.of = library.active
    BY <1>2, <1>4, <1>7, <2>1, FinishAsks
  <2>5. PICK q \in Questions :
          /\ q.kind = "list" /\ q.of = library.active /\ q.folder = library'.folder /\ q.answer = "awaited"
          /\ \/ /\ search.view = "idle" /\ search' = search /\ pending' = pending \cup {q}
                /\ overlapped' = (overlapped \/ \E c \in pending : c.kind = "list")
             \/ /\ search'.of = library.active /\ q \in pending' /\ overlapped' = (overlapped \/ pending # {})
                /\ \A c \in pending' \ pending :
                     \/ c = q
                     \/ c.kind = "search" /\ c.of = library.active /\ c.answer = "ok"
                /\ \A c, d \in pending' \ pending : c.kind = "search" /\ d.kind = "search" => c = d
    BY <1>2, <1>4, <1>7, <2>1, FinishAsks
  <2>6. CASE /\ search.view = "idle" /\ search' = search /\ pending' = pending \cup {q}
             /\ overlapped' = (overlapped \/ \E c \in pending : c.kind = "list")
    <3>1. \A c \in pending' : c = q \/ (c \in pending /\ c.kind # "list")
      BY <2>6 DEF Smooth
    <3>2. \A c, d \in pending' : c.kind = d.kind => c = d
      BY <1>6, <2>5, <3>1 DEF LibraryInv, Smooth
    <3>3. \A c \in pending' : c.of = library'.active /\ c.answer # "failed"
      BY <1>6, <2>4, <2>5, <3>1 DEF LibraryInv, Smooth
    <3>4. \A c \in pending' : c.kind = "list" => c = q
      BY <3>1
    <3> QED BY <2>3, <2>4, <2>5, <2>6, <3>2, <3>3, <3>4 DEF LibraryInv
  <2>7. CASE /\ search'.of = library.active /\ q \in pending' /\ overlapped' = (overlapped \/ pending # {})
             /\ \A c \in pending' \ pending :
                  \/ c = q
                  \/ c.kind = "search" /\ c.of = library.active /\ c.answer = "ok"
             /\ \A c, d \in pending' \ pending : c.kind = "search" /\ d.kind = "search" => c = d
    <3>1. pending = {}
      BY <2>7 DEF Smooth
    <3>2. \A c \in pending' : c = q \/ (c.kind = "search" /\ c.of = library.active /\ c.answer = "ok")
      BY <2>7, <3>1
    <3>3. \A c, d \in pending' : c.kind = d.kind => c = d
      BY <2>5, <2>7, <3>1, <3>2
    <3>4. \A c \in pending' : c.of = library'.active /\ c.answer # "failed"
      BY <2>4, <2>5, <3>2
    <3>5. \A c \in pending' : c.kind = "list" => c = q
      BY <3>2
    <3> QED BY <2>3, <2>4, <2>5, <2>7, <3>3, <3>4, <3>5 DEF LibraryInv
  <2> QED BY <2>5, <2>6, <2>7
<1> QED BY <1>8, <1>9

LEMMA ServeStaysCurrent ==
  ASSUME KnowledgeInv, LibraryInv, NEW c \in pending, ServeLibrary(c) PROVE LibraryInv'
<1>1. KnowledgeTypes /\ UNCHANGED <<library, search, batches, documents, overlapped>> /\ faults \in Nat
  BY DEF KnowledgeInv, KnowledgeTypes, ServeLibrary, server
<1>2. PICK answer \in {"ok", "failed"}, q \in Questions :
        /\ pending' = (pending \ {c}) \cup {q}
        /\ q.kind = c.kind /\ q.of = c.of /\ q.folder = c.folder /\ q.answer = answer
        /\ answer = "ok" => q.found = Listing(c.of, c.folder)
        /\ answer = "failed" => faults' = faults + 1
  BY <1>1, ServedIs
<1>3. faults' = faults \/ faults' = faults + 1
  BY DEF ServeLibrary
<1> SUFFICES ASSUME Smooth' PROVE LibraryInv'
  BY DEF LibraryInv, Smooth
<1>4. Smooth /\ answer = "ok"
  BY <1>1, <1>2, <1>3 DEF Smooth
<1>5. \A d \in pending' : d = q \/ (d \in pending /\ d # c)
  BY <1>2
<1>6. (Stale => Stale') /\ Listing(c.of, c.folder)' = Listing(c.of, c.folder)
  BY <1>1 DEF Stale, Listing
<1>7. \A d, e \in pending' : d.kind = e.kind => d = e
  BY <1>2, <1>4, <1>5 DEF LibraryInv, Smooth
<1>8. \A d \in pending' : d.of = library'.active /\ d.answer # "failed"
  BY <1>1, <1>2, <1>4, <1>5 DEF LibraryInv, Smooth
<1>9. ASSUME NEW d \in pending', d.kind = "list"
      PROVE  /\ d.folder = library'.folder
             /\ d.answer = "ok" => d.found = Listing(d.of, d.folder)' \/ Stale'
  <2>1. CASE d = q
    <3>1. d.found = Listing(d.of, d.folder)'
      BY <1>1, <1>2, <1>4, <2>1 DEF Listing
    <3> QED BY <1>1, <1>2, <1>4, <1>9, <2>1, <3>1 DEF LibraryInv, Smooth
  <2>2. CASE d # q
    BY <1>1, <1>4, <1>5, <1>6, <1>9, <2>2 DEF LibraryInv, Smooth, Listing
  <2> QED BY <2>1, <2>2
<1>10. \A e \in pending : e.kind = "list" => \E d \in pending' : d.kind = "list"
  BY <1>2
<1>11. \A b \in Batches : batches'[b].pc = "uploading" => batches'[b].answer # "failed"
  BY <1>1, <1>4 DEF LibraryInv, Smooth
<1>12. library'.route = "knowledge" =>
         /\ library'.of = library'.active
         /\ search'.view # "idle" => search'.of = library'.active
         /\ \/ \E d \in pending' : d.kind = "list"
            \/ library'.shown = Listing(library.active, library.folder)'
            \/ Stale'
  BY <1>1, <1>4, <1>6, <1>10 DEF LibraryInv, Smooth, Listing
<1> QED BY <1>7, <1>8, <1>9, <1>11, <1>12 DEF LibraryInv

LEMMA HandleStaysCurrent ==
  ASSUME KnowledgeInv, LibraryInv, NEW c \in pending, HandleLibrary(c) PROVE LibraryInv'
<1>1. /\ KnowledgeTypes /\ QuestionTrue(c, batches) /\ pending' = pending \ {c} /\ c.answer # "awaited"
      /\ UNCHANGED <<documents, faults, overlapped>> /\ c.answer \in {"awaited", "ok", "failed"}
  BY DEF KnowledgeInv, KnowledgeTypes, HandleLibrary, server, Questions
<1> SUFFICES ASSUME Smooth' PROVE LibraryInv'
  BY DEF LibraryInv, Smooth
<1>2. Smooth
  BY <1>1 DEF Smooth
<1>3. c.of = library.active /\ c.answer = "ok"
  BY <1>1, <1>2 DEF LibraryInv, Smooth
<1>4. \A d, e \in pending' : d.kind = e.kind => d = e
  BY <1>1, <1>2 DEF LibraryInv, Smooth
<1>5. CASE ListAnswered(c)
  <2>1. UNCHANGED <<search, batches>> /\ c.kind = "list"
    BY <1>5 DEF ListAnswered
  <2>2. /\ library'.route = library.route /\ library'.active = library.active
        /\ library'.folder = library.folder /\ library'.of = c.of /\ library'.shown = c.found
    BY <1>1, <1>5, ListAnsweredIs
  <2>3. c.folder = library.folder /\ (c.found = Listing(c.of, c.folder) \/ Stale)
    BY <1>2, <1>3, <2>1 DEF LibraryInv, Smooth
  <2>4. Stale => Stale'
    BY <2>1 DEF Stale
  <2>5. \A d \in pending' : d \in pending /\ d.kind # "list"
    BY <1>1, <1>2, <2>1 DEF LibraryInv, Smooth
  <2>6. library'.shown = Listing(library.active, library.folder)' \/ Stale'
    BY <1>1, <1>3, <2>2, <2>3, <2>4 DEF Listing
  <2>7. library'.of = library'.active /\ (library'.route = "knowledge" /\ search'.view # "idle" => search'.of = library'.active)
    BY <1>2, <1>3, <2>1, <2>2 DEF LibraryInv, Smooth
  <2>8. /\ \A d \in pending' : d.of = library'.active /\ d.answer # "failed"
        /\ \A b \in Batches : batches'[b].pc = "uploading" => batches'[b].answer # "failed"
    BY <1>2, <2>1, <2>2, <2>5 DEF LibraryInv, Smooth
  <2> QED BY <1>4, <2>5, <2>6, <2>7, <2>8 DEF LibraryInv
<1>6. CASE SearchAnswered(c)
  <2>1. library' = library /\ search' = [view |-> "shown", of |-> c.of] /\ c.kind = "search"
    BY <1>1, <1>6, SearchAnsweredIs DEF SearchAnswered
  <2>2. \A b \in Batches : \/ batches'[b] = batches[b]
                           \/ batches[b].pc # "uploading" /\ batches'[b].pc # "uploading"
    <3>1. CASE c.batch = None
      BY <1>1, <1>6, <3>1, SearchAnsweredIs
    <3>2. CASE c.batch # None
      <4>1. PICK b \in Batches, pc \in {"done", "stuck"} :
              b = c.batch /\ batches' = [batches EXCEPT ![b] = [batches[b] EXCEPT !.pc = pc]]
        BY <1>1, <1>6, <3>2, SearchAnsweredIs
      <4>2. batches[b] \in BatchStates /\ batches[b].pc # "uploading"
        BY <1>1, <3>2, <4>1 DEF KnowledgeTypes, QuestionTrue
      <4>3. PICK x : x = [batches[b] EXCEPT !.pc = pc]
        OBVIOUS
      <4>4. x.pc # "uploading"
        BY <4>2, <4>3 DEF BatchStates
      <4> QED BY <1>1, <4>1, <4>2, <4>3, <4>4 DEF KnowledgeTypes
    <3> QED BY <3>1, <3>2
  <2>3. Stale => Stale'
    BY <2>2 DEF Stale
  <2>4. \A b \in Batches : batches'[b].pc = "uploading" => batches'[b].answer # "failed"
    BY <1>2, <2>2 DEF LibraryInv, Smooth
  <2>5. /\ \A d \in pending' : d \in pending
        /\ \A d \in pending : d.kind = "list" => d \in pending'
    BY <1>1, <2>1
  <2>6. search'.of = library'.active
    BY <1>3, <2>1
  <2> QED BY <1>1, <1>2, <1>4, <2>1, <2>3, <2>4, <2>5, <2>6 DEF LibraryInv, Smooth, Listing
<1> QED BY <1>5, <1>6 DEF HandleLibrary

LEMMA LibraryStep == KnowledgeInv /\ LibraryInv /\ [KnowledgeNext]_knowledgeVars => LibraryInv'
<1> SUFFICES ASSUME KnowledgeInv, LibraryInv, [KnowledgeNext]_knowledgeVars PROVE LibraryInv'
  OBVIOUS
<1>1. CASE GoTo \/ SwitchTo \/ SetFolder \/ CreateFolder \/ Search
  BY <1>1, PageStaysCurrent
<1>2. ASSUME NEW b \in Batches,
             Choose(b) \/ Compare(b) \/ Confirm(b) \/ Decline(b) \/ Receive(b) \/ Store(b) \/ FileAnswered(b)
      PROVE  LibraryInv'
  BY <1>2, ChooseStaysCurrent, CompareStaysCurrent, AnswersStayCurrent, StoreStaysCurrent, FileAnsweredStaysCurrent
<1>3. ASSUME NEW c \in pending, ServeLibrary(c) \/ HandleLibrary(c) PROVE LibraryInv'
  BY <1>3, ServeStaysCurrent, HandleStaysCurrent
<1>4. CASE UNCHANGED knowledgeVars
  BY <1>4 DEF knowledgeVars, server, LibraryInv, Stale, Listing
<1> QED BY <1>1, <1>2, <1>3, <1>4 DEF KnowledgeNext

(* When nothing overlaps and fails, a page on which nothing is awaited     *)
(* shows the library and the search of the active workspace, with all the  *)
(* documents of the folder (loadKnowledgeLibrary, runSearch and            *)
(* handleUploadFiles).                                                     *)
THEOREM LibraryStaysCurrent == KnowledgeSpec => []LibraryIsCurrent
<1>1. KnowledgeInit => LibraryInv
  BY KnowledgeInitHolds
<1>2. LibraryInv => LibraryIsCurrent
  BY DEF LibraryInv, LibraryIsCurrent, Stale, Listing
<1> QED BY <1>1, <1>2, KnowledgeAlways, LibraryStep, PTL DEF KnowledgeSpec

-----------------------------------------------------------------------------
(***************************************************************************)
(* WebActivity, for any number of workspaces, kinds, events, failures and  *)
(* restarts, any limits and whatever the user does.                        *)
(***************************************************************************)
ActivitySpec == ActivityInit /\ [][ActivityNext]_activityVars

EventsOf(w) == {e \in events : e.of = w}

\* A list of events of S, the newest first.
IsActivity(s, S) ==
  /\ s \in Seq(S)
  /\ \A i, j \in 1 .. Len(s) : i < j => s[i].id > s[j].id

Known(w, by) == {e \in events : e.of = w /\ e.id <= by}
Newer(S, e) == {x \in S : x.id > e.id}

(* Events are numbered in the order in which they happen, and what is kept *)
(* of them, in memory and in the files, are lists in that order.           *)
ActivityTypes ==
  /\ clock \in Nat
  /\ events \subseteq [id : 1 .. clock, of : Workspaces, kind : Kinds, result : BOOLEAN]
  /\ IsFiniteSet(events)
  /\ \A d, e \in events : d.id = e.id => d = e
  /\ log \in [Workspaces -> Seq(events)]
  /\ saved \in [Workspaces -> Seq(events)]
  /\ opened \subseteq Workspaces
  /\ \A w \in Workspaces : IsActivity(log[w], EventsOf(w)) /\ IsActivity(saved[w], EventsOf(w))

(* An event that a workspace has lost is counted among the forgotten, or   *)
(* there are as many newer ones as the log holds.                          *)
NothingElseIsLost ==
  \A w \in Workspaces : \A e \in EventsOf(w) :
    ~e.result =>
      \/ e \in Elements(Log(w)) \cup forgotten
      \/ Cardinality(Newer(EventsOf(w), e)) >= MaxKept

(* What an answer was when it was given: it stays so, since what happens   *)
(* later has a later time.                                                 *)
AnswersNewest(c) ==
  LET known == {e \in events : e.of = c.of /\ e.id <= c.by}
  IN  /\ \A i, j \in DOMAIN c.items : i < j => c.items[i].id > c.items[j].id
      /\ Elements(c.items) \subseteq known
      /\ \A e \in known \ (Elements(c.items) \cup forgotten) :
           \/ c.filter \notin {"all", e.kind}
           \/ e.result /\ e \notin c.derived
           \/ Len(c.items) = MaxShown /\ \A i \in DOMAIN c.items : c.items[i].id > e.id
           \/ Cardinality({x \in known : x.id > e.id}) >= MaxKept

Matching(c) == {e \in events : e.of = c.of /\ c.filter \in {"all", e.kind}}

ReadingFits(c) ==
  /\ c \in [page : {"activity", "home"}, of : Workspaces, filter : Kinds \cup {"all"},
             answer : {"awaited", "derived", "ok", "failed"}, derived : SUBSET events,
             by : Nat, items : Seq(events)]
  /\ c.page = "home" => c.filter = "all"
  /\ c.answer = "derived" => c.of \in opened
  /\ c.derived \subseteq EventsOf(c.of)
  /\ c.answer # "ok" => c.items = <<>>
  /\ c.answer = "ok" => c.by <= clock /\ c.items \in Seq(Matching(c)) /\ AnswersNewest(c)

ReadingsFit == \A c \in asks : ReadingFits(c)

LogInv == ActivityTypes /\ NothingElseIsLost /\ ReadingsFit

Whereabouts == [route : {"home", "activity", "other"}, active : Workspaces]
ActivityPages == [of : Workspaces, filter : Kinds \cup {"all"}, loading : BOOLEAN, items : SUBSET events]
HomePages == [of : Workspaces, loading : BOOLEAN, items : SUBSET events, error : BOOLEAN]

(* The home page is of the active workspace and shows what its own is,     *)
(* unless it took an answer for another one; what it waits for is asked.   *)
HomeFits(h, to, asked, gone) ==
  /\ to.route = "home" =>
       /\ h.of = to.active
       /\ h.loading => \E c \in asked : c.page = "home" /\ c.of = to.active
  /\ ~h.loading /\ ~gone => \A e \in h.items : e.of = h.of

(* So is the activity page; when it did not ask while it was loading, one  *)
(* reading at most is on its way to it, for what it is about to show.      *)
ActivityFits(view, to, asked, overtaken) ==
  /\ to.route = "activity" =>
       /\ view.of = to.active
       /\ view.loading => \E c \in asked : c.page = "activity"
  /\ ~overtaken =>
       /\ \A c, d \in asked : c.page = "activity" /\ d.page = "activity" => c = d
       /\ \A c \in asked : c.page = "activity" => view.loading /\ c.of = view.of /\ c.filter = view.filter
       /\ ~view.loading => \A e \in view.items : e.of = view.of /\ view.filter \in {"all", e.kind}

PagesFit ==
  /\ at \in Whereabouts /\ activity \in ActivityPages /\ home \in HomePages /\ crossed \in BOOLEAN
  /\ HomeFits(home, at, asks, misplaced)
  /\ ActivityFits(activity, at, asks, crossed)

ActivityInv == LogInv /\ PagesFit

-----------------------------------------------------------------------------
(* The parts of a list.                                                    *)
LEMMA FirstOf ==
  ASSUME NEW S, NEW s \in Seq(S), NEW n \in Nat
  PROVE  /\ First(s, n) \in Seq(S)
         /\ Len(First(s, n)) = IF Len(s) > n THEN n ELSE Len(s)
         /\ \A i \in 1 .. Len(First(s, n)) : First(s, n)[i] = s[i]
<1>1. Len(s) \in Nat /\ \A i \in 1 .. Len(s) : s[i] \in S
  BY LenProperties, ElementOfSeq
<1>2. CASE Len(s) > n
  <2>1. \A i \in 1 .. n : s[i] \in S
    BY <1>1, <1>2
  <2>2. /\ SubSeq(s, 1, n) \in Seq(S)
        /\ Len(SubSeq(s, 1, n)) = IF 1 <= n THEN n - 1 + 1 ELSE 0
        /\ \A i \in 1 .. n - 1 + 1 : SubSeq(s, 1, n)[i] = s[1 + i - 1]
    BY <2>1, SubSeqProperties
  <2>3. First(s, n) = SubSeq(s, 1, n)
    BY <1>2 DEF First
  <2>4. QED BY <1>2, <2>2, <2>3
<1>3. CASE ~ (Len(s) > n)
  BY <1>1, <1>3 DEF First
<1>4. QED BY <1>2, <1>3

(* A list in the order of time, of things that have a time.                *)
Descending(s) == \A i, j \in 1 .. Len(s) : i < j => s[i].id > s[j].id

LEMMA FirstIsDescending ==
  ASSUME NEW S, NEW s \in Seq(S), \A e \in S : e.id \in Nat, Descending(s), NEW n \in Nat
  PROVE  /\ First(s, n) \in Seq(S) /\ Descending(First(s, n)) /\ Len(First(s, n)) <= n
         /\ Elements(First(s, n)) \subseteq Elements(s)
         /\ \A e \in Elements(s) \ Elements(First(s, n)) :
              Len(First(s, n)) = n /\ \A i \in 1 .. n : First(s, n)[i].id > e.id
<1> DEFINE t == First(s, n)
<1>1. /\ t \in Seq(S)
      /\ Len(t) = IF Len(s) > n THEN n ELSE Len(s)
      /\ \A i \in 1 .. Len(t) : t[i] = s[i]
  BY FirstOf
<1>2. Len(s) \in Nat /\ DOMAIN s = 1 .. Len(s) /\ DOMAIN t = 1 .. Len(t)
  BY <1>1, LenProperties
<1> HIDE DEF t
<1>3. 1 .. Len(t) \subseteq 1 .. Len(s) /\ Len(t) <= n /\ Len(t) \in Nat
  BY <1>1, <1>2
<1>4. Descending(t)
  BY <1>1, <1>3 DEF Descending
<1>5. Elements(t) \subseteq Elements(s)
  BY <1>1, <1>2, <1>3 DEF Elements
<1>6. ASSUME NEW e \in Elements(s) \ Elements(t)
      PROVE  Len(t) = n /\ \A i \in 1 .. n : t[i].id > e.id
  <2>1. PICK k \in 1 .. Len(s) : s[k] = e
    BY <1>2 DEF Elements
  <2>2. k \notin 1 .. Len(t)
    BY <1>1, <1>2, <2>1 DEF Elements
  <2>3. Len(t) < k
    BY <1>2, <1>3, <2>2
  <2>4. Len(t) = n
    <3> DEFINE a == Len(t)
               b == Len(s)
    <3>1. a \in Nat /\ b \in Nat /\ k \in 1 .. b /\ a < k /\ a = IF b > n THEN n ELSE b
      BY <1>1, <1>2, <1>3, <2>3
    <3> HIDE DEF a, b
    <3>2. a = n
      BY <3>1
    <3>3. QED BY <3>2 DEF a
  <2>5. \A i \in 1 .. n : i \in 1 .. Len(s) /\ i < k
    BY <1>2, <2>3, <2>4
  <2>6. QED BY <1>1, <2>1, <2>4, <2>5 DEF Descending
<1>7. QED BY <1>1, <1>3, <1>4, <1>5, <1>6 DEF t

(* Numbers of n in a list that are all newer than e are at least n newer   *)
(* ones.                                                                   *)
LEMMA ManyNewer ==
  ASSUME NEW S, IsFiniteSet(S), \A e \in S : e.id \in Nat,
         NEW s \in Seq(S), Descending(s), NEW e, \A i \in 1 .. Len(s) : s[i].id > e.id
  PROVE  Cardinality(Newer(S, e)) \in Nat /\ Cardinality(Newer(S, e)) >= Len(s)
<1> DEFINE n == Len(s)
<1>1. n \in Nat /\ s \in [1 .. n -> S]
  BY LenProperties
<1>2. IsFiniteSet(Newer(S, e)) /\ Cardinality(Newer(S, e)) \in Nat
  <2>1. Newer(S, e) \in SUBSET S
    BY DEF Newer
  <2>2. QED BY <2>1, FS_Subset, FS_CardinalityType
<1>3. s \in Injection(1 .. n, Newer(S, e))
  <2>1. s \in [1 .. n -> Newer(S, e)]
    BY <1>1 DEF Newer
  <2>2. \A i, j \in 1 .. n : s[i] = s[j] => i = j
    <3> SUFFICES ASSUME NEW i \in 1 .. n, NEW j \in 1 .. n, s[i] = s[j], i # j PROVE FALSE
      OBVIOUS
    <3>1. i < j \/ j < i
      BY <1>1
    <3>2. s[i].id \in Nat
      BY <1>1
    <3>3. QED BY <3>1, <3>2 DEF Descending
  <2>3. QED BY <2>1, <2>2 DEF Injection, IsInjective
<1>4. Cardinality(1 .. n) <= Cardinality(Newer(S, e))
  BY <1>2, <1>3, FS_Injection
<1>5. Cardinality(1 .. n) = n
  <2> HIDE DEF n
  <2>1. n \in Int /\ 1 \in Int /\ n >= 0
    BY <1>1
  <2>2. Cardinality(1 .. n) = IF 1 > n THEN 0 ELSE n - 1 + 1
    BY <2>1, FS_Interval
  <2>3. QED BY <2>1, <2>2
<1>6. QED BY <1>1, <1>2, <1>4, <1>5

LEMMA NewerGrow ==
  ASSUME NEW S, NEW T, IsFiniteSet(T), S \subseteq T, NEW e
  PROVE  /\ Cardinality(Newer(S, e)) \in Nat /\ Cardinality(Newer(T, e)) \in Nat
         /\ Cardinality(Newer(S, e)) <= Cardinality(Newer(T, e))
<1>1. Newer(T, e) \in SUBSET T /\ Newer(S, e) \in SUBSET Newer(T, e)
  BY DEF Newer
<1>2. QED BY <1>1, FS_Subset, FS_CardinalityType

(* Sorting events lists each of them once, the newest first.               *)
LEMMA ByTimeLists ==
  ASSUME NEW S, IsFiniteSet(S), \A e \in S : e.id \in Nat, \A d, e \in S : d.id = e.id => d = e
  PROVE  ByTime(S) \in Seq(S) /\ Descending(ByTime(S)) /\ Elements(ByTime(S)) = S
<1> DEFINE R == {p \in S \X S : p[1].id > p[2].id}
           s == Arranged(S, R)
           n == Cardinality(S)
<1>1. \A d, e \in S : <<d, e>> \in R <=> d.id > e.id
  OBVIOUS
<1>2. s = ByTime(S)
  BY DEF ByTime
<1> HIDE DEF R
<1>3. StrictOrder(S, R)
  <2>1. \A d \in S : <<d, d>> \notin R
    BY <1>1
  <2>2. \A d, e \in S : d # e => <<d, e>> \in R \/ <<e, d>> \in R
    BY <1>1
  <2>3. \A d, e, f \in S : <<d, e>> \in R /\ <<e, f>> \in R => <<d, f>> \in R
    BY <1>1
  <2>4. QED BY <2>1, <2>2, <2>3 DEF StrictOrder
<1>4. /\ n \in Nat
      /\ s \in [1 .. n -> S]
      /\ \A e \in S : \E i \in 1 .. n : s[i] = e
      /\ \A i, j \in 1 .. n : i < j <=> <<s[i], s[j]>> \in R
  BY <1>3, ArrangedInOrder
<1> HIDE DEF s, n
<1>5. s \in Seq(S) /\ Len(s) = n /\ DOMAIN s = 1 .. n
  BY <1>4, SeqDef, LenProperties
<1>6. Descending(s)
  BY <1>1, <1>4, <1>5 DEF Descending
<1>7. Elements(s) = S
  BY <1>4, <1>5 DEF Elements
<1>8. QED BY <1>2, <1>5, <1>6, <1>7

(* What is appended to a log: nothing is dropped that has not MaxKept newer*)
(* events.                                                                 *)
LEMMA AppendedKeeps ==
  ASSUME NEW S, IsFiniteSet(S), \A d \in S : d.id \in Nat,
         NEW s \in Seq(S), Descending(s), NEW e, e.id \in Nat, \A d \in S : d.id < e.id
  PROVE  /\ Appended(s, e) \in Seq(S \cup {e}) /\ Descending(Appended(s, e))
         /\ Elements(Appended(s, e)) \subseteq Elements(s) \cup {e}
         /\ \A d \in (Elements(s) \cup {e}) \ Elements(Appended(s, e)) :
              Cardinality(Newer(S \cup {e}, d)) >= MaxKept
<1> DEFINE T == S \cup {e}
           t == <<e>> \o s
           a == Appended(s, e)
<1>1. Len(s) \in Nat /\ DOMAIN s = 1 .. Len(s) /\ \A i \in 1 .. Len(s) : s[i] \in S
  BY LenProperties, ElementOfSeq
<1>2. /\ t \in Seq(T) /\ Len(t) = Len(s) + 1 /\ t[1] = e
      /\ \A i \in 2 .. Len(s) + 1 : t[i] = s[i - 1]
  <2>1. s \in Seq(T) /\ <<e>> \in Seq(T)
    BY <1>1, SeqDef
  <2>2. QED BY <1>1, <2>1
<1>3. DOMAIN t = 1 .. Len(s) + 1
  BY <1>2, LenProperties
<1> HIDE DEF t, T
<1>4. Descending(t)
  <2>1. \A i \in 1 .. Len(t) : i = 1 \/ (i \in 2 .. Len(s) + 1 /\ i - 1 \in 1 .. Len(s))
    BY <1>1, <1>2
  <2> SUFFICES ASSUME NEW i \in 1 .. Len(t), NEW j \in 1 .. Len(t), i < j PROVE t[i].id > t[j].id
    BY DEF Descending
  <2>2. j \in 2 .. Len(s) + 1 /\ j - 1 \in 1 .. Len(s) /\ t[j] = s[j - 1]
    BY <1>1, <1>2, <2>1
  <2>3. CASE i = 1
    BY <1>1, <1>2, <2>2, <2>3
  <2>4. CASE i # 1
    BY <1>1, <1>2, <2>1, <2>2, <2>4 DEF Descending
  <2>5. QED BY <2>3, <2>4
<1>5. Elements(t) = Elements(s) \cup {e}
  <2>1. Elements(t) \subseteq Elements(s) \cup {e}
    <3> SUFFICES ASSUME NEW i \in 1 .. Len(s) + 1 PROVE t[i] \in Elements(s) \cup {e}
      BY <1>3 DEF Elements
    <3>1. i = 1 \/ (i \in 2 .. Len(s) + 1 /\ i - 1 \in 1 .. Len(s))
      BY <1>1
    <3>2. QED BY <1>1, <1>2, <3>1 DEF Elements
  <2>2. Elements(s) \subseteq Elements(t)
    <3> SUFFICES ASSUME NEW i \in 1 .. Len(s) PROVE s[i] \in Elements(t)
      BY <1>1 DEF Elements
    <3>1. i + 1 \in 2 .. Len(s) + 1 /\ i + 1 \in 1 .. Len(s) + 1 /\ (i + 1) - 1 = i
      BY <1>1
    <3>2. t[i + 1] = s[i]
      BY <1>2, <3>1
    <3>3. QED BY <1>3, <3>1, <3>2 DEF Elements
  <2>3. e \in Elements(t)
    <3>1. 1 \in 1 .. Len(s) + 1
      BY <1>1
    <3>2. QED BY <1>2, <1>3, <3>1 DEF Elements
  <2>4. QED BY <2>1, <2>2, <2>3
<1>6. IsFiniteSet(T) /\ \A d \in T : d.id \in Nat
  BY FS_AddElement DEF T
<1>7. a = First(t, MaxKept) /\ MaxKept \in Nat
  BY ActivityBounds DEF Appended, t
<1>8. /\ a \in Seq(T) /\ Descending(a) /\ Elements(a) \subseteq Elements(t)
      /\ \A d \in Elements(t) \ Elements(a) : Len(a) = MaxKept /\ \A i \in 1 .. MaxKept : a[i].id > d.id
  <2>1. /\ First(t, MaxKept) \in Seq(T) /\ Descending(First(t, MaxKept))
        /\ Elements(First(t, MaxKept)) \subseteq Elements(t)
        /\ \A d \in Elements(t) \ Elements(First(t, MaxKept)) :
             Len(First(t, MaxKept)) = MaxKept /\ \A i \in 1 .. MaxKept : First(t, MaxKept)[i].id > d.id
    <3> HIDE DEF a
    <3>1. t \in Seq(T) /\ MaxKept \in Nat
      BY <1>2, <1>7
    <3>2. QED BY <1>4, <1>6, <3>1, FirstIsDescending
  <2> HIDE DEF a
  <2>2. QED BY <1>7, <2>1, Zenon
<1> HIDE DEF a
<1>9. ASSUME NEW d \in Elements(t) \ Elements(a) PROVE Cardinality(Newer(T, d)) >= MaxKept
  <2>1. Len(a) = MaxKept /\ \A i \in 1 .. Len(a) : a[i].id > d.id
    BY <1>8
  <2>2. QED BY <1>6, <1>8, <2>1, ManyNewer
<1>10. QED BY <1>5, <1>8, <1>9 DEF a, T

-----------------------------------------------------------------------------
(* What events are, and that what was true of a reading stays so.          *)
LEMMA EventFacts ==
  ASSUME ActivityTypes
  PROVE  /\ \A e \in events : /\ e.id \in Nat /\ e.id >= 1 /\ e.id <= clock
                              /\ e.of \in Workspaces /\ e.kind \in Kinds /\ e.result \in BOOLEAN
         /\ \A w : IsFiniteSet(EventsOf(w)) /\ EventsOf(w) \subseteq events
<1>1. \A w : EventsOf(w) \in SUBSET events
  BY DEF EventsOf
<1>2. QED BY <1>1, FS_Subset DEF ActivityTypes

LEMMA LogIs ==
  ASSUME ActivityTypes, NEW w \in Workspaces
  PROVE  /\ Log(w) \in Seq(events) /\ IsActivity(Log(w), EventsOf(w))
         /\ Log(w) \in Seq(EventsOf(w)) /\ Descending(Log(w))
         /\ Elements(Log(w)) \subseteq EventsOf(w)
<1>1. Log(w) \in Seq(events) /\ IsActivity(Log(w), EventsOf(w))
  BY DEF Log, ActivityTypes
<1>2. Log(w) \in Seq(EventsOf(w)) /\ Descending(Log(w))
  BY <1>1 DEF IsActivity, Descending
<1>3. DOMAIN Log(w) = 1 .. Len(Log(w)) /\ \A i \in 1 .. Len(Log(w)) : Log(w)[i] \in EventsOf(w)
  BY <1>2, LenProperties, ElementOfSeq
<1>4. QED BY <1>1, <1>2, <1>3 DEF Elements

LEMMA SeqGrows ==
  ASSUME NEW S, NEW T, S \subseteq T
  PROVE  Seq(S) \subseteq Seq(T)
<1> SUFFICES ASSUME NEW s \in Seq(S) PROVE s \in Seq(T)
  OBVIOUS
<1>1. Len(s) \in Nat /\ s \in [1 .. Len(s) -> S]
  BY LenProperties
<1>2. s \in [1 .. Len(s) -> T]
  BY <1>1
<1>3. QED BY <1>1, <1>2, SeqDef

(* What happens is added to the events, with a time of its own.            *)
EventsGo ==
  /\ clock' \in Nat /\ clock' >= clock
  /\ events \subseteq events'
  /\ \A e \in events' \ events : e.id \in Nat /\ e.id > clock
  /\ forgotten \subseteq forgotten'

LEMMA ReadingStays ==
  ASSUME ActivityTypes, EventsGo, NEW c, ReadingFits(c), c.answer = "derived" => c.of \in opened'
  PROVE  ReadingFits(c)'
<1>1. Seq(events) \subseteq Seq(events') /\ EventsOf(c.of) \subseteq EventsOf(c.of)'
  BY SeqGrows DEF EventsGo, EventsOf
<1>2. Seq(Matching(c)) \subseteq Seq(Matching(c)')
  <2>1. Matching(c) \subseteq Matching(c)'
    BY DEF EventsGo, Matching
  <2>2. QED BY <2>1, SeqGrows
<1>3. c \in [page : {"activity", "home"}, of : Workspaces, filter : Kinds \cup {"all"},
             answer : {"awaited", "derived", "ok", "failed"}, derived : SUBSET events',
             by : Nat, items : Seq(events')]
  BY <1>1 DEF ReadingFits, EventsGo
<1>4. ASSUME c.answer = "ok" PROVE c.by <= clock' /\ c.items \in Seq(Matching(c))' /\ AnswersNewest(c)'
  <2>1. c.by \in Nat /\ c.by <= clock /\ clock \in Nat
    BY <1>4 DEF ReadingFits, ActivityTypes
  <2>2. Known(c.of, c.by)' = Known(c.of, c.by)
    <3>1. \A e \in events' \ events : e.id \in Nat /\ e.id > clock
      BY DEF EventsGo
    <3>2. \A e \in events : e.id \in Nat
      BY EventFacts
    <3>3. \A e \in events' \ events : ~ (e.id <= c.by)
      BY <2>1, <3>1
    <3>4. QED BY <3>3 DEF Known, EventsGo
  <2>3. AnswersNewest(c)'
    <3>1. AnswersNewest(c)
      BY <1>4 DEF ReadingFits
    <3>2. QED BY <2>2, <3>1 DEF AnswersNewest, Known, EventsGo
  <2>4. c.by <= clock'
    BY <2>1 DEF EventsGo
  <2>5. QED BY <1>2, <1>4, <2>3, <2>4 DEF ReadingFits
<1>5. QED BY <1>1, <1>3, <1>4 DEF ReadingFits

LEMMA HappensAdds ==
  ASSUME ActivityTypes, forgotten' = forgotten,
         NEW w \in Workspaces, NEW kind \in Kinds, NEW result \in BOOLEAN,
         NEW e, Happens(w, kind, result, e), e = [id |-> clock + 1, of |-> w, kind |-> kind, result |-> result]
  PROVE  /\ clock' \in Nat /\ EventsGo
         /\ events' \subseteq [id : 1 .. clock', of : Workspaces, kind : Kinds, result : BOOLEAN]
         /\ IsFiniteSet(events')
         /\ \A d, f \in events' : d.id = f.id => d = f
         /\ \A v : EventsOf(v)' = IF v = w THEN EventsOf(v) \cup {e} ELSE EventsOf(v)
         /\ Seq(events) \subseteq Seq(events')
         /\ \A v, s : IsActivity(s, EventsOf(v)) => IsActivity(s, EventsOf(v)')
<1>1. clock \in Nat /\ clock' = clock + 1 /\ events' = events \cup {e}
  BY DEF ActivityTypes, Happens
<1>2. e \in [id : 1 .. clock', of : Workspaces, kind : Kinds, result : BOOLEAN] /\ e.id = clock + 1 /\ e.of = w
  BY <1>1
<1>3. events' \subseteq [id : 1 .. clock', of : Workspaces, kind : Kinds, result : BOOLEAN]
  <2>1. 1 .. clock \subseteq 1 .. clock'
    BY <1>1
  <2>2. QED BY <1>1, <1>2, <2>1 DEF ActivityTypes
<1>4. IsFiniteSet(events')
  BY <1>1, FS_AddElement DEF ActivityTypes
<1>5. \A d \in events : d.id # e.id
  BY <1>1, <1>2, EventFacts
<1>6. \A d, f \in events' : d.id = f.id => d = f
  BY <1>1, <1>5 DEF ActivityTypes
<1>7. \A v : EventsOf(v)' = IF v = w THEN EventsOf(v) \cup {e} ELSE EventsOf(v)
  BY <1>1, <1>2 DEF EventsOf
<1>8. clock' \in Nat /\ EventsGo /\ Seq(events) \subseteq Seq(events')
  BY <1>1, <1>2, SeqGrows DEF EventsGo
<1>9. \A v, s : IsActivity(s, EventsOf(v)) => IsActivity(s, EventsOf(v)')
  <2> SUFFICES ASSUME NEW v, NEW s, IsActivity(s, EventsOf(v)) PROVE IsActivity(s, EventsOf(v)')
    OBVIOUS
  <2>1. Seq(EventsOf(v)) \subseteq Seq(EventsOf(v)')
    BY <1>7, SeqGrows
  <2>2. QED BY <2>1 DEF IsActivity
<1>10. QED BY <1>3, <1>4, <1>6, <1>7, <1>8, <1>9, Zenon

(* Opening a workspace changes nothing of its log.                         *)
LEMMA OpenedIs ==
  ASSUME ActivityTypes, NEW w \in Workspaces, Opened(w), log' = [log EXCEPT ![w] = Log(w)], saved' = saved
  PROVE  /\ opened \subseteq opened' /\ opened' \subseteq Workspaces /\ w \in opened'
         /\ log' \in [Workspaces -> Seq(events)]
         /\ \A v \in Workspaces : Log(v)' = Log(v) /\ IsActivity(log'[v], EventsOf(v))
<1>1. opened' = opened \cup {w} /\ Log(w) \in Seq(events) /\ IsActivity(Log(w), EventsOf(w))
  BY LogIs DEF Opened
<1>2. log \in [Workspaces -> Seq(events)] /\ opened \subseteq Workspaces /\ \A v \in Workspaces : IsActivity(log[v], EventsOf(v))
  BY DEF ActivityTypes
<1>3. \A v \in Workspaces : log'[v] = IF v = w THEN Log(w) ELSE log[v]
  BY <1>2
<1>4. \A v \in Workspaces : Log(v)' = Log(v)
  BY <1>1, <1>3 DEF Log
<1>5. QED BY <1>1, <1>2, <1>3, <1>4

LEMMA LostStays ==
  ASSUME ActivityTypes, ActivityTypes', EventsGo, NothingElseIsLost, NEW w \in Workspaces,
         Elements(Log(w)) \subseteq Elements(Log(w))' \cup forgotten',
         EventsOf(w)' = EventsOf(w)
  PROVE  \A e \in EventsOf(w)' : ~e.result =>
           \/ e \in (Elements(Log(w)) \cup forgotten)'
           \/ Cardinality(Newer(EventsOf(w), e))' >= MaxKept
<1> SUFFICES ASSUME NEW e \in EventsOf(w), ~e.result
             PROVE  \/ e \in (Elements(Log(w)) \cup forgotten)'
                    \/ Cardinality(Newer(EventsOf(w), e))' >= MaxKept
  OBVIOUS
<1>1. Newer(EventsOf(w), e)' = Newer(EventsOf(w), e)
  BY DEF Newer
<1>2. \/ e \in Elements(Log(w)) \cup forgotten
      \/ Cardinality(Newer(EventsOf(w), e)) >= MaxKept
  BY DEF NothingElseIsLost
<1>3. QED BY <1>1, <1>2 DEF EventsGo

LEMMA RecordKeeps == ASSUME LogInv, NEW w \in Workspaces, Record(w) PROVE LogInv'
<1>1. ActivityTypes /\ NothingElseIsLost /\ ReadingsFit
  BY DEF LogInv
<1> DEFINE new(kind) == [id |-> clock + 1, of |-> w, kind |-> kind, result |-> FALSE]
<1>2. PICK kind \in Kinds :
        /\ Happens(w, kind, FALSE, new(kind))
        /\ log' = [log EXCEPT ![w] = Appended(Log(w), new(kind))]
        /\ Opened(w)
        /\ saved' = [saved EXCEPT ![w] = Appended(Log(w), new(kind))] \/ saved' = saved
        /\ UNCHANGED <<forgotten, asks>>
  BY DEF Record
<1> DEFINE e == new(kind)
           a == Appended(Log(w), e)
<1>3. e = [id |-> clock + 1, of |-> w, kind |-> kind, result |-> FALSE] /\ e.id = clock + 1 /\ e.result = FALSE
  OBVIOUS
<1> HIDE DEF new
<1>4. /\ clock' \in Nat /\ EventsGo
      /\ events' \subseteq [id : 1 .. clock', of : Workspaces, kind : Kinds, result : BOOLEAN]
      /\ IsFiniteSet(events')
      /\ \A d, f \in events' : d.id = f.id => d = f
      /\ \A v : EventsOf(v)' = IF v = w THEN EventsOf(v) \cup {e} ELSE EventsOf(v)
      /\ Seq(events) \subseteq Seq(events')
      /\ \A v, s : IsActivity(s, EventsOf(v)) => IsActivity(s, EventsOf(v)')
  <2>1. FALSE \in BOOLEAN /\ forgotten' = forgotten
    BY <1>2
  <2>2. QED BY <1>1, <1>2, <1>3, <2>1, HappensAdds
<1>5. opened' = opened \cup {w} /\ opened' \subseteq Workspaces
  BY <1>1, <1>2 DEF Opened, ActivityTypes
<1>6. /\ a \in Seq(EventsOf(w)') /\ Descending(a)
      /\ \A d \in (Elements(Log(w)) \cup {e}) \ Elements(a) : Cardinality(Newer(EventsOf(w)', d)) >= MaxKept
  <2>1. /\ Log(w) \in Seq(EventsOf(w)) /\ Descending(Log(w)) /\ IsFiniteSet(EventsOf(w))
        /\ \A d \in EventsOf(w) : d.id \in Nat
    BY <1>1, LogIs, EventFacts
  <2>2. clock \in Nat /\ \A d \in EventsOf(w) : d.id < e.id
    <3>1. clock \in Nat
      BY <1>1 DEF ActivityTypes
    <3>2. \A d \in EventsOf(w) : d.id \in Nat /\ d.id <= clock
      BY <1>1, EventFacts
    <3>3. QED BY <1>3, <3>1, <3>2
  <2>3. e.id \in Nat
    BY <1>3, <2>2
  <2>4. EventsOf(w)' = EventsOf(w) \cup {e}
    BY <1>4
  <2> HIDE DEF e
  <2>5. QED BY <2>1, <2>2, <2>3, <2>4, AppendedKeeps
<1>7. IsActivity(a, EventsOf(w)') /\ a \in Seq(events')
  <2>1. EventsOf(w)' \subseteq events'
    BY DEF EventsOf
  <2>2. QED BY <1>6, <2>1, SeqGrows DEF IsActivity, Descending
<1> HIDE DEF e, a
<1>8. /\ log' = [log EXCEPT ![w] = a]
      /\ saved' = [saved EXCEPT ![w] = a] \/ saved' = saved
  BY <1>2 DEF a, e
<1>9. /\ log' \in [Workspaces -> Seq(events')] /\ saved' \in [Workspaces -> Seq(events')]
      /\ \A v \in Workspaces : v # w => log'[v] = log[v] /\ saved'[v] = saved[v]
      /\ log'[w] = a /\ saved'[w] \in {a, saved[w]}
  <2>1. log \in [Workspaces -> Seq(events)] /\ saved \in [Workspaces -> Seq(events)]
    BY <1>1 DEF ActivityTypes
  <2>2. log \in [Workspaces -> Seq(events')] /\ saved \in [Workspaces -> Seq(events')]
    BY <1>4, <2>1
  <2>3. QED BY <1>7, <1>8, <2>2
<1>10. ActivityTypes'
  <2>1. \A v \in Workspaces : IsActivity(log'[v], EventsOf(v)') \/ v = w
    <3> TAKE v \in Workspaces
    <3>1. IsActivity(log[v], EventsOf(v))
      BY <1>1 DEF ActivityTypes
    <3>2. v # w => IsActivity(log'[v], EventsOf(v)')
      BY <1>4, <1>9, <3>1
    <3>3. QED BY <3>2
  <2>2. \A v \in Workspaces : IsActivity(saved'[v], EventsOf(v)')
    <3> TAKE v \in Workspaces
    <3>1. IsActivity(saved[v], EventsOf(v))
      BY <1>1 DEF ActivityTypes
    <3>2. saved'[v] = saved[v] \/ (v = w /\ saved'[v] = a)
      BY <1>9
    <3>3. QED BY <1>4, <1>7, <3>1, <3>2
  <2>3. \A v \in Workspaces : IsActivity(log'[v], EventsOf(v)')
    BY <1>7, <1>9, <2>1
  <2>4. QED BY <1>4, <1>5, <1>9, <2>2, <2>3 DEF ActivityTypes
<1>11. NothingElseIsLost'
  <2> SUFFICES ASSUME NEW v \in Workspaces
               PROVE  \A d \in EventsOf(v)' : ~d.result =>
                        \/ d \in (Elements(Log(v)) \cup forgotten)'
                        \/ Cardinality(Newer(EventsOf(v), d))' >= MaxKept
    BY DEF NothingElseIsLost
  <2>1. CASE v # w
    <3>1. Log(v)' = Log(v) /\ EventsOf(v)' = EventsOf(v)
      BY <1>4, <1>5, <1>9, <2>1 DEF Log
    <3>2. Elements(Log(v)) \subseteq Elements(Log(v))'
      BY <3>1
    <3>3. QED BY <1>1, <1>4, <1>10, <3>1, <3>2, LostStays
  <2>2. CASE v = w
    <3>1. Log(w)' = a
      BY <1>5, <1>9 DEF Log
    <3>2. ASSUME NEW d \in EventsOf(w)', ~d.result
          PROVE  \/ d \in Elements(a) \cup forgotten
                 \/ Cardinality(Newer(EventsOf(w)', d)) >= MaxKept
      <4>1. CASE d \in Elements(Log(w)) \cup {e}
        BY <1>6, <4>1
      <4>2. CASE d \notin Elements(Log(w)) \cup {e}
        <5>1. d \in EventsOf(w) /\ EventsOf(w) \subseteq EventsOf(w)'
          BY <1>4, <3>2, <4>2
        <5>2. d \in forgotten \/ Cardinality(Newer(EventsOf(w), d)) >= MaxKept
          BY <1>1, <3>2, <4>2, <5>1 DEF NothingElseIsLost
        <5>3. IsFiniteSet(EventsOf(w)')
          <6>1. EventsOf(w)' \in SUBSET events'
            BY DEF EventsOf
          <6>2. QED BY <1>4, <6>1, FS_Subset
        <5>4. /\ Cardinality(Newer(EventsOf(w), d)) \in Nat /\ Cardinality(Newer(EventsOf(w)', d)) \in Nat
              /\ Cardinality(Newer(EventsOf(w), d)) <= Cardinality(Newer(EventsOf(w)', d))
          BY <5>1, <5>3, NewerGrow
        <5>5. QED BY <5>2, <5>4, ActivityBounds
      <4>3. QED BY <4>1, <4>2
    <3>3. forgotten' = forgotten
      BY <1>2
    <3>4. \A d : Newer(EventsOf(w), d)' = Newer(EventsOf(w)', d)
      BY DEF Newer
    <3>5. Elements(Log(w))' = Elements(a)
      BY <3>1 DEF Elements
    <3>6. QED BY <2>2, <3>2, <3>3, <3>4, <3>5
  <2>3. QED BY <2>1, <2>2
<1>12. ReadingsFit'
  <2>1. asks' = asks /\ opened \subseteq opened'
    BY <1>2, <1>5
  <2>2. ASSUME NEW c \in asks PROVE ReadingFits(c)'
    <3>1. ReadingFits(c)
      BY <1>1 DEF ReadingsFit
    <3>2. c.answer = "derived" => c.of \in opened'
      BY <2>1, <3>1 DEF ReadingFits
    <3>3. QED BY <1>1, <1>4, <3>1, <3>2, ReadingStays
  <2>3. QED BY <2>1, <2>2 DEF ReadingsFit
<1>13. QED BY <1>10, <1>11, <1>12 DEF LogInv

LEMMA StoreResultKeeps == ASSUME LogInv, NEW w \in Workspaces, StoreResult(w) PROVE LogInv'
<1>1. ActivityTypes /\ NothingElseIsLost /\ ReadingsFit
  BY DEF LogInv
<1> DEFINE new(kind) == [id |-> clock + 1, of |-> w, kind |-> kind, result |-> TRUE]
<1>2. PICK kind \in Kinds :
        /\ Happens(w, kind, TRUE, new(kind))
        /\ Opened(w) /\ log' = [log EXCEPT ![w] = Log(w)]
        /\ UNCHANGED <<saved, forgotten, asks>>
  BY DEF StoreResult
<1> DEFINE e == new(kind)
<1>3. e = [id |-> clock + 1, of |-> w, kind |-> kind, result |-> TRUE] /\ e.result = TRUE
  OBVIOUS
<1> HIDE DEF new
<1>4. /\ clock' \in Nat /\ EventsGo
      /\ events' \subseteq [id : 1 .. clock', of : Workspaces, kind : Kinds, result : BOOLEAN]
      /\ IsFiniteSet(events')
      /\ \A d, f \in events' : d.id = f.id => d = f
      /\ \A v : EventsOf(v)' = IF v = w THEN EventsOf(v) \cup {e} ELSE EventsOf(v)
      /\ Seq(events) \subseteq Seq(events')
      /\ \A v, s : IsActivity(s, EventsOf(v)) => IsActivity(s, EventsOf(v)')
  <2>1. TRUE \in BOOLEAN /\ forgotten' = forgotten
    BY <1>2
  <2>2. QED BY <1>1, <1>2, <1>3, <2>1, HappensAdds
<1> HIDE DEF e
<1>5. /\ opened \subseteq opened' /\ opened' \subseteq Workspaces
      /\ log' \in [Workspaces -> Seq(events)]
      /\ \A v \in Workspaces : Log(v)' = Log(v) /\ IsActivity(log'[v], EventsOf(v))
  <2>1. Opened(w) /\ log' = [log EXCEPT ![w] = Log(w)] /\ saved' = saved
    BY <1>2
  <2>2. QED BY <1>1, <2>1, OpenedIs
<1>6. ActivityTypes'
  <2>1. /\ saved' = saved /\ saved \in [Workspaces -> Seq(events)]
        /\ \A v \in Workspaces : IsActivity(saved[v], EventsOf(v))
    BY <1>1, <1>2 DEF ActivityTypes
  <2>2. log' \in [Workspaces -> Seq(events')] /\ saved' \in [Workspaces -> Seq(events')]
    BY <1>4, <1>5, <2>1
  <2>3. \A v \in Workspaces : IsActivity(log'[v], EventsOf(v)') /\ IsActivity(saved'[v], EventsOf(v)')
    BY <1>4, <1>5, <2>1
  <2>4. QED BY <1>4, <1>5, <2>2, <2>3 DEF ActivityTypes
<1>7. NothingElseIsLost'
  <2> SUFFICES ASSUME NEW v \in Workspaces, NEW d \in EventsOf(v)', ~d.result
               PROVE  \/ d \in (Elements(Log(v)) \cup forgotten)'
                      \/ Cardinality(Newer(EventsOf(v), d))' >= MaxKept
    BY DEF NothingElseIsLost
  <2>1. d \in EventsOf(v) /\ EventsOf(v) \subseteq EventsOf(v)'
    BY <1>3, <1>4
  <2>2. d \in Elements(Log(v)) \cup forgotten \/ Cardinality(Newer(EventsOf(v), d)) >= MaxKept
    BY <1>1, <2>1 DEF NothingElseIsLost
  <2>3. /\ Cardinality(Newer(EventsOf(v), d)) \in Nat /\ Cardinality(Newer(EventsOf(v)', d)) \in Nat
        /\ Cardinality(Newer(EventsOf(v), d)) <= Cardinality(Newer(EventsOf(v)', d))
    <3>1. EventsOf(v)' \in SUBSET events'
      BY DEF EventsOf
    <3>2. IsFiniteSet(EventsOf(v)')
      BY <1>4, <3>1, FS_Subset
    <3>3. QED BY <2>1, <3>2, NewerGrow
  <2>4. Newer(EventsOf(v), d)' = Newer(EventsOf(v)', d) /\ Elements(Log(v))' = Elements(Log(v))
    BY <1>5 DEF Newer, Elements
  <2>5. QED BY <1>2, <2>2, <2>3, <2>4, ActivityBounds
<1>8. ReadingsFit'
  <2>1. ASSUME NEW c \in asks PROVE ReadingFits(c)'
    <3>1. ReadingFits(c)
      BY <1>1 DEF ReadingsFit
    <3>2. c.answer = "derived" => c.of \in opened'
      BY <1>5, <3>1 DEF ReadingFits
    <3>3. QED BY <1>1, <1>4, <3>1, <3>2, ReadingStays
  <2>2. QED BY <1>2, <2>1 DEF ReadingsFit
<1>9. QED BY <1>6, <1>7, <1>8 DEF LogInv

(* A restart forgets what was not written.                                 *)
LEMMA RestartKeeps == ASSUME LogInv, Restart_Activity PROVE LogInv'
<1>1. ActivityTypes /\ NothingElseIsLost /\ ReadingsFit
  BY DEF LogInv
<1>2. PICK torn \in Workspaces \cup {None} :
        /\ forgotten' = forgotten \cup (UNION {Unwritten(w) : w \in Workspaces})
             \cup (IF torn = None THEN {} ELSE {e \in events : e.of = torn /\ ~e.result})
        /\ saved' = [w \in Workspaces |-> IF w = torn THEN <<>> ELSE saved[w]]
  BY DEF Restart_Activity
<1>3. /\ opened' = {} /\ log' = [w \in Workspaces |-> <<>>]
      /\ asks' = (asks \ Unanswered) \cup Failed(Unanswered)
      /\ UNCHANGED <<events, clock>>
  BY DEF Restart_Activity
<1>4. EventsGo /\ \A v : EventsOf(v)' = EventsOf(v)
  BY <1>1, <1>2, <1>3 DEF EventsGo, EventsOf, ActivityTypes
<1>5. \A S : <<>> \in Seq(S) /\ IsActivity(<<>>, S)
  BY DEF IsActivity
<1>6. ActivityTypes'
  <2>1. saved \in [Workspaces -> Seq(events)] /\ \A v \in Workspaces : IsActivity(saved[v], EventsOf(v))
    BY <1>1 DEF ActivityTypes
  <2>2. log' \in [Workspaces -> Seq(events)] /\ saved' \in [Workspaces -> Seq(events)]
    BY <1>2, <1>3, <1>5, <2>1
  <2>3. \A v \in Workspaces : IsActivity(log'[v], EventsOf(v)) /\ IsActivity(saved'[v], EventsOf(v))
    BY <1>2, <1>3, <1>5, <2>1
  <2>4. QED BY <1>1, <1>3, <1>4, <2>2, <2>3 DEF ActivityTypes
<1>7. NothingElseIsLost'
  <2> SUFFICES ASSUME NEW v \in Workspaces
               PROVE  \A d \in EventsOf(v)' : ~d.result =>
                        \/ d \in (Elements(Log(v)) \cup forgotten)'
                        \/ Cardinality(Newer(EventsOf(v), d))' >= MaxKept
    BY DEF NothingElseIsLost
  <2>1. Log(v)' = IF v = torn THEN <<>> ELSE saved[v]
    BY <1>2, <1>3 DEF Log
  <2>2. \A d \in Elements(Log(v)) : ~d.result => d \in Elements(Log(v))' \cup forgotten'
    <3>1. /\ Elements(Log(v)) \subseteq EventsOf(v) /\ EventsOf(v) \subseteq events
          /\ \A e \in events : e.result \in BOOLEAN
      BY <1>1, LogIs, EventFacts
    <3>2. CASE v = torn /\ v # None
      <4>1. \A d : d \in (IF torn = None THEN {} ELSE {e \in events : e.of = torn /\ ~e.result}) => d \in forgotten'
        BY <1>2, Zenon
      <4>2. \A d \in EventsOf(v) : ~d.result => d \in {e \in events : e.of = torn /\ ~e.result}
        BY <3>2, Zenon DEF EventsOf
      <4>3. QED BY <3>1, <3>2, <4>1, <4>2, Zenon
    <3>3. CASE v # torn
      <4>1. Elements(Log(v))' = Elements(saved[v])
        BY <2>1, <3>3 DEF Elements
      <4>2. Unwritten(v) \subseteq forgotten'
        BY <1>2
      <4>3. ASSUME NEW d \in Elements(Log(v)), ~d.result PROVE d \in Elements(Log(v))' \cup forgotten'
        <5>1. d \in Elements(saved[v]) \/ d \in Unwritten(v)
          BY <4>3 DEF Unwritten
        <5>2. QED BY <4>1, <4>2, <5>1
      <4>4. QED BY <3>1, <4>3
    <3>4. CASE v = torn /\ v = None
      BY <3>4, NoneIsNoWorkspace
    <3>5. QED BY <3>2, <3>3, <3>4
  <2>3. ASSUME NEW d \in EventsOf(v)', ~d.result
        PROVE  \/ d \in (Elements(Log(v)) \cup forgotten)'
               \/ Cardinality(Newer(EventsOf(v), d))' >= MaxKept
    <3>1. d \in EventsOf(v) /\ (d \in Elements(Log(v)) \cup forgotten \/ Cardinality(Newer(EventsOf(v), d)) >= MaxKept)
      BY <1>1, <1>4, <2>3 DEF NothingElseIsLost
    <3>2. Newer(EventsOf(v), d)' = Newer(EventsOf(v), d)
      BY <1>4 DEF Newer
    <3>3. forgotten \subseteq forgotten'
      BY <1>2
    <3>4. QED BY <2>2, <2>3, <3>1, <3>2, <3>3
  <2>4. QED BY <2>3
<1>8. ReadingsFit'
  <2>1. ASSUME NEW c \in asks \ Unanswered PROVE ReadingFits(c)'
    <3>1. ReadingFits(c)
      BY <1>1 DEF ReadingsFit
    <3>2. c.answer # "derived"
      BY DEF Unanswered
    <3>3. QED BY <1>1, <1>4, <3>1, <3>2, ReadingStays
  <2>2. ASSUME NEW c \in Unanswered PROVE ReadingFits([c EXCEPT !.answer = "failed"])'
    <3>1. ReadingFits(c) /\ c.answer # "ok"
      BY <1>1 DEF ReadingsFit, Unanswered
    <3>2. ReadingFits([c EXCEPT !.answer = "failed"])
      BY <3>1 DEF ReadingFits
    <3>3. [c EXCEPT !.answer = "failed"].answer # "derived"
      BY <3>1 DEF ReadingFits
    <3>4. QED BY <1>1, <1>4, <3>2, <3>3, ReadingStays
  <2>3. \A c \in asks' : (c \in asks \ Unanswered) \/ (\E d \in Unanswered : c = [d EXCEPT !.answer = "failed"])
    BY <1>3 DEF Failed
  <2>4. QED BY <2>1, <2>2, <2>3 DEF ReadingsFit
<1>9. QED BY <1>6, <1>7, <1>8 DEF LogInv

(* Steps of the pages, and of one reading that changes no log.             *)
LEMMA LogStays ==
  ASSUME LogInv, UNCHANGED activityServer, \A c \in asks' : ReadingFits(c)
  PROVE  LogInv'
<1>1. EventsGo /\ \A v : EventsOf(v)' = EventsOf(v) /\ Log(v)' = Log(v) /\ UNCHANGED <<opened, log, saved, events, clock, forgotten>>
  BY DEF LogInv, EventsGo, activityServer, ActivityTypes, EventsOf, Log
<1>2. ActivityTypes'
  BY <1>1 DEF LogInv, ActivityTypes
<1>3. NothingElseIsLost'
  BY <1>1 DEF LogInv, NothingElseIsLost, Newer, Elements
<1>4. ReadingsFit'
  <2>1. ASSUME NEW c \in asks' PROVE ReadingFits(c)'
    <3>1. ReadingFits(c) /\ (c.answer = "derived" => c.of \in opened')
      BY <1>1 DEF ReadingFits
    <3>2. QED BY <1>1, <3>1, ReadingStays DEF LogInv
  <2>2. QED BY <2>1 DEF ReadingsFit
<1>5. QED BY <1>2, <1>3, <1>4 DEF LogInv

LEMMA FreshReading ==
  ASSUME NEW view \in {"activity", "home"}, NEW w \in Workspaces, NEW filter \in Kinds \cup {"all"},
         view = "home" => filter = "all"
  PROVE  ReadingFits(Reading(view, w, filter))
<1>1. <<>> \in Seq(events) /\ 0 \in Nat
  OBVIOUS
<1>2. QED BY <1>1 DEF Reading, ReadingFits

LEMMA DeriveKeeps == ASSUME LogInv, NEW c \in asks, Derive(c) PROVE LogInv'
<1>1. ActivityTypes /\ NothingElseIsLost /\ ReadingsFit /\ ReadingFits(c)
  BY DEF LogInv, ReadingsFit
<1>0. PICK d : d = [c EXCEPT !.answer = "derived", !.derived = GovernanceResults(c.of)]
  OBVIOUS
<1>2. /\ c.of \in Workspaces /\ c.answer = "awaited" /\ asks' = (asks \ {c}) \cup {d}
      /\ Opened(c.of) /\ log' = [log EXCEPT ![c.of] = Log(c.of)]
      /\ UNCHANGED <<events, saved, forgotten, clock>>
  BY <1>0, <1>1 DEF Derive, ReadingFits
<1>3. /\ opened \subseteq opened' /\ opened' \subseteq Workspaces /\ c.of \in opened'
      /\ log' \in [Workspaces -> Seq(events)]
      /\ \A v \in Workspaces : Log(v)' = Log(v) /\ IsActivity(log'[v], EventsOf(v))
  BY <1>1, <1>2, OpenedIs
<1>4. EventsGo /\ \A v : EventsOf(v)' = EventsOf(v)
  BY <1>1, <1>2 DEF EventsGo, EventsOf, ActivityTypes
<1>5. ActivityTypes'
  BY <1>1, <1>2, <1>3, <1>4 DEF ActivityTypes
<1>6. NothingElseIsLost'
  BY <1>1, <1>2, <1>3, <1>4 DEF NothingElseIsLost, Newer, Elements
<1>7. ReadingsFit'
  <2>1. ASSUME NEW r \in asks PROVE ReadingFits(r)'
    <3>1. ReadingFits(r)
      BY <1>1 DEF ReadingsFit
    <3>2. r.answer = "derived" => r.of \in opened'
      BY <1>3, <3>1 DEF ReadingFits
    <3>3. QED BY <1>1, <1>4, <3>1, <3>2, ReadingStays
  <2>2. ReadingFits(d)'
    <3>1. GovernanceResults(c.of) \subseteq EventsOf(c.of) /\ GovernanceResults(c.of) \subseteq events
      BY DEF GovernanceResults, EventsOf
    <3>2. d.answer = "derived" /\ d.of = c.of /\ d.page = c.page /\ d.filter = c.filter /\ d.items = c.items
          /\ d.derived = GovernanceResults(c.of)
      BY <1>0, <1>1 DEF ReadingFits
    <3>3. d \in [page : {"activity", "home"}, of : Workspaces, filter : Kinds \cup {"all"},
                 answer : {"awaited", "derived", "ok", "failed"}, derived : SUBSET events,
                 by : Nat, items : Seq(events)]
      BY <1>0, <1>1, <3>1 DEF ReadingFits
    <3>4. QED BY <1>1, <1>2, <1>3, <1>4, <3>1, <3>2, <3>3 DEF ReadingFits
  <2>3. QED BY <1>2, <2>1, <2>2 DEF ReadingsFit
<1>8. QED BY <1>5, <1>6, <1>7 DEF LogInv

(* The log a reading merges, and what it answers with.                     *)
LEMMA AnswerKeeps == ASSUME LogInv, NEW c \in asks, Answer(c) PROVE LogInv'
<1>1. ActivityTypes /\ NothingElseIsLost /\ ReadingsFit /\ ReadingFits(c)
  BY DEF LogInv, ReadingsFit
<1> DEFINE merged == Merged(c.derived, log[c.of])
           selected == {e \in Elements(merged) : c.filter \in {"all", e.kind}}
           items == Selected(merged, c.filter)
           d == [c EXCEPT !.answer = "ok", !.by = clock, !.items = items]
<1>2. /\ c.of \in Workspaces /\ c.of \in opened /\ c.answer = "derived"
      /\ c.derived \subseteq EventsOf(c.of)
      /\ UNCHANGED <<events, opened, saved, forgotten, clock>>
  BY <1>1 DEF Answer, ReadingFits
<1>3. /\ log \in [Workspaces -> Seq(events)] /\ clock \in Nat /\ opened \subseteq Workspaces
      /\ Log(c.of) = log[c.of]
  BY <1>1, <1>2 DEF ActivityTypes, Log
<1>4. log' = [log EXCEPT ![c.of] = merged] /\ log'[c.of] = merged
  BY <1>2, <1>3 DEF Answer
<1>5. asks' = (asks \ {c}) \cup {d}
  BY <1>4 DEF Answer
<1>6. EventsGo /\ \A v : EventsOf(v)' = EventsOf(v)
  BY <1>2, <1>3 DEF EventsGo, EventsOf
<1>7. /\ IsFiniteSet(EventsOf(c.of)) /\ EventsOf(c.of) \subseteq events
      /\ \A e \in EventsOf(c.of) : e.id \in Nat /\ e.id <= clock
      /\ \A e, f \in EventsOf(c.of) : e.id = f.id => e = f
      /\ Elements(log[c.of]) \subseteq EventsOf(c.of)
  BY <1>1, <1>2, <1>3, EventFacts, LogIs DEF ActivityTypes
<1>8. /\ merged \in Seq(EventsOf(c.of)) /\ Descending(merged)
      /\ Elements(merged) = c.derived \cup Elements(log[c.of])
  <2> DEFINE S == c.derived \cup Elements(log[c.of])
  <2>1. S \in SUBSET EventsOf(c.of)
    BY <1>2, <1>7
  <2>2. /\ IsFiniteSet(S) /\ \A e \in S : e.id \in Nat
        /\ \A e, f \in S : e.id = f.id => e = f
    BY <1>7, <2>1, FS_Subset
  <2>3. merged = ByTime(S)
    BY DEF Merged
  <2> HIDE DEF S
  <2>4. ByTime(S) \in Seq(S) /\ Descending(ByTime(S)) /\ Elements(ByTime(S)) = S
    BY <2>2, ByTimeLists
  <2>5. Seq(S) \subseteq Seq(EventsOf(c.of))
    BY <2>1, SeqGrows
  <2> HIDE DEF merged
  <2>6. QED BY <2>3, <2>4, <2>5 DEF S
<1> HIDE DEF merged
<1>9. /\ items \in Seq(selected) /\ Descending(items) /\ Elements(items) \subseteq selected
      /\ \A e \in selected \ Elements(items) :
           Len(items) = MaxShown /\ \A i \in 1 .. Len(items) : items[i].id > e.id
  <2>1. selected \in SUBSET EventsOf(c.of)
    BY <1>2, <1>7, <1>8
  <2>2. /\ IsFiniteSet(selected) /\ \A e \in selected : e.id \in Nat
        /\ \A e, f \in selected : e.id = f.id => e = f
    BY <1>7, <2>1, FS_Subset
  <2>3. items = First(ByTime(selected), MaxShown)
    BY DEF Selected
  <2> HIDE DEF selected, items
  <2>4. ByTime(selected) \in Seq(selected) /\ Descending(ByTime(selected)) /\ Elements(ByTime(selected)) = selected
    BY <2>2, ByTimeLists
  <2>5. MaxShown \in Nat
    BY ActivityBounds
  <2> DEFINE s == ByTime(selected)
  <2> HIDE DEF s
  <2>6. /\ First(s, MaxShown) \in Seq(selected) /\ Descending(First(s, MaxShown))
        /\ Elements(First(s, MaxShown)) \subseteq Elements(s)
        /\ \A e \in Elements(s) \ Elements(First(s, MaxShown)) :
             Len(First(s, MaxShown)) = MaxShown /\ \A i \in 1 .. MaxShown : First(s, MaxShown)[i].id > e.id
    <3>1. s \in Seq(selected) /\ Descending(s)
      BY <2>4 DEF s
    <3>2. QED BY <2>2, <2>5, <3>1, FirstIsDescending
  <2>7. items = First(s, MaxShown) /\ Elements(s) = selected
    BY <2>3, <2>4 DEF s
  <2>8. QED BY <2>6, <2>7
<1>10. selected \subseteq Matching(c) /\ selected \subseteq EventsOf(c.of)
  BY <1>2, <1>7, <1>8 DEF Matching, EventsOf
<1>11. ActivityTypes'
  <2>1. /\ merged \in Seq(events) /\ IsActivity(merged, EventsOf(c.of))
    <3>1. Seq(EventsOf(c.of)) \subseteq Seq(events)
      BY <1>7, SeqGrows
    <3>2. QED BY <1>8, <3>1 DEF IsActivity, Descending
  <2>2. log' \in [Workspaces -> Seq(events)]
    BY <1>2, <1>3, <1>4, <2>1
  <2>3. \A v \in Workspaces : IsActivity(log'[v], EventsOf(v))
    BY <1>1, <1>2, <1>3, <1>4, <2>1 DEF ActivityTypes
  <2>4. QED BY <1>1, <1>2, <1>6, <2>2, <2>3 DEF ActivityTypes
<1>12. NothingElseIsLost'
  <2> SUFFICES ASSUME NEW v \in Workspaces
               PROVE  \A e \in EventsOf(v)' : ~e.result =>
                        \/ e \in (Elements(Log(v)) \cup forgotten)'
                        \/ Cardinality(Newer(EventsOf(v), e))' >= MaxKept
    BY DEF NothingElseIsLost
  <2>1. Elements(Log(v)) \subseteq Elements(Log(v))'
    <3>1. CASE v = c.of
      <4>1. Log(v)' = merged
        BY <1>2, <1>4, <3>1 DEF Log
      <4>2. Elements(Log(v))' = Elements(merged)
        BY <4>1 DEF Elements
      <4>3. QED BY <1>3, <1>8, <3>1, <4>2
    <3>2. CASE v # c.of
      <4>1. Log(v)' = Log(v)
        BY <1>2, <1>3, <1>4, <3>2 DEF Log
      <4>2. QED BY <4>1 DEF Elements
    <3>3. QED BY <3>1, <3>2
  <2>2. QED BY <1>1, <1>6, <1>11, <2>1, LostStays
<1>13. ReadingFits(d)
  <2>1. d.answer = "ok" /\ d.of = c.of /\ d.page = c.page /\ d.filter = c.filter /\ d.items = items
        /\ d.derived = c.derived /\ d.by = clock
    BY <1>1 DEF ReadingFits
  <2>2. items \in Seq(Matching(c)) /\ items \in Seq(events)
    <3>1. Seq(selected) \subseteq Seq(Matching(c)) /\ Seq(selected) \subseteq Seq(events)
      <4>1. selected \subseteq events
        BY <1>7, <1>10
      <4> HIDE DEF selected
      <4>2. QED BY <1>10, <4>1, SeqGrows
    <3>2. QED BY <1>9, <3>1
  <2>3. d \in [page : {"activity", "home"}, of : Workspaces, filter : Kinds \cup {"all"},
               answer : {"awaited", "derived", "ok", "failed"}, derived : SUBSET events,
               by : Nat, items : Seq(events)]
    <3> HIDE DEF items
    <3> QED BY <1>1, <1>3, <2>2 DEF ReadingFits
  <2> HIDE DEF d
  <2>4. AnswersNewest(d)
    <3> DEFINE known == {e \in events : e.of = d.of /\ e.id <= d.by}
    <3>1. known = EventsOf(c.of)
      BY <1>7, <2>1 DEF EventsOf
    <3>2. DOMAIN items = 1 .. Len(items)
      <4> HIDE DEF items, selected
      <4> QED BY <1>9, LenProperties
    <3>3. \A i, j \in DOMAIN items : i < j => items[i].id > items[j].id
      BY <1>9, <3>2 DEF Descending
    <3>4. Elements(items) \subseteq EventsOf(c.of)
      BY <1>9, <1>10
    <3>5. ASSUME NEW e \in EventsOf(c.of) \ (Elements(items) \cup forgotten)
          PROVE  \/ c.filter \notin {"all", e.kind}
                 \/ e.result /\ e \notin c.derived
                 \/ Len(items) = MaxShown /\ \A i \in DOMAIN items : items[i].id > e.id
                 \/ Cardinality(Newer(EventsOf(c.of), e)) >= MaxKept
      <4>1. CASE c.filter \notin {"all", e.kind}
        BY <4>1
      <4>2. CASE c.filter \in {"all", e.kind} /\ e \in Elements(merged)
        <5>1. e \in selected \ Elements(items)
          BY <4>2
        <5>2. QED BY <1>9, <3>2, <5>1
      <4>3. CASE e \notin Elements(merged)
        <5>1. e \notin c.derived /\ e \notin Elements(Log(c.of))
          BY <1>3, <1>8, <4>3
        <5>2. ~e.result => Cardinality(Newer(EventsOf(c.of), e)) >= MaxKept
          BY <1>1, <1>2, <5>1 DEF NothingElseIsLost
        <5>3. QED BY <5>1, <5>2
      <4>4. QED BY <4>1, <4>2, <4>3
    <3>6. \A e : Newer(EventsOf(c.of), e) = {x \in EventsOf(c.of) : x.id > e.id}
      BY DEF Newer
    <3> HIDE DEF known, items
    <3>7. \A e \in known \ (Elements(d.items) \cup forgotten) :
           \/ d.filter \notin {"all", e.kind}
           \/ e.result /\ e \notin d.derived
           \/ Len(d.items) = MaxShown /\ \A i \in DOMAIN d.items : d.items[i].id > e.id
           \/ Cardinality({x \in known : x.id > e.id}) >= MaxKept
      BY <2>1, <3>1, <3>5, <3>6
    <3>8. QED BY <2>1, <3>1, <3>3, <3>4, <3>7 DEF AnswersNewest, known
  <2> HIDE DEF items
  <2>5. Matching(d) = Matching(c)
    BY <2>1 DEF Matching
  <2>6. d.by <= clock /\ clock \in Nat
    BY <1>3, <2>1
  <2>7. QED BY <1>1, <1>2, <2>1, <2>2, <2>3, <2>4, <2>5, <2>6 DEF ReadingFits
<1>14. ReadingsFit'
  <2>1. ASSUME NEW r, r \in asks \/ r = d PROVE ReadingFits(r)'
    <3>1. ReadingFits(r)
      BY <1>1, <1>13, <2>1 DEF ReadingsFit
    <3>2. r.answer = "derived" => r.of \in opened'
      BY <1>2, <3>1 DEF ReadingFits
    <3>3. QED BY <1>1, <1>6, <3>1, <3>2, ReadingStays
  <2> HIDE DEF d
  <2>2. QED BY <1>5, <2>1 DEF ReadingsFit
<1>15. QED BY <1>11, <1>12, <1>14 DEF LogInv

LEMMA FailReadingKeeps == ASSUME LogInv, NEW c \in asks, FailReading(c) PROVE LogInv'
<1>1. \A r \in asks : ReadingFits(r)
  BY DEF LogInv, ReadingsFit
<1>2. c.answer # "ok" /\ asks' = (asks \ {c}) \cup {[c EXCEPT !.answer = "failed"]} /\ UNCHANGED activityServer
  BY DEF FailReading, Failed, Unanswered
<1>3. ReadingFits([c EXCEPT !.answer = "failed"])
  BY <1>1, <1>2 DEF ReadingFits
<1>4. QED BY <1>1, <1>2, <1>3, LogStays

LEMMA LogInitially == ActivityInit => LogInv
<1> SUFFICES ASSUME ActivityInit PROVE LogInv
  OBVIOUS
<1>1. /\ events = {} /\ forgotten = {} /\ clock = 0 /\ opened = {} /\ asks = {}
      /\ log = [w \in Workspaces |-> <<>>] /\ saved = [w \in Workspaces |-> <<>>]
  BY DEF ActivityInit
<1>2. \A S : <<>> \in Seq(S) /\ IsActivity(<<>>, S)
  BY DEF IsActivity
<1>3. IsFiniteSet({})
  BY FS_EmptySet
<1>4. ActivityTypes
  BY <1>1, <1>2, <1>3 DEF ActivityTypes
<1>5. NothingElseIsLost /\ ReadingsFit
  BY <1>1 DEF NothingElseIsLost, ReadingsFit, EventsOf
<1>6. QED BY <1>4, <1>5 DEF LogInv

-----------------------------------------------------------------------------
(* The pages.                                                              *)

(* The readings that are still on their way are for the same.              *)
SameReading(c, d) == c.page = d.page /\ c.of = d.of /\ c.filter = d.filter

LEMMA PagesStay ==
  ASSUME PagesFit, UNCHANGED <<at, activity, home, crossed, misplaced>>, events \subseteq events',
         NEW m, asks' = {m[c] : c \in asks}, \A c \in asks : SameReading(c, m[c])
  PROVE  PagesFit'
<1>1. \A c \in asks : m[c] \in asks' /\ SameReading(c, m[c])
  OBVIOUS
<1>2. \A d \in asks' : \E c \in asks : d = m[c] /\ SameReading(c, d)
  OBVIOUS
<1>3. at \in Whereabouts' /\ activity \in ActivityPages' /\ home \in HomePages'
  BY DEF PagesFit, Whereabouts, ActivityPages, HomePages
<1>4. HomeFits(home, at, asks', misplaced)
  <2>1. \A w : (\E c \in asks : c.page = "home" /\ c.of = w) => \E c \in asks' : c.page = "home" /\ c.of = w
    BY <1>1 DEF SameReading
  <2>2. QED BY <2>1 DEF PagesFit, HomeFits
<1>5. ActivityFits(activity, at, asks', crossed)
  <2>1. (\E c \in asks : c.page = "activity") => \E c \in asks' : c.page = "activity"
    BY <1>1 DEF SameReading
  <2>2. (\A c, d \in asks : c.page = "activity" /\ d.page = "activity" => c = d) =>
          \A c, d \in asks' : c.page = "activity" /\ d.page = "activity" => c = d
    BY <1>2 DEF SameReading
  <2>3. ASSUME \A c \in asks : c.page = "activity" => activity.loading /\ c.of = activity.of /\ c.filter = activity.filter
        PROVE  \A c \in asks' : c.page = "activity" => activity.loading /\ c.of = activity.of /\ c.filter = activity.filter
    BY <1>2, <2>3 DEF SameReading
  <2>4. QED BY <2>1, <2>2, <2>3 DEF PagesFit, ActivityFits
<1>6. QED BY <1>3, <1>4, <1>5 DEF PagesFit

LEMMA ServerPages ==
  ASSUME LogInv, PagesFit,
         \/ \E w \in Workspaces : Record(w) \/ StoreResult(w)
         \/ Restart_Activity
         \/ \E c \in asks : Derive(c) \/ Answer(c) \/ FailReading(c)
  PROVE  PagesFit'
<1>1. \A c \in asks : ReadingFits(c)
  BY DEF LogInv, ReadingsFit
<1>2. CASE \E w \in Workspaces : Record(w) \/ StoreResult(w)
  <2>1. /\ UNCHANGED <<at, activity, home, crossed, misplaced, asks>> /\ events \subseteq events'
    BY <1>2 DEF Record, StoreResult, Happens
  <2> DEFINE m == [c \in asks |-> c]
  <2>2. asks' = {m[c] : c \in asks} /\ \A c \in asks : SameReading(c, m[c])
    BY <2>1 DEF SameReading
  <2> HIDE DEF m
  <2>3. QED BY <2>1, <2>2, PagesStay
<1>3. CASE Restart_Activity
  <2>1. /\ UNCHANGED <<at, activity, home, crossed, misplaced>> /\ events \subseteq events'
        /\ asks' = (asks \ Unanswered) \cup {[c EXCEPT !.answer = "failed"] : c \in Unanswered}
    BY <1>3 DEF Restart_Activity, Failed
  <2> DEFINE m == [c \in asks |-> IF c \in Unanswered THEN [c EXCEPT !.answer = "failed"] ELSE c]
  <2>2. asks' = {m[c] : c \in asks}
    BY <2>1 DEF Unanswered
  <2>3. \A c \in asks : SameReading(c, m[c])
    BY <1>1 DEF SameReading, ReadingFits
  <2> HIDE DEF m
  <2>4. QED BY <2>1, <2>2, <2>3, PagesStay
<1>4. CASE \E c \in asks : Derive(c) \/ Answer(c) \/ FailReading(c)
  <2>1. PICK c \in asks : Derive(c) \/ Answer(c) \/ FailReading(c)
    BY <1>4
  <2>2. UNCHANGED <<at, activity, home, crossed, misplaced>> /\ events \subseteq events'
    BY <2>1 DEF Derive, Answer, FailReading, activityServer
  <2>3. \E d : asks' = (asks \ {c}) \cup {d} /\ SameReading(c, d)
    <3>1. CASE Derive(c)
      <4>1. asks' = (asks \ {c}) \cup {[c EXCEPT !.answer = "derived", !.derived = GovernanceResults(c.of)]}
        BY <3>1 DEF Derive
      <4>2. SameReading(c, [c EXCEPT !.answer = "derived", !.derived = GovernanceResults(c.of)])
        BY <1>1 DEF SameReading, ReadingFits
      <4>3. QED BY <4>1, <4>2
    <3>2. CASE Answer(c)
      <4>1. asks' = (asks \ {c}) \cup
              {[c EXCEPT !.answer = "ok", !.by = clock, !.items = Selected(log'[c.of], c.filter)]}
        BY <3>2 DEF Answer
      <4>2. SameReading(c, [c EXCEPT !.answer = "ok", !.by = clock, !.items = Selected(log'[c.of], c.filter)])
        BY <1>1 DEF SameReading, ReadingFits
      <4>3. QED BY <4>1, <4>2
    <3>3. CASE FailReading(c)
      <4>1. asks' = (asks \ {c}) \cup {[c EXCEPT !.answer = "failed"]}
        BY <3>3 DEF FailReading, Failed
      <4>2. SameReading(c, [c EXCEPT !.answer = "failed"])
        BY <1>1 DEF SameReading, ReadingFits
      <4>3. QED BY <4>1, <4>2
    <3>4. QED BY <2>1, <3>1, <3>2, <3>3
  <2>4. PICK d : asks' = (asks \ {c}) \cup {d} /\ SameReading(c, d)
    BY <2>3
  <2> DEFINE m == [r \in asks |-> IF r = c THEN d ELSE r]
  <2>5. asks' = {m[r] : r \in asks} /\ \A r \in asks : SameReading(r, m[r])
    BY <2>4 DEF SameReading
  <2> HIDE DEF m
  <2>6. QED BY <2>2, <2>5, PagesStay
<1>5. QED BY <1>2, <1>3, <1>4

LEMMA ReadingIs ==
  ASSUME NEW view, NEW w, NEW filter
  PROVE  /\ Reading(view, w, filter).page = view /\ Reading(view, w, filter).of = w
         /\ Reading(view, w, filter).filter = filter
BY DEF Reading

LEMMA ArrivesKeeps ==
  ASSUME PagesFit, NEW to \in Whereabouts, Arrives(to), UNCHANGED <<events, misplaced>>
  PROVE  PagesFit' /\ \A c \in asks' : c \in asks \/ ReadingFits(c)
<1> DEFINE view == IF to.route = "activity" THEN Reset(activity, to.active) ELSE activity
           asked == IF to.route = "activity" /\ view.loading THEN Asks(view)
                    ELSE IF to.route = "home" THEN {Reading("home", to.active, "all")} ELSE {}
           h == IF to.route = "home" THEN HomeLoads(home, to.active) ELSE home
           overtaken == crossed \/ \E c \in asks : c.page = "activity" /\ {a \in asked : a.page = "activity"} # {}
<1>1. /\ at' = to /\ activity' = view /\ asks' = asks \cup asked /\ home' = h
      /\ crossed' = overtaken
  BY DEF Arrives, Crosses
<1>2. /\ at \in Whereabouts /\ activity \in ActivityPages /\ home \in HomePages /\ crossed \in BOOLEAN
      /\ HomeFits(home, at, asks, misplaced) /\ ActivityFits(activity, at, asks, crossed)
  BY DEF PagesFit
<1>3. to.active \in Workspaces /\ to.route \in {"home", "activity", "other"}
  BY DEF Whereabouts
<1>4. /\ view \in ActivityPages
      /\ to.route = "activity" => view.of = to.active
      /\ view = activity \/ (to.route = "activity" /\ view.loading)
      /\ to.route # "activity" => view = activity
  BY <1>2, <1>3 DEF Reset, ActivityPages
<1>5. /\ h \in HomePages
      /\ to.route = "home" => h.of = to.active
      /\ h = home \/ (to.route = "home" /\ h.loading)
      /\ to.route # "home" => h = home
  BY <1>2, <1>3 DEF HomeLoads, HomePages
<1> HIDE DEF view, h
<1>6. \A c \in asked : ReadingFits(c)
  <2>1. \A c \in asked : c = Reading("activity", view.of, view.filter) \/ c = Reading("home", to.active, "all")
    BY DEF Asks
  <2>2. ReadingFits(Reading("activity", view.of, view.filter)) /\ ReadingFits(Reading("home", to.active, "all"))
    <3>1. view.of \in Workspaces /\ view.filter \in Kinds \cup {"all"}
      BY <1>4 DEF ActivityPages
    <3>2. QED BY <1>3, <3>1, FreshReading
  <2>3. QED BY <2>1, <2>2
<1>7. /\ to.route = "home" => \E c \in asked : c.page = "home" /\ c.of = to.active
      /\ to.route = "activity" /\ view.loading =>
           asked = {Reading("activity", view.of, view.filter)} /\ \E c \in asked : c.page = "activity"
      /\ ~ (to.route = "activity" /\ view.loading) => \A c \in asked : c.page # "activity"
  BY ReadingIs DEF Asks
<1> HIDE DEF asked
<1>8. HomeFits(h, to, asks \cup asked, misplaced)
  BY <1>2, <1>5, <1>7 DEF HomeFits, HomePages
<1>9. ActivityFits(view, to, asks \cup asked, overtaken)
  <2>1. to.route = "activity" =>
          /\ view.of = to.active
          /\ view.loading => \E c \in asks \cup asked : c.page = "activity"
    BY <1>4, <1>7
  <2>2. ASSUME ~overtaken
        PROVE  /\ \A c, d \in asks \cup asked : c.page = "activity" /\ d.page = "activity" => c = d
               /\ \A c \in asks \cup asked :
                    c.page = "activity" => view.loading /\ c.of = view.of /\ c.filter = view.filter
               /\ ~view.loading => \A e \in view.items : e.of = view.of /\ view.filter \in {"all", e.kind}
    <3>1. CASE to.route = "activity" /\ view.loading
      <4>1. \A c \in asks : c.page # "activity"
        BY <1>7, <2>2, <3>1
      <4>2. asked = {Reading("activity", view.of, view.filter)}
        BY <1>7, <3>1
      <4>3. QED BY <3>1, <4>1, <4>2, ReadingIs
    <3>2. CASE ~ (to.route = "activity" /\ view.loading)
      <4>1. view = activity /\ ~crossed /\ \A c \in asked : c.page # "activity"
        BY <1>4, <1>7, <2>2, <3>2
      <4>2. QED BY <1>2, <4>1 DEF ActivityFits
    <3>3. QED BY <3>1, <3>2
  <2>3. QED BY <2>1, <2>2 DEF ActivityFits
<1>10. overtaken \in BOOLEAN
  BY <1>2
<1>11. at' \in Whereabouts' /\ activity' \in ActivityPages' /\ home' \in HomePages' /\ crossed' \in BOOLEAN
  BY <1>1, <1>4, <1>5, <1>10 DEF Whereabouts, ActivityPages, HomePages
<1> HIDE DEF overtaken
<1>12. HomeFits(home', at', asks', misplaced') /\ ActivityFits(activity', at', asks', crossed')
  BY <1>1, <1>8, <1>9
<1>13. PagesFit'
  BY <1>11, <1>12 DEF PagesFit
<1>14. QED BY <1>1, <1>6, <1>13

LEMMA GoToKeeps == ASSUME ActivityInv, GoTo_Activity PROVE ActivityInv'
<1>1. PICK r \in {"home", "activity", "other"}, w \in Workspaces : Arrives([route |-> r, active |-> w])
  BY DEF GoTo_Activity
<1>2. [route |-> r, active |-> w] \in Whereabouts /\ UNCHANGED <<activityServer, misplaced>>
  BY DEF Whereabouts, GoTo_Activity
<1>3. PagesFit' /\ \A c \in asks' : c \in asks \/ ReadingFits(c)
  BY <1>1, <1>2, ArrivesKeeps DEF ActivityInv, activityServer
<1>4. LogInv'
  BY <1>2, <1>3, LogStays DEF ActivityInv, LogInv, ReadingsFit
<1>5. QED BY <1>3, <1>4 DEF ActivityInv

LEMMA SetFilterKeeps == ASSUME ActivityInv, SetFilter PROVE ActivityInv'
<1>1. PICK filter \in Kinds \cup {"all"} :
        LET view == [activity EXCEPT !.filter = filter, !.loading = TRUE, !.of = at.active]
        IN  activity' = view /\ asks' = asks \cup Asks(view) /\ Crosses(Asks(view))
  BY DEF SetFilter
<1>2. at.route = "activity" /\ UNCHANGED <<activityServer, at, home, misplaced>>
  BY DEF SetFilter
<1>3. /\ at \in Whereabouts /\ activity \in ActivityPages /\ home \in HomePages /\ crossed \in BOOLEAN
      /\ HomeFits(home, at, asks, misplaced) /\ ActivityFits(activity, at, asks, crossed)
  BY DEF ActivityInv, PagesFit
<1> DEFINE view == [activity EXCEPT !.filter = filter, !.loading = TRUE, !.of = at.active]
           r == Reading("activity", at.active, filter)
           overtaken == crossed \/ \E c \in asks : c.page = "activity"
<1>4. view \in ActivityPages /\ view.loading /\ view.of = at.active /\ view.filter = filter /\ at.active \in Workspaces
  BY <1>3 DEF ActivityPages, Whereabouts
<1>5. activity' = view /\ asks' = asks \cup {r} /\ crossed' = overtaken
  BY <1>1, <1>4 DEF Asks, Crosses
<1>6. r.page = "activity" /\ r.of = at.active /\ r.filter = filter /\ ReadingFits(r)
  BY <1>4, ReadingIs, FreshReading
<1> HIDE DEF view, r
<1>7. HomeFits(home, at, asks \cup {r}, misplaced)
  BY <1>3 DEF HomeFits
<1>8. ActivityFits(view, at, asks \cup {r}, overtaken)
  BY <1>4, <1>6 DEF ActivityFits
<1>9. at' \in Whereabouts' /\ activity' \in ActivityPages' /\ home' \in HomePages' /\ crossed' \in BOOLEAN
  BY <1>2, <1>3, <1>4, <1>5 DEF Whereabouts, ActivityPages, HomePages, activityServer
<1> HIDE DEF overtaken
<1>10. PagesFit'
  <2>1. HomeFits(home', at', asks', misplaced') /\ ActivityFits(activity', at', asks', crossed')
    BY <1>2, <1>5, <1>7, <1>8
  <2>2. QED BY <1>9, <2>1 DEF PagesFit
<1>11. LogInv'
  BY <1>2, <1>5, <1>6, LogStays DEF ActivityInv, LogInv, ReadingsFit
<1>12. QED BY <1>10, <1>11 DEF ActivityInv

LEMMA RetryHomeKeeps == ASSUME ActivityInv, RetryHome PROVE ActivityInv'
<1> DEFINE r == Reading("home", at.active, "all")
<1>1. /\ at.route = "home" /\ home' = [home EXCEPT !.loading = TRUE, !.error = FALSE]
      /\ asks' = asks \cup {r} /\ UNCHANGED <<activityServer, at, activity, crossed, misplaced>>
  BY DEF RetryHome
<1>2. /\ at \in Whereabouts /\ activity \in ActivityPages /\ home \in HomePages /\ crossed \in BOOLEAN
      /\ HomeFits(home, at, asks, misplaced) /\ ActivityFits(activity, at, asks, crossed)
  BY DEF ActivityInv, PagesFit
<1>3. home' \in HomePages /\ home'.loading /\ home'.of = home.of /\ at.active \in Workspaces
  BY <1>1, <1>2 DEF HomePages, Whereabouts
<1>4. r.page = "home" /\ r.of = at.active /\ ReadingFits(r)
  BY <1>3, ReadingIs, FreshReading
<1> HIDE DEF r
<1>5. HomeFits(home', at, asks \cup {r}, misplaced) /\ ActivityFits(activity, at, asks \cup {r}, crossed)
  BY <1>1, <1>2, <1>3, <1>4 DEF HomeFits, ActivityFits
<1>6. at' \in Whereabouts' /\ activity' \in ActivityPages' /\ home' \in HomePages' /\ crossed' \in BOOLEAN
  BY <1>1, <1>2, <1>3 DEF Whereabouts, ActivityPages, HomePages, activityServer
<1>7. PagesFit'
  BY <1>1, <1>5, <1>6 DEF PagesFit
<1>8. LogInv'
  BY <1>1, <1>4, LogStays DEF ActivityInv, LogInv, ReadingsFit
<1>9. QED BY <1>7, <1>8 DEF ActivityInv

LEMMA HandleReadingKeeps == ASSUME ActivityInv, NEW c \in asks, HandleReading(c) PROVE ActivityInv'
<1>1. /\ c.answer \in {"ok", "failed"} /\ asks' = asks \ {c}
      /\ UNCHANGED <<activityServer, at, crossed>>
  BY DEF HandleReading, Unanswered
<1>2. ReadingFits(c)
  BY DEF ActivityInv, LogInv, ReadingsFit
<1>3. /\ at \in Whereabouts /\ activity \in ActivityPages /\ home \in HomePages /\ crossed \in BOOLEAN
      /\ HomeFits(home, at, asks, misplaced) /\ ActivityFits(activity, at, asks, crossed)
  BY DEF ActivityInv, PagesFit
<1>4. /\ Elements(c.items) \subseteq events
      /\ \A e \in Elements(c.items) : e.of = c.of /\ c.filter \in {"all", e.kind}
  <2>1. c.items \in Seq(Matching(c))
    <3>1. CASE c.answer = "ok"
      BY <1>2, <3>1 DEF ReadingFits
    <3>2. CASE c.answer # "ok"
      <4>1. c.items = <<>>
        BY <1>2, <3>2 DEF ReadingFits
      <4>2. QED BY <4>1
    <3>3. QED BY <3>1, <3>2
  <2>2. DOMAIN c.items = 1 .. Len(c.items) /\ \A i \in 1 .. Len(c.items) : c.items[i] \in Matching(c)
    BY <2>1, LenProperties, ElementOfSeq
  <2>3. QED BY <2>2 DEF Elements, Matching
<1>5. LogInv'
  BY <1>1, LogStays DEF ActivityInv, LogInv, ReadingsFit
<1>6. PagesFit'
  <2>1. CASE ActivityAnswered(c)
    <3>1. /\ c.page = "activity" /\ activity' = [activity EXCEPT !.loading = FALSE, !.items = Elements(c.items)]
          /\ UNCHANGED <<home, misplaced>>
      BY <2>1 DEF ActivityAnswered
    <3>2. /\ activity' \in ActivityPages /\ activity'.of = activity.of /\ activity'.filter = activity.filter
          /\ activity'.loading = FALSE /\ activity'.items = Elements(c.items)
      BY <1>3, <1>4, <3>1 DEF ActivityPages
    <3>3. HomeFits(home, at, asks \ {c}, misplaced)
      BY <1>3, <3>1 DEF HomeFits
    <3>4. ActivityFits(activity', at, asks \ {c}, crossed)
      <4>1. ~crossed => \A d \in asks \ {c} : d.page # "activity"
        BY <1>3, <3>1 DEF ActivityFits
      <4>2. ~crossed => c.of = activity.of /\ c.filter = activity.filter
        BY <1>3, <3>1 DEF ActivityFits
      <4>3. at.route = "activity" => activity'.of = at.active
        BY <1>3, <3>2 DEF ActivityFits
      <4>4. ~crossed => \A e \in activity'.items : e.of = activity'.of /\ activity'.filter \in {"all", e.kind}
        BY <1>4, <3>2, <4>2
      <4>5. QED BY <3>2, <4>1, <4>3, <4>4 DEF ActivityFits
    <3>5. at' \in Whereabouts' /\ activity' \in ActivityPages' /\ home' \in HomePages' /\ crossed' \in BOOLEAN
      BY <1>1, <1>3, <3>1, <3>2 DEF Whereabouts, ActivityPages, HomePages, activityServer
    <3>6. QED BY <1>1, <3>1, <3>3, <3>4, <3>5 DEF PagesFit
  <2>2. CASE HomeAnswered(c)
    <3>1. /\ c.page = "home" /\ UNCHANGED activity
          /\ home' = IF ~Meant(c) THEN home
                     ELSE IF c.answer = "ok" THEN [home EXCEPT !.loading = FALSE, !.items = Elements(c.items)]
                     ELSE [home EXCEPT !.loading = FALSE, !.items = {}, !.error = TRUE]
          /\ misplaced' = IF Meant(c) THEN home.of # at.active ELSE misplaced
      BY <2>2 DEF HomeAnswered
    <3>2. home' \in HomePages /\ home'.of = home.of
      BY <1>3, <1>4, <3>1 DEF HomePages
    <3>3. HomeFits(home', at, asks \ {c}, misplaced')
      <4>1. CASE ~Meant(c)
        <5>1. home' = home /\ misplaced' = misplaced /\ c.of # at.active
          BY <3>1, <4>1 DEF Meant
        <5>2. QED BY <1>3, <5>1 DEF HomeFits
      <4>2. CASE Meant(c)
        <5>1. /\ c.of = at.active /\ misplaced' = (home.of # at.active) /\ home'.loading = FALSE
              /\ \A e \in home'.items : e.of = c.of
          BY <1>3, <1>4, <3>1, <4>2 DEF Meant, HomePages
        <5>2. QED BY <1>3, <3>2, <5>1 DEF HomeFits
      <4>3. QED BY <4>1, <4>2
    <3>4. ActivityFits(activity, at, asks \ {c}, crossed)
      BY <1>3, <3>1 DEF ActivityFits
    <3>5. at' \in Whereabouts' /\ activity' \in ActivityPages' /\ home' \in HomePages' /\ crossed' \in BOOLEAN
      BY <1>1, <1>3, <3>1, <3>2 DEF Whereabouts, ActivityPages, HomePages, activityServer
    <3>6. QED BY <1>1, <3>1, <3>3, <3>4, <3>5 DEF PagesFit
  <2>3. QED BY <2>1, <2>2 DEF HandleReading
<1>7. QED BY <1>5, <1>6 DEF ActivityInv

LEMMA ActivityInitially == ActivityInit => ActivityInv
<1> SUFFICES ASSUME ActivityInit PROVE ActivityInv
  OBVIOUS
<1>1. PICK w \in Workspaces :
        /\ at = [route |-> "other", active |-> w]
        /\ activity = [of |-> w, filter |-> "all", loading |-> TRUE, items |-> {}]
        /\ home = [of |-> w, loading |-> TRUE, items |-> {}, error |-> FALSE]
  BY DEF ActivityInit
<1>2. asks = {} /\ crossed = FALSE /\ misplaced = FALSE
  BY DEF ActivityInit
<1>3. at \in Whereabouts /\ activity \in ActivityPages /\ home \in HomePages
  BY <1>1 DEF Whereabouts, ActivityPages, HomePages
<1>4. HomeFits(home, at, asks, misplaced) /\ ActivityFits(activity, at, asks, crossed)
  BY <1>1, <1>2 DEF HomeFits, ActivityFits
<1>5. QED BY <1>2, <1>3, <1>4, LogInitially DEF ActivityInv, PagesFit

LEMMA ActivityStep == ActivityInv /\ [ActivityNext]_activityVars => ActivityInv'
<1> SUFFICES ASSUME ActivityInv, [ActivityNext]_activityVars PROVE ActivityInv'
  OBVIOUS
<1>1. LogInv /\ PagesFit
  BY DEF ActivityInv
<1>2. CASE \E w \in Workspaces : Record(w) \/ StoreResult(w)
  BY <1>1, <1>2, RecordKeeps, StoreResultKeeps, ServerPages DEF ActivityInv
<1>3. CASE Restart_Activity
  BY <1>1, <1>3, RestartKeeps, ServerPages DEF ActivityInv
<1>4. CASE \E c \in asks : Derive(c) \/ Answer(c) \/ FailReading(c)
  BY <1>1, <1>4, DeriveKeeps, AnswerKeeps, FailReadingKeeps, ServerPages DEF ActivityInv
<1>5. CASE GoTo_Activity
  BY <1>5, GoToKeeps
<1>6. CASE SetFilter
  BY <1>6, SetFilterKeeps
<1>7. CASE RetryHome
  BY <1>7, RetryHomeKeeps
<1>8. CASE \E c \in asks : HandleReading(c)
  BY <1>8, HandleReadingKeeps
<1>9. CASE UNCHANGED activityVars
  <2>1. UNCHANGED <<events, log, opened, saved, forgotten, clock, at, activity, home, asks, crossed, misplaced>>
    BY <1>9 DEF activityVars, activityServer
  <2>2. LogInv'
    BY <1>1, <2>1, LogStays DEF LogInv, ReadingsFit, activityServer
  <2>3. PagesFit'
    BY <1>1, <2>1 DEF PagesFit, Whereabouts, ActivityPages, HomePages
  <2>4. QED BY <2>2, <2>3 DEF ActivityInv
<1>10. QED BY <1>2, <1>3, <1>4, <1>5, <1>6, <1>7, <1>8, <1>9 DEF ActivityNext

LEMMA ActivityAlways == ActivitySpec => []ActivityInv
BY ActivityInitially, ActivityStep, PTL DEF ActivitySpec

(* A reading answers with the newest events of the workspace, and leaves   *)
(* out only what is older than a full answer, what was cut since the log   *)
(* holds as many newer ones, and what a restart lost.                      *)
THEOREM ReadingsAreNewest == ActivitySpec => []ReadingIsNewest
<1>1. ActivityInv => ReadingIsNewest
  BY DEF ActivityInv, LogInv, ReadingsFit, ReadingFits, AnswersNewest, ReadingIsNewest
<1>2. QED BY <1>1, ActivityAlways, PTL

(* The home page and the activity page show the active workspace and wait  *)
(* only for a reading that is on its way, however late the answers are.    *)
THEOREM PagesSettle == ActivitySpec => []ActivityPagesSettle
<1>1. ActivityInv => ActivityPagesSettle
  BY DEF ActivityInv, PagesFit, HomeFits, ActivityFits, ActivityPagesSettle
<1>2. QED BY <1>1, ActivityAlways, PTL
-----------------------------------------------------------------------------
(***************************************************************************)
(* DocumentChunks, for texts and sheets of any size and any limits.        *)
(***************************************************************************)
DocumentSpec == DocumentInit /\ [][DocumentNext]_chunkVars

(* A text while it is cut.  The next character is a letter; all letters    *)
(* before it are in the pieces, which are apart, and a word that they cut  *)
(* short is a long one.                                                    *)
Pieces == [from : Nat \ {0}, to : Nat]

Apart(pos, chunks) ==
  \A c \in DOMAIN chunks :
    /\ chunks[c].from <= chunks[c].to
    /\ chunks[c].to < chunks[c].from + TextLimit
    /\ chunks[c].to < pos
    /\ IsLetter(chunks[c].from) /\ IsLetter(chunks[c].to)
    /\ \A d \in DOMAIN chunks : c < d => chunks[c].to < chunks[d].from

InOne(chunks, a, b) == \E c \in DOMAIN chunks : chunks[c].from <= a /\ b <= chunks[c].to
ShortWord(a, b) == a <= b /\ Word(a, b) /\ 2 * (b - a + 1) <= TextLimit

Pieced(pos, chunks) ==
  /\ pos \in 1 .. Len(text) + 1
  /\ chunks \in Seq(Pieces)
  /\ Apart(pos, chunks)
  /\ \A i \in 1 .. pos - 1 : IsLetter(i) => InOne(chunks, i, i)
  /\ \A a, b \in DOMAIN text : ShortWord(a, b) => IF b < pos THEN InOne(chunks, a, b) ELSE pos <= a

Trimmed ==
  text \in Seq({"letter", "space", "line"}) /\ text # <<>> /\ IsLetter(1) /\ IsLetter(Len(text))

TextInv ==
  /\ Trimmed
  /\ Pieced(cutting.at, cutting.chunks)
  /\ cutting.pc = "cutting" => cutting.at <= Len(text) /\ IsLetter(cutting.at)

(* A sheet while it is cut.  The rows that are open follow those that are  *)
(* cited, and fit.                                                         *)
SheetChunks == [from : Nat, to : Nat, rows : Seq(Nat), width : Nat, whole : BOOLEAN]

Run(from, to) == [i \in 1 .. (to - from + 1) |-> from + i - 1]

Cited(chunks, c) ==
  /\ chunks[c].from <= chunks[c].to
  /\ chunks[c].from = IF c = 1 THEN 1 ELSE chunks[c - 1].to + 1
  /\ chunks[c].rows = Run(chunks[c].from, chunks[c].to)
  /\ chunks[c].whole \/ ~Fits(chunks[c].rows)
  /\ chunks[c].width <= SheetLimit \/ PrefixWidth + 2 > SheetLimit

Citing(chunks) == chunks \in Seq(SheetChunks) /\ \A i \in DOMAIN chunks : Cited(chunks, i)

(* The first of the rows that no chunk cites.                              *)
NextCited(chunks) == IF chunks = <<>> THEN 1 ELSE chunks[Len(chunks)].to + 1

Loop(pos, open, start, chunks) ==
  /\ pos \in Nat /\ start \in 1 .. pos
  /\ open = Run(start, pos - 1)
  /\ open # <<>> => Fits(open)
  /\ Citing(chunks)
  /\ start = NextCited(chunks)

SheetInv ==
  /\ matrix \in Matrices
  /\ Loop(cutting.at, cutting.open, cutting.start, cutting.chunks)
  /\ cutting.at <= Rows + 1
  /\ cutting.pc = "cut" => cutting.start = Rows + 1

ChunkInv ==
  /\ cutting \in [pc : {"cutting", "cut"}, at : Nat, open : Seq(Nat), start : Nat,
                  chunks : Seq(Pieces) \cup Seq(SheetChunks)]
  /\ matrix = <<>> => TextInv
  /\ matrix # <<>> => SheetInv

-----------------------------------------------------------------------------
(* The widths of a row have a total.                                       *)
LEMMA TotalIsNumber ==
  ASSUME NEW widths, NEW n \in Nat, widths \in [1 .. n -> Nat]
  PROVE  Total(widths) \in Nat
<1> DEFINE Full(f) == [k \in 0 .. Len(widths) |-> IF k = 0 THEN 0 ELSE f[k - 1] + widths[k]]
           upTo == CHOOSE f : f = Full(f)
           g == [q \in (1 .. n) \X Nat |-> q[2] + widths[q[1]]]
           s0 == 0
<1>1. Len(widths) = n
  OBVIOUS
<1>2. g \in [(1 .. n) \X Nat -> Nat] /\ \A k \in 1 .. n : \A y \in Nat : g[<<k, y>>] = y + widths[k]
  OBVIOUS
<1>3. PICK f \in [0 .. n -> Nat] : f[0] = 0 /\ \A k \in 1 .. n : f[k] = g[<<k, f[k - 1]>>]
  <2>1. s0 \in Nat
    OBVIOUS
  <2> HIDE DEF g, s0
  <2>2. Recursive(Nat, s0, n, g)
    BY <1>2, <2>1, RecursionExists
  <2>3. QED BY <2>2 DEF s0, Recursive
<1>4. \A k \in 1 .. n : f[k] = f[k - 1] + widths[k]
  <2>1. \A k \in 1 .. n : f[k - 1] \in Nat
    BY <1>3
  <2> HIDE DEF g
  <2>2. QED BY <1>2, <1>3, <2>1
<1>5. f = Full(f)
  <2>1. \A k \in 0 .. n : k = 0 \/ k \in 1 .. n
    OBVIOUS
  <2>2. \A k \in 0 .. n : f[k] = IF k = 0 THEN 0 ELSE f[k - 1] + widths[k]
    BY <1>3, <1>4, <2>1
  <2>3. f = [k \in 0 .. n |-> IF k = 0 THEN 0 ELSE f[k - 1] + widths[k]]
    BY <1>3, <2>2
  <2>4. QED BY <1>1, <2>3
<1>6. upTo = Full(upTo)
  <2> HIDE DEF Full
  <2> QED BY <1>5
<1>7. upTo[0] = 0 /\ \A k \in 1 .. n : upTo[k] = upTo[k - 1] + widths[k]
  <2>1. upTo = [k \in 0 .. n |-> IF k = 0 THEN 0 ELSE upTo[k - 1] + widths[k]]
    <3> HIDE DEF upTo
    <3> QED BY <1>1, <1>6
  <2> HIDE DEF upTo, Full
  <2>2. QED BY <2>1
<1> DEFINE T == {k \in Nat : k <= n => upTo[k] \in Nat}
<1> HIDE DEF upTo
<1>8. 0 \in T
  BY <1>7
<1>9. ASSUME NEW k \in Nat, k \in T PROVE k + 1 \in T
  <2> SUFFICES ASSUME k + 1 <= n PROVE upTo[k + 1] \in Nat
    OBVIOUS
  <2>1. k + 1 \in 1 .. n /\ (k + 1) - 1 = k /\ k <= n /\ widths[k + 1] \in Nat
    OBVIOUS
  <2>2. upTo[k] \in Nat /\ upTo[k + 1] = upTo[k] + widths[k + 1]
    BY <1>7, <1>9, <2>1
  <2>3. QED BY <2>1, <2>2
<1>10. \A k \in Nat : k \in T
  <2> HIDE DEF T
  <2> QED BY <1>8, <1>9, Induction
<1>11. upTo[n] \in Nat
  BY <1>10
<1>12. Total(widths) = upTo[n]
  BY <1>1 DEF Total, upTo
<1>13. QED BY <1>11, <1>12

(* Prefix, rows and what is left of a row that is cut have a width.        *)
LEMMA WidthsAreNumbers ==
  ASSUME matrix \in Matrices, matrix # <<>>
  PROVE  /\ Rows \in Nat
         /\ PrefixWidth \in Nat
         /\ Truncated \in Nat
         /\ Truncated <= SheetLimit \/ PrefixWidth + 2 > SheetLimit
         /\ \A rows \in Seq(1 .. Rows) : Content(rows) \in Nat
<1>1. matrix \in Seq(Seq(Nat)) /\ Rows \in Nat
  BY MatricesOfWidths DEF Rows
<1>2. \A k \in DOMAIN matrix : Len(matrix[k]) \in Nat /\ matrix[k] \in [1 .. Len(matrix[k]) -> Nat]
  BY <1>1
<1>3. 1 \in DOMAIN matrix /\ \A r \in 1 .. Rows : r + 1 \in DOMAIN matrix
  BY <1>1 DEF Rows
<1>4. Headers \in [1 .. Len(matrix[1]) -> Nat]
  <2>1. DOMAIN matrix[1] = 1 .. Len(matrix[1]) /\ \A j \in DOMAIN matrix[1] : matrix[1][j] \in Nat
    BY <1>2, <1>3
  <2>2. QED BY <2>1, ChunkBounds DEF Headers
<1>5. Total(Headers) \in Nat
  BY <1>2, <1>3, <1>4, TotalIsNumber
<1>6. SheetLimit \in Nat
  BY ChunkBounds
<1> DEFINE room == SheetLimit - PrefixWidth - 1
<1>7. PrefixWidth \in Nat
  BY <1>5 DEF PrefixWidth
<1>8. Max({1, room}) = IF room > 1 THEN room ELSE 1
  <2>1. room \in Int
    BY <1>6, <1>7
  <2> HIDE DEF room
  <2>2. QED BY <2>1 DEF Max
<1>9. Truncated = PrefixWidth + 1 + Max({1, room})
  BY DEF Truncated
<1>10. \A r \in 1 .. Rows : RowWidth(r) \in Nat
  <2> TAKE r \in 1 .. Rows
  <2>1. Total(matrix[r + 1]) \in Nat
    BY <1>2, <1>3, TotalIsNumber
  <2>2. QED BY <1>5, <2>1 DEF RowWidth
<1>11. \A rows \in Seq(1 .. Rows) : Content(rows) \in Nat
  <2> TAKE rows \in Seq(1 .. Rows)
  <2> DEFINE widths == [i \in DOMAIN rows |-> 1 + RowWidth(rows[i])]
  <2>1. Len(rows) \in Nat /\ widths \in [1 .. Len(rows) -> Nat]
    <3> DEFINE S == 1 .. Rows
    <3> HIDE DEF S
    <3>1. rows \in Seq(S)
      BY DEF S
    <3>2. DOMAIN rows = 1 .. Len(rows) /\ Len(rows) \in Nat /\ \A i \in DOMAIN rows : rows[i] \in S
      BY <3>1
    <3>3. \A i \in DOMAIN rows : 1 + RowWidth(rows[i]) \in Nat
      BY <1>10, <3>2 DEF S
    <3>4. QED BY <3>2, <3>3
  <2> HIDE DEF widths
  <2>2. Total(widths) \in Nat
    BY <2>1, TotalIsNumber
  <2>3. QED BY <1>7, <2>2 DEF Content, widths
<1>12. QED
  <2> HIDE DEF room
  <2>1. Truncated = PrefixWidth + 1 + (IF room > 1 THEN room ELSE 1)
    BY <1>8, <1>9
  <2>2. QED BY <1>1, <1>6, <1>7, <1>11, <2>1 DEF room

-----------------------------------------------------------------------------
(* Sheets.                                                                 *)

LEMMA RunGrows ==
  ASSUME NEW from \in Nat, NEW to \in Nat, from <= to
  PROVE  /\ Run(from, to - 1) \in Seq(Nat) /\ Run(from, to) \in Seq(Nat)
         /\ Len(Run(from, to)) = to - from + 1
         /\ Append(Run(from, to - 1), to) = Run(from, to)
         /\ Run(to, to - 1) = <<>> /\ Run(to, to) = <<to>>
         /\ Run(from, to - 1) = <<>> => from = to
<1>1. to - from \in Nat /\ to - 1 - from + 1 = to - from
  OBVIOUS
<1>2. Run(from, to - 1) = [i \in 1 .. to - from |-> from + i - 1]
  BY <1>1 DEF Run
<1>3. \A i \in 1 .. to - from + 1 : from + i - 1 \in Nat
  OBVIOUS
<1>4. Run(from, to - 1) \in Seq(Nat) /\ Len(Run(from, to - 1)) = to - from
  BY <1>1, <1>2, <1>3
<1>5. Run(from, to) \in Seq(Nat) /\ Len(Run(from, to)) = to - from + 1
  BY <1>1, <1>3 DEF Run
<1>6. Append(Run(from, to - 1), to) = Run(from, to)
  <2> DEFINE s == Append(Run(from, to - 1), to)
  <2>1. s \in Seq(Nat) /\ Len(s) = to - from + 1
    BY <1>4
  <2>2. \A i \in 1 .. to - from + 1 : s[i] = Run(from, to)[i]
    <3> TAKE i \in 1 .. to - from + 1
    <3>1. CASE i = to - from + 1
      BY <1>4, <3>1 DEF Run
    <3>2. CASE i # to - from + 1
      <4>1. i \in 1 .. to - from
        BY <3>2
      <4>2. s[i] = Run(from, to - 1)[i]
        BY <1>4, <4>1
      <4>3. QED BY <1>2, <4>1, <4>2 DEF Run
    <3>3. QED BY <3>1, <3>2
  <2> HIDE DEF s
  <2>3. s = Run(from, to)
    BY <1>5, <2>1, <2>2
  <2>4. QED BY <2>3 DEF s
<1>7. Run(to, to - 1) = <<>>
  BY DEF Run
<1>8. Run(to, to) = <<to>>
  BY DEF Run
<1>9. Run(from, to - 1) = <<>> => from = to
  BY <1>4
<1>10. QED BY <1>4, <1>5, <1>6, <1>7, <1>8, <1>9

(* A chunk that begins with the next row to cite keeps them in order.      *)
LEMMA CitesOn ==
  ASSUME NEW chunks, Citing(chunks), NEW new \in SheetChunks, new.from = NextCited(chunks),
         new.from <= new.to,
         new.rows = Run(new.from, new.to), new.whole \/ ~Fits(new.rows),
         new.width <= SheetLimit \/ PrefixWidth + 2 > SheetLimit
  PROVE  Citing(Append(chunks, new)) /\ NextCited(Append(chunks, new)) = new.to + 1
<1> DEFINE all == Append(chunks, new)
<1>1. chunks \in Seq(SheetChunks) /\ Len(chunks) \in Nat
  BY DEF Citing
<1>2. /\ all \in Seq(SheetChunks) /\ Len(all) = Len(chunks) + 1 /\ all[Len(chunks) + 1] = new
      /\ \A i \in 1 .. Len(chunks) : all[i] = chunks[i]
  BY <1>1
<1> HIDE DEF all
<1>3. chunks = <<>> <=> Len(chunks) = 0
  BY <1>1
<1>4. \A i \in DOMAIN all : i \in 1 .. Len(chunks) \/ i = Len(chunks) + 1
  BY <1>1, <1>2
<1>5. ASSUME NEW i \in 1 .. Len(chunks) PROVE Cited(all, i)
  <2>1. Cited(chunks, i) /\ all[i] = chunks[i]
    BY <1>1, <1>2 DEF Citing
  <2>2. i # 1 => i - 1 \in 1 .. Len(chunks) /\ all[i - 1] = chunks[i - 1]
    BY <1>2
  <2>3. QED BY <2>1, <2>2 DEF Cited
<1>6. Cited(all, Len(chunks) + 1)
  <2>1. new.from = IF Len(chunks) + 1 = 1 THEN 1 ELSE all[Len(chunks) + 1 - 1].to + 1
    <3>1. CASE Len(chunks) = 0
      BY <1>3, <3>1 DEF NextCited
    <3>2. CASE Len(chunks) # 0
      <4>1. Len(chunks) \in 1 .. Len(chunks) /\ Len(chunks) + 1 - 1 = Len(chunks) /\ Len(chunks) + 1 # 1
        BY <1>1, <3>2
      <4>2. QED BY <1>2, <1>3, <3>2, <4>1 DEF NextCited
    <3>3. QED BY <3>1, <3>2
  <2>2. QED BY <1>2, <2>1 DEF Cited
<1>7. Citing(all)
  BY <1>2, <1>4, <1>5, <1>6 DEF Citing
<1>8. NextCited(all) = new.to + 1
  <2>1. all # <<>>
    BY <1>1, <1>2
  <2>2. QED BY <1>1, <1>2, <2>1 DEF NextCited
<1>9. QED BY <1>7, <1>8 DEF all

Cut(pc, pos, open, start, chunks) ==
  [pc |-> pc, at |-> pos, open |-> open, start |-> start, chunks |-> chunks]

(* pushChunk leaves no row open, and cites those that were.                *)
LEMMA PushedCites ==
  ASSUME matrix \in Matrices, matrix # <<>>, NEW pos, NEW open, NEW start, NEW chunks,
         Loop(pos, open, start, chunks), pos <= Rows + 1
  PROVE  \E more : /\ Citing(more) /\ NextCited(more) = pos
                   /\ \A pc : Pushed(Cut(pc, pos, open, start, chunks), pos - 1) = Cut(pc, pos, <<>>, pos, more)
<1>1. pos \in Nat /\ start \in 1 .. pos /\ start \in Nat /\ start <= pos
  BY DEF Loop
<1>2. /\ Run(start, pos - 1) \in Seq(Nat)
      /\ Run(start, pos - 1) = <<>> => start = pos
  BY <1>1, RunGrows
<1>3. Rows \in Nat /\ \A rows \in Seq(1 .. Rows) : Content(rows) \in Nat
  BY WidthsAreNumbers
<1>4. CASE open = <<>>
  <2>1. start = pos
    BY <1>2, <1>4 DEF Loop
  <2>2. \A pc : Pushed(Cut(pc, pos, open, start, chunks), pos - 1) = Cut(pc, pos, <<>>, pos, chunks)
    BY <1>4, <2>1 DEF Pushed, Cut
  <2>3. QED BY <2>1, <2>2 DEF Loop
<1>5. CASE open # <<>>
  <2> DEFINE new == Chunk(start, pos - 1, open, Content(open), TRUE)
  <2>1. pos - 1 + 1 = pos /\ pos - 1 \in Nat
    BY <1>1
  <2>2. \A pc : Pushed(Cut(pc, pos, open, start, chunks), pos - 1) = Cut(pc, pos, <<>>, pos, Append(chunks, new))
    BY <1>5, <2>1 DEF Pushed, Cut
  <2>3. open \in Seq(1 .. Rows)
    <3>1. pos - 1 - start + 1 = pos - start /\ pos - start \in Nat
      BY <1>1
    <3>2. \A i \in 1 .. pos - start : start + i - 1 \in 1 .. Rows
      BY <1>1, <1>3
    <3>3. open = [i \in 1 .. pos - start |-> start + i - 1]
      BY <3>1 DEF Loop, Run
    <3> DEFINE S == 1 .. Rows
               n == pos - start
    <3>4. n \in Nat /\ open = [i \in 1 .. n |-> start + i - 1] /\ \A i \in 1 .. n : start + i - 1 \in S
      BY <3>1, <3>2, <3>3
    <3> HIDE DEF S, n
    <3>5. open \in Seq(S)
      BY <3>4
    <3>6. QED BY <3>5 DEF S
  <2>4. Content(open) \in Nat
    BY <1>3, <2>3
  <2>5. new \in SheetChunks
    BY <1>1, <1>2, <2>1, <2>4 DEF Chunk, SheetChunks, Loop
  <2>6. /\ new.from = NextCited(chunks) /\ new.rows = Run(new.from, new.to) /\ new.whole
        /\ new.width <= SheetLimit /\ new.to = pos - 1 /\ new.from <= new.to
    <3>1. start # pos
      BY <1>1, <1>5, RunGrows DEF Loop
    <3>2. start <= pos - 1
      BY <1>1, <3>1
    <3>3. QED BY <1>5, <3>2 DEF Loop, Chunk, Fits
  <2>7. Citing(chunks)
    BY DEF Loop
  <2> HIDE DEF new
  <2>8. Citing(Append(chunks, new)) /\ NextCited(Append(chunks, new)) = new.to + 1
    BY <2>5, <2>6, <2>7, CitesOn
  <2>9. QED BY <2>1, <2>2, <2>6, <2>8
<1>6. QED BY <1>4, <1>5

(* A row that is placed keeps the loop as it is said to be.                *)
PlacesOn(pc, pos, open, start, chunks) ==
  \E o, s, m :
    /\ Loop(pos + 1, o, s, m)
    /\ [Placed(Cut(pc, pos, open, start, chunks), pos) EXCEPT !.at = @ + 1] = Cut(pc, pos + 1, o, s, m)

LEMMA PlacedCites ==
  ASSUME matrix \in Matrices, matrix # <<>>, NEW pc, NEW pos, NEW open, NEW start, NEW chunks,
         Loop(pos, open, start, chunks), pos <= Rows
  PROVE  PlacesOn(pc, pos, open, start, chunks)
<1> DEFINE c == Cut(pc, pos, open, start, chunks)
           d == [Placed(c, pos) EXCEPT !.at = @ + 1]
<1>1. pos \in Nat /\ start \in 1 .. pos /\ start \in Nat /\ start <= pos /\ pos \in 1 .. pos
  BY DEF Loop
<1>2. Append(Run(start, pos - 1), pos) = Run(start, pos) /\ Run(pos, pos) = <<pos>>
  BY <1>1, RunGrows
<1>3. Run(pos + 1, pos) = <<>>
  BY <1>1 DEF Run
<1>4. pos + 1 - 1 = pos /\ pos + 1 \in Nat /\ pos \in 1 .. pos + 1 /\ pos + 1 \in 1 .. pos + 1 /\ start \in 1 .. pos + 1
  BY <1>1
<1>5. c.open = open
  BY DEF Cut
<1> HIDE DEF c
<1>6. CASE Fits(Append(open, pos))
  <2>1. Placed(c, pos) = [c EXCEPT !.open = Append(@, pos)]
    BY <1>5, <1>6 DEF Placed
  <2>2. d = Cut(pc, pos + 1, Append(open, pos), start, chunks)
    BY <2>1 DEF c, Cut
  <2>3. Append(open, pos) = Run(start, pos)
    BY <1>2 DEF Loop
  <2>4. Loop(pos + 1, Append(open, pos), start, chunks)
    BY <1>4, <1>6, <2>3 DEF Loop
  <2> HIDE DEF d
  <2>5. QED BY <2>2, <2>4 DEF d, c, PlacesOn
<1>7. CASE ~Fits(Append(open, pos))
  <2> DEFINE p == Pushed(c, pos - 1)
  <2>1. PICK more : Citing(more) /\ NextCited(more) = pos /\ p = Cut(pc, pos, <<>>, pos, more)
    <3>1. Rows \in Nat /\ pos <= Rows + 1
      BY <1>1, WidthsAreNumbers
    <3>2. QED BY <3>1, PushedCites DEF c
  <2> HIDE DEF p
  <2>2. CASE Fits(<<pos>>)
    <3>1. Placed(c, pos) = [p EXCEPT !.open = <<pos>>, !.start = pos]
      BY <1>5, <1>7, <2>2 DEF Placed, p
    <3>2. Placed(c, pos) = Cut(pc, pos, <<pos>>, pos, more)
      BY <2>1, <3>1 DEF Cut
    <3>3. d = Cut(pc, pos + 1, <<pos>>, pos, more)
      BY <3>2 DEF Cut
    <3>4. Loop(pos + 1, <<pos>>, pos, more)
      BY <1>2, <1>4, <2>1, <2>2 DEF Loop
    <3> HIDE DEF d
    <3>5. QED BY <3>3, <3>4 DEF d, c, PlacesOn
  <2>3. CASE ~Fits(<<pos>>)
    <3> DEFINE new == Chunk(pos, pos, <<pos>>, Truncated, FALSE)
    <3>1. Placed(c, pos) = [p EXCEPT !.start = pos + 1, !.chunks = Append(@, new)]
      BY <1>5, <1>7, <2>3 DEF Placed, p
    <3>2. d = Cut(pc, pos + 1, <<>>, pos + 1, Append(more, new))
      <4> DEFINE longer == Append(more, new)
      <4> HIDE DEF new
      <4>1. Placed(c, pos) = Cut(pc, pos, <<>>, pos + 1, longer)
        BY <2>1, <3>1 DEF Cut
      <4> HIDE DEF longer
      <4>2. d = Cut(pc, pos + 1, <<>>, pos + 1, longer)
        BY <4>1 DEF Cut
      <4>3. QED BY <4>2 DEF longer
    <3>3. Truncated \in Nat /\ (Truncated <= SheetLimit \/ PrefixWidth + 2 > SheetLimit)
      BY WidthsAreNumbers
    <3>4. new \in SheetChunks
      BY <1>1, <3>3 DEF Chunk, SheetChunks
    <3>5. /\ new.from = NextCited(more) /\ new.rows = Run(new.from, new.to) /\ ~Fits(new.rows)
          /\ new.width <= SheetLimit \/ PrefixWidth + 2 > SheetLimit
          /\ new.to = pos /\ new.from <= new.to
      BY <1>1, <1>2, <2>1, <2>3, <3>3 DEF Chunk
    <3> HIDE DEF new
    <3>6. Citing(Append(more, new)) /\ NextCited(Append(more, new)) = pos + 1
      BY <2>1, <3>4, <3>5, CitesOn
    <3>7. Loop(pos + 1, <<>>, pos + 1, Append(more, new))
      BY <1>3, <1>4, <3>6 DEF Loop
    <3> HIDE DEF d
    <3>8. QED BY <3>2, <3>7 DEF d, c, PlacesOn
  <2>4. QED BY <2>2, <2>3
<1>8. QED BY <1>6, <1>7

(* The end of a sheet cites the rows that are open.                        *)
EndsOn(pc, pos, open, start, chunks) ==
  \E m : /\ Loop(pos, <<>>, pos, m)
         /\ Pushed(Cut(pc, pos, open, start, chunks), start + Len(open) - 1) = Cut(pc, pos, <<>>, pos, m)

LEMMA EndCites ==
  ASSUME matrix \in Matrices, matrix # <<>>, NEW pc, NEW pos, NEW open, NEW start, NEW chunks,
         Loop(pos, open, start, chunks), pos <= Rows + 1
  PROVE  EndsOn(pc, pos, open, start, chunks)
<1>1. pos \in Nat /\ start \in 1 .. pos /\ start \in Nat /\ start <= pos /\ pos \in 1 .. pos
  BY DEF Loop
<1>2. PICK m : /\ Citing(m) /\ NextCited(m) = pos
               /\ \A c : Pushed(Cut(c, pos, open, start, chunks), pos - 1) = Cut(c, pos, <<>>, pos, m)
  BY PushedCites
<1>3. start + Len(open) - 1 = pos - 1
  <2>1. pos - 1 - start + 1 = pos - start /\ pos - start \in Nat
    BY <1>1
  <2>2. \A i \in 1 .. pos - start : start + i - 1 \in Nat
    BY <1>1
  <2>3. Len(open) = pos - start
    BY <2>1, <2>2 DEF Loop, Run
  <2>4. QED BY <1>1, <2>3
<1>4. Run(pos, pos - 1) = <<>>
  BY <1>1 DEF Run
<1>5. Loop(pos, <<>>, pos, m)
  BY <1>1, <1>2, <1>4 DEF Loop
<1>6. Pushed(Cut(pc, pos, open, start, chunks), start + Len(open) - 1) = Cut(pc, pos, <<>>, pos, m)
  BY <1>2, <1>3
<1>7. QED BY <1>5, <1>6 DEF EndsOn

(* What is said of a sheet is about the same sheet after a step.           *)
LEMMA SheetStays ==
  ASSUME matrix' = matrix
  PROVE  /\ Rows' = Rows
         /\ \A pos, open, start, chunks : Loop(pos, open, start, chunks)' <=> Loop(pos, open, start, chunks)
<1>1. Rows' = Rows
  BY DEF Rows
<1>2. Headers' = Headers
  BY DEF Headers, HeadersAreGiven
<1>3. PrefixWidth' = PrefixWidth
  BY <1>2 DEF PrefixWidth
<1>4. \A r : RowWidth(r)' = RowWidth(r)
  BY <1>2 DEF RowWidth
<1>5. \A rows : Content(rows)' = Content(rows)
  <2> TAKE rows
  <2>1. [i \in DOMAIN rows |-> 1 + RowWidth(rows[i])]' = [i \in DOMAIN rows |-> 1 + RowWidth(rows[i])]
    BY <1>2 DEF RowWidth
  <2>2. QED BY <1>3, <2>1 DEF Content
<1>6. \A rows : Fits(rows)' <=> Fits(rows)
  BY <1>5 DEF Fits
<1>7. \A chunks, c : Cited(chunks, c)' <=> Cited(chunks, c)
  BY <1>3, <1>6 DEF Cited
<1>8. QED BY <1>1, <1>6, <1>7 DEF Loop, Citing

-----------------------------------------------------------------------------
(* Texts.                                                                  *)

LEMMA MaxIs ==
  ASSUME NEW T, T \subseteq Nat, T # {}, NEW b \in Nat, \A m \in T : m <= b
  PROVE  Max(T) \in T /\ \A m \in T : m <= Max(T)
<1>1. PICK n \in T : \A m \in T : m <= n
  BY GreatestNumber
<1>2. n \in T /\ \A m \in T : n >= m
  BY <1>1
<1>3. Max(T) \in T /\ \A m \in T : Max(T) >= m
  BY <1>2 DEF Max
<1>4. QED BY <1>3

LEMMA MinIs ==
  ASSUME NEW T, T \subseteq Nat, T # {}
  PROVE  Min(T) \in T /\ \A m \in T : Min(T) <= m
<1>1. PICK n \in T : \A m \in T : n <= m
  BY SmallestNumber
<1>2. QED BY <1>1 DEF Min

(* A text is cut at a break, or after as much as the limit allows, which   *)
(* no break is near.                                                       *)
LEMMA SplitIs ==
  ASSUME Trimmed, cutting.at \in 1 .. Len(text), Len(text) - cutting.at + 1 > TextLimit
  PROVE  /\ SplitAt \in 1 .. TextLimit
         /\ IsLetter(cutting.at + SplitAt) =>
              /\ SplitAt = TextLimit
              /\ \A j \in 1 .. TextLimit : IsLetter(cutting.at + j) \/ 2 * j < TextLimit
<1> DEFINE pos == cutting.at
           ps == {0} \cup {k \in 1 .. TextLimit : pos + k <= Len(text) /\ IsParagraph(pos + k)}
           ls == {0} \cup {k \in 1 .. TextLimit : pos + k <= Len(text) /\ IsLine(pos + k)}
           ss == {0} \cup {k \in 1 .. TextLimit : pos + k <= Len(text) /\ IsSpace(pos + k)}
           k == IF 2 * Max(ps) >= TextLimit THEN Max(ps)
                ELSE IF 2 * Max(ls) >= TextLimit THEN Max(ls) ELSE Max(ss)
<1>1. TextLimit \in Nat /\ TextLimit # 0
  BY ChunkBounds
<1>2. SplitAt = IF k = 0 THEN TextLimit ELSE k
  BY DEF SplitAt, Found_Before, Half_Reached
<1>3. /\ text \in [1 .. Len(text) -> {"letter", "space", "line"}] /\ Len(text) \in Nat
      /\ pos \in 1 .. Len(text)
  BY DEF Trimmed
<1> HIDE DEF pos
<1>4. /\ Max(ps) \in ps /\ \A m \in ps : m <= Max(ps)
      /\ Max(ls) \in ls /\ \A m \in ls : m <= Max(ls)
      /\ Max(ss) \in ss /\ \A m \in ss : m <= Max(ss)
  <2>1. /\ ps \subseteq Nat /\ ps # {} /\ \A m \in ps : m <= TextLimit
        /\ ls \subseteq Nat /\ ls # {} /\ \A m \in ls : m <= TextLimit
        /\ ss \subseteq Nat /\ ss # {} /\ \A m \in ss : m <= TextLimit
    BY <1>1
  <2> HIDE DEF ps, ls, ss
  <2>2. QED BY <1>1, <2>1, MaxIs
<1>5. \A m : /\ m \in ps /\ m # 0 => m \in 1 .. TextLimit /\ ~IsLetter(pos + m)
             /\ m \in ls /\ m # 0 => m \in 1 .. TextLimit /\ ~IsLetter(pos + m)
             /\ m \in ss /\ m # 0 => m \in 1 .. TextLimit /\ ~IsLetter(pos + m)
  BY <1>3 DEF IsParagraph, IsLine, IsSpace, IsLetter
<1>6. \A j \in 1 .. TextLimit : IsLetter(pos + j) \/ j \in ls \/ j \in ss
  <2> TAKE j \in 1 .. TextLimit
  <2>1. pos + j \in 1 .. Len(text) /\ pos + j <= Len(text)
    BY <1>1, <1>3 DEF pos
  <2>2. IsLetter(pos + j) \/ IsLine(pos + j) \/ IsSpace(pos + j)
    BY <1>3, <2>1 DEF IsLetter, IsLine, IsSpace
  <2>3. QED BY <2>1, <2>2
<1>7. /\ Max(ps) = 0 \/ Max(ps) \in 1 .. TextLimit
      /\ Max(ls) = 0 \/ Max(ls) \in 1 .. TextLimit
      /\ Max(ss) = 0 \/ Max(ss) \in 1 .. TextLimit
  <2> HIDE DEF ps, ls, ss
  <2> QED BY <1>4, <1>5
<1>8. CASE k # 0
  <2> HIDE DEF ps, ls, ss
  <2>1. k \in 1 .. TextLimit /\ ~IsLetter(pos + k)
    BY <1>4, <1>5, <1>7, <1>8
  <2> HIDE DEF k
  <2>2. QED BY <1>2, <1>8, <2>1 DEF pos
<1>9. CASE k = 0
  <2> HIDE DEF ps, ls, ss
  <2>1. Max(ss) = 0 /\ 2 * Max(ls) < TextLimit
    BY <1>1, <1>7, <1>9
  <2>2. \A j \in 1 .. TextLimit : IsLetter(pos + j) \/ 2 * j < TextLimit
    <3> TAKE j \in 1 .. TextLimit
    <3>1. j \in ss => FALSE
      BY <1>4, <2>1
    <3>2. j \in ls => 2 * j < TextLimit
      BY <1>1, <1>4, <1>7, <2>1
    <3>3. QED BY <1>6, <3>1, <3>2
  <2>3. SplitAt = TextLimit
    BY <1>2, <1>9
  <2>4. QED BY <1>1, <2>2, <2>3 DEF pos
<1>10. QED BY <1>8, <1>9

(* What is trimmed off at a cut are no letters.                            *)
LEMMA TrimmedOff ==
  ASSUME Trimmed, NEW pos \in 1 .. Len(text), IsLetter(pos), NEW i \in 1 .. Len(text), pos < i
  PROVE  /\ LastLetter(i - 1) \in pos .. i - 1 /\ IsLetter(LastLetter(i - 1))
         /\ NextLetter(i) \in i .. Len(text) /\ IsLetter(NextLetter(i))
         /\ \A j \in 1 .. Len(text) : LastLetter(i - 1) < j /\ j < NextLetter(i) => ~IsLetter(j)
<1> DEFINE before == {0} \cup {j \in 1 .. i - 1 : IsLetter(j)}
           after == {Len(text) + 1} \cup {j \in i .. Len(text) : IsLetter(j)}
<1>1. Len(text) \in Nat /\ Len(text) \in 1 .. Len(text) /\ IsLetter(Len(text))
  BY DEF Trimmed
<1>2. LastLetter(i - 1) = Max(before) /\ NextLetter(i) = Min(after)
  BY DEF LastLetter, NextLetter
<1>3. pos \in before /\ Len(text) \in after
  BY <1>1
<1>4. Max(before) \in before /\ \A m \in before : m <= Max(before)
  <2>1. before \subseteq Nat /\ before # {} /\ i \in Nat /\ \A m \in before : m <= i
    OBVIOUS
  <2> HIDE DEF before
  <2>2. QED BY <2>1, MaxIs
<1>5. Min(after) \in after /\ \A m \in after : Min(after) <= m
  <2>1. after \subseteq Nat /\ after # {}
    BY <1>1
  <2> HIDE DEF after
  <2>2. QED BY <2>1, MinIs
<1> DEFINE last == Max(before)
           next == Min(after)
<1>6. last \in before /\ \A m \in before : m <= last
  BY <1>4
<1>7. next \in after /\ \A m \in after : next <= m
  BY <1>5
<1> HIDE DEF last, next
<1>8. last \in pos .. i - 1 /\ IsLetter(last)
  BY <1>3, <1>6
<1>9. next \in i .. Len(text) /\ IsLetter(next)
  BY <1>1, <1>3, <1>7
<1>10. \A j \in 1 .. Len(text) : last < j /\ j < next => ~IsLetter(j)
  <2> SUFFICES ASSUME NEW j \in 1 .. Len(text), last < j, j < next, IsLetter(j) PROVE FALSE
    OBVIOUS
  <2>1. j \in before \/ j \in after
    OBVIOUS
  <2> HIDE DEF before, after
  <2>2. QED BY <1>6, <1>7, <1>8, <1>9, <2>1
<1>11. QED BY <1>2, <1>8, <1>9, <1>10 DEF last, next

(* A piece from the next letter on, with no letter between it and the new  *)
(* next one and no short word beyond.                                      *)
LEMMA PieceKept ==
  ASSUME Trimmed, NEW pos \in 1 .. Len(text), NEW chunks, Pieced(pos, chunks), IsLetter(pos),
         NEW to \in pos .. Len(text), IsLetter(to), to < pos + TextLimit,
         NEW next \in 1 .. Len(text) + 1, to < next,
         \A j \in 1 .. Len(text) : to < j /\ j < next => ~IsLetter(j),
         \A a, b \in 1 .. Len(text) : ShortWord(a, b) /\ pos <= a /\ a < next => b < next
  PROVE  Pieced(next, Append(chunks, Piece(pos, to)))
<1> DEFINE all == Append(chunks, Piece(pos, to))
           n == Len(chunks)
<1>1. Len(text) \in Nat /\ DOMAIN text = 1 .. Len(text) /\ TextLimit \in Nat
  BY ChunkBounds DEF Trimmed
<1>2. chunks \in Seq(Pieces) /\ n \in Nat /\ DOMAIN chunks = 1 .. n
  BY DEF Pieced
<1>3. Piece(pos, to) \in Pieces /\ Piece(pos, to).from = pos /\ Piece(pos, to).to = to
  BY DEF Piece, Pieces
<1>4. /\ all \in Seq(Pieces) /\ DOMAIN all = 1 .. n + 1
      /\ all[n + 1].from = pos /\ all[n + 1].to = to
      /\ \A c \in 1 .. n : all[c] = chunks[c]
  <2> DEFINE new == Piece(pos, to)
  <2> HIDE DEF new
  <2>1. new \in Pieces /\ all = Append(chunks, new)
    BY <1>3 DEF new
  <2>2. /\ all \in Seq(Pieces) /\ DOMAIN all = 1 .. n + 1 /\ all[n + 1] = new
        /\ \A c \in 1 .. n : all[c] = chunks[c]
    BY <1>2, <2>1
  <2>3. QED BY <1>3, <2>2 DEF new
<1>5. \A c \in 1 .. n + 1 : c \in 1 .. n \/ c = n + 1
  BY <1>2
<1>6. \A c \in 1 .. n : /\ chunks[c].from \in Nat /\ chunks[c].to \in Nat
                        /\ chunks[c].from <= chunks[c].to /\ chunks[c].to < chunks[c].from + TextLimit
                        /\ chunks[c].to < pos
                        /\ IsLetter(chunks[c].from) /\ IsLetter(chunks[c].to)
                        /\ \A d \in 1 .. n : c < d => chunks[c].to < chunks[d].from
  <2> TAKE c \in 1 .. n
  <2>1. chunks[c] \in Pieces
    BY <1>2
  <2>2. chunks[c].from \in Nat /\ chunks[c].to \in Nat
    BY <2>1 DEF Pieces
  <2>3. Apart(pos, chunks)
    BY DEF Pieced
  <2>4. QED BY <1>2, <2>2, <2>3 DEF Apart
<1> HIDE DEF all, n
<1>7. Apart(next, all)
  <2>1. ASSUME NEW c \in 1 .. n
        PROVE  /\ all[c].from <= all[c].to /\ all[c].to < all[c].from + TextLimit
               /\ all[c].to < next
               /\ IsLetter(all[c].from) /\ IsLetter(all[c].to)
               /\ \A d \in 1 .. n + 1 : c < d => all[c].to < all[d].from
    <3>1. all[c] = chunks[c] /\ \A d \in 1 .. n : all[d] = chunks[d]
      BY <1>4
    <3>2. chunks[c].to < next
      BY <1>6
    <3>3. \A d \in 1 .. n + 1 : c < d => all[c].to < all[d].from
      BY <1>4, <1>5, <1>6, <3>1
    <3>4. QED BY <1>6, <3>1, <3>2, <3>3
  <2>2. /\ all[n + 1].from <= all[n + 1].to /\ all[n + 1].to < all[n + 1].from + TextLimit
        /\ all[n + 1].to < next
        /\ IsLetter(all[n + 1].from) /\ IsLetter(all[n + 1].to)
        /\ \A d \in 1 .. n + 1 : ~ (n + 1 < d)
    BY <1>2, <1>4
  <2>3. QED BY <1>4, <1>5, <2>1, <2>2 DEF Apart
<1>8. ASSUME NEW a, NEW b, InOne(chunks, a, b)
      PROVE  InOne(all, a, b)
  <2>1. PICK c \in 1 .. n : chunks[c].from <= a /\ b <= chunks[c].to
    BY <1>2, <1>8 DEF InOne
  <2>2. c \in DOMAIN all /\ all[c] = chunks[c]
    BY <1>2, <1>4
  <2>3. QED BY <2>1, <2>2 DEF InOne
<1>9. ASSUME NEW a, NEW b, pos <= a, b <= to
      PROVE  InOne(all, a, b)
  <2>1. n + 1 \in DOMAIN all
    BY <1>2, <1>4
  <2>2. QED BY <1>4, <1>9, <2>1 DEF InOne
<1>10. \A i \in 1 .. next - 1 : IsLetter(i) => InOne(all, i, i)
  <2> SUFFICES ASSUME NEW i \in 1 .. next - 1, IsLetter(i) PROVE InOne(all, i, i)
    OBVIOUS
  <2>1. CASE i < pos
    <3>1. i \in 1 .. pos - 1
      BY <2>1
    <3>2. InOne(chunks, i, i)
      BY <3>1 DEF Pieced
    <3>3. QED BY <1>8, <3>2
  <2>2. CASE pos <= i
    <3>1. i \in 1 .. Len(text) /\ i < next
      BY <1>1
    <3>2. i <= to
      BY <3>1
    <3>3. QED BY <1>9, <2>2, <3>2
  <2>3. QED BY <2>1, <2>2
<1>11. \A a, b \in DOMAIN text : ShortWord(a, b) => IF b < next THEN InOne(all, a, b) ELSE next <= a
  <2> SUFFICES ASSUME NEW a \in 1 .. Len(text), NEW b \in 1 .. Len(text), ShortWord(a, b)
               PROVE  IF b < next THEN InOne(all, a, b) ELSE next <= a
    BY <1>1
  <2>1. IF b < pos THEN InOne(chunks, a, b) ELSE pos <= a
    BY <1>1 DEF Pieced
  <2>2. CASE b < pos
    <3>1. InOne(all, a, b) /\ b < next
      BY <1>8, <2>1, <2>2
    <3>2. QED BY <3>1
  <2>3. CASE ~ (b < pos)
    <3>1. pos <= a /\ a <= b
      BY <2>1, <2>3 DEF ShortWord
    <3>2. CASE b < next
      <4>1. IsLetter(b)
        BY <3>1 DEF ShortWord, Word
      <4>2. b <= to
        BY <3>2, <4>1
      <4>3. QED BY <1>9, <3>1, <3>2, <4>2
    <3>3. CASE ~ (b < next)
      <4>1. ~ (a < next)
        BY <3>1, <3>3
      <4>2. QED BY <3>3, <4>1
    <3>4. QED BY <3>2, <3>3
  <2>4. QED BY <2>2, <2>3
<1>12. next \in 1 .. Len(text) + 1
  OBVIOUS
<1>13. QED BY <1>4, <1>7, <1>10, <1>11, <1>12 DEF Pieced, all

(* What is said of a text is about the same text after a step.             *)
LEMMA TextStays ==
  ASSUME text' = text
  PROVE  /\ Trimmed' <=> Trimmed
         /\ \A i : IsLetter(i)' <=> IsLetter(i)
         /\ \A pos, chunks : Pieced(pos, chunks)' <=> Pieced(pos, chunks)
<1>1. \A i : IsLetter(i)' <=> IsLetter(i)
  BY DEF IsLetter
<1>2. Trimmed' <=> Trimmed
  BY DEF Trimmed, IsLetter
<1>3. \A a, b : ShortWord(a, b)' <=> ShortWord(a, b)
  BY DEF ShortWord, Word, IsLetter
<1>4. \A pos, chunks : Apart(pos, chunks)' <=> Apart(pos, chunks)
  BY DEF Apart, IsLetter
<1>5. QED BY <1>1, <1>2, <1>3, <1>4 DEF Pieced, InOne

(* The round of chunkText keeps the pieces as they are said to be.         *)
LEMMA CutKeeps ==
  ASSUME Trimmed, NEW pos, pos = cutting.at, NEW chunks, Pieced(pos, chunks), pos <= Len(text), IsLetter(pos)
  PROVE  IF Len(text) - pos + 1 <= TextLimit
         THEN Pieced(Len(text) + 1, Append(chunks, Piece(pos, Len(text))))
         ELSE LET next == NextLetter(pos + SplitAt)
                  to == LastLetter(pos + SplitAt - 1)
              IN  /\ Pieced(next, Append(chunks, Piece(pos, to)))
                  /\ next <= Len(text) /\ IsLetter(next)
<1>1. Len(text) \in Nat /\ Len(text) \in 1 .. Len(text) /\ IsLetter(Len(text)) /\ TextLimit \in Nat
  BY ChunkBounds DEF Trimmed
<1>2. pos \in 1 .. Len(text)
  BY DEF Pieced
<1>3. CASE Len(text) - pos + 1 <= TextLimit
  <2> DEFINE to == Len(text)
             next == Len(text) + 1
  <2>1. /\ to \in pos .. Len(text) /\ IsLetter(to) /\ to < pos + TextLimit
        /\ next \in 1 .. Len(text) + 1 /\ to < next
        /\ \A j \in 1 .. Len(text) : to < j /\ j < next => ~IsLetter(j)
        /\ \A a, b \in 1 .. Len(text) : ShortWord(a, b) /\ pos <= a /\ a < next => b < next
    BY <1>1, <1>2, <1>3
  <2> HIDE DEF to, next
  <2>2. Pieced(next, Append(chunks, Piece(pos, to)))
    BY <1>2, <2>1, PieceKept
  <2>3. QED BY <1>3, <2>2 DEF to, next
<1>4. CASE ~ (Len(text) - pos + 1 <= TextLimit)
  <2> DEFINE k == SplitAt
             next == NextLetter(pos + k)
             to == LastLetter(pos + k - 1)
  <2>1. Len(text) - cutting.at + 1 > TextLimit /\ cutting.at \in 1 .. Len(text)
    BY <1>1, <1>2, <1>4
  <2>2. /\ k \in 1 .. TextLimit
        /\ IsLetter(pos + k) =>
             k = TextLimit /\ \A j \in 1 .. TextLimit : IsLetter(pos + j) \/ 2 * j < TextLimit
    BY <2>1, SplitIs
  <2> HIDE DEF k
  <2>3. pos + k \in 1 .. Len(text) /\ pos < pos + k
    BY <1>1, <1>2, <1>4, <2>2
  <2> DEFINE i == pos + k
  <2>4. i \in 1 .. Len(text) /\ pos < i
    BY <2>3
  <2> HIDE DEF i
  <2>5. /\ LastLetter(i - 1) \in pos .. i - 1 /\ IsLetter(LastLetter(i - 1))
        /\ NextLetter(i) \in i .. Len(text) /\ IsLetter(NextLetter(i))
        /\ \A j \in 1 .. Len(text) : LastLetter(i - 1) < j /\ j < NextLetter(i) => ~IsLetter(j)
    BY <1>2, <2>4, TrimmedOff
  <2>6. /\ to \in pos .. pos + k - 1 /\ IsLetter(to)
        /\ next \in pos + k .. Len(text) /\ IsLetter(next)
        /\ \A j \in 1 .. Len(text) : to < j /\ j < next => ~IsLetter(j)
    <3>1. i - 1 = pos + k - 1
      BY <1>2, <2>2 DEF i
    <3>2. to = LastLetter(i - 1) /\ next = NextLetter(i)
      BY <3>1 DEF i
    <3> HIDE DEF to, next
    <3>3. QED BY <2>5, <3>1, <3>2 DEF i
  <2> HIDE DEF to, next
  <2>7. /\ to \in pos .. Len(text) /\ to < pos + TextLimit /\ to < next
        /\ next \in 1 .. Len(text) + 1
    BY <1>1, <1>2, <2>2, <2>3, <2>6
  <2>8. ASSUME NEW a \in 1 .. Len(text), NEW b \in 1 .. Len(text),
               ShortWord(a, b), pos <= a, a < next, ~ (b < next)
        PROVE  FALSE
    <3>1. /\ a <= b /\ 2 * (b - a + 1) <= TextLimit
          /\ \A j \in a .. b : IsLetter(j)
          /\ a = 1 \/ ~IsLetter(a - 1)
      BY <2>8 DEF ShortWord, Word
    <3>2. next = pos + k
      <4> SUFFICES ASSUME pos + k < next PROVE FALSE
        BY <1>2, <2>2, <2>6
      <4>1. next - 1 \in 1 .. Len(text) /\ to < next - 1 /\ next - 1 < next /\ next - 1 \in a .. b
        BY <1>1, <1>2, <2>2, <2>6, <2>8
      <4>2. ~IsLetter(next - 1)
        BY <2>6, <4>1
      <4>3. QED BY <3>1, <4>1, <4>2
    <3>3. k = TextLimit /\ \A j \in 1 .. TextLimit : IsLetter(pos + j) \/ 2 * j < TextLimit
      BY <2>2, <2>6, <3>2
    <3>4. CASE a = pos
      BY <1>1, <1>2, <2>2, <2>8, <3>1, <3>2, <3>3, <3>4
    <3>5. CASE a # pos
      <4> DEFINE j == a - 1 - pos
      <4>1. pos + j = a - 1 /\ a # 1
        BY <1>2, <2>8, <3>5
      <4>2. ~IsLetter(pos + j)
        BY <3>1, <4>1
      <4>3. j # 0
        <5>1. ~IsLetter(a - 1)
          BY <3>1, <4>1
        <5>2. a - 1 # pos
          BY <5>1
        <5>3. QED BY <1>2, <5>2
      <4>4. j \in 1 .. TextLimit
        BY <1>1, <1>2, <2>8, <3>2, <3>3, <3>5, <4>3
      <4>5. 2 * j < TextLimit
        BY <3>3, <4>2, <4>4
      <4>6. b - a + 1 >= TextLimit - j
        BY <1>1, <1>2, <2>8, <3>2, <3>3
      <4>7. 2 * (b - a + 1) >= 2 * (TextLimit - j)
        BY <1>1, <4>4, <4>6
      <4>8. QED BY <1>1, <3>1, <4>4, <4>5, <4>7
    <3>6. QED BY <3>4, <3>5
  <2>9. Pieced(next, Append(chunks, Piece(pos, to)))
    BY <1>2, <2>6, <2>7, <2>8, PieceKept
  <2>10. QED BY <1>1, <1>4, <2>6, <2>9 DEF next, to, k
<1>5. QED BY <1>3, <1>4

-----------------------------------------------------------------------------
LEMMA ChunkInit == DocumentInit => ChunkInv
<1> SUFFICES ASSUME DocumentInit PROVE ChunkInv
  OBVIOUS
<1>1. /\ cutting = [pc |-> "cutting", at |-> 1, open |-> <<>>, start |-> 1, chunks |-> <<>>]
      /\ matrix = <<>> => text \in Texts
      /\ matrix # <<>> => matrix \in Matrices
  BY NothingEmpty DEF DocumentInit
<1>2. /\ cutting.pc = "cutting" /\ cutting.at = 1 /\ cutting.open = <<>> /\ cutting.start = 1
      /\ cutting.chunks = <<>>
  BY <1>1
<1>3. cutting \in [pc : {"cutting", "cut"}, at : Nat, open : Seq(Nat), start : Nat,
                   chunks : Seq(Pieces) \cup Seq(SheetChunks)]
  BY <1>1
<1>4. ASSUME matrix = <<>> PROVE TextInv
  <2>1. Trimmed
    BY <1>1, <1>4, NothingEmpty, TextsAreTrimmed DEF Trimmed, IsLetter
  <2>2. Len(text) \in Nat /\ Len(text) # 0
    BY <2>1 DEF Trimmed
  <2>3. Pieced(1, <<>>)
    <3>1. Apart(1, <<>>)
      BY DEF Apart
    <3>2. DOMAIN text = 1 .. Len(text)
      BY <2>1 DEF Trimmed
    <3>3. QED BY <2>2, <3>1, <3>2 DEF Pieced
  <2>4. QED BY <1>2, <2>1, <2>2, <2>3 DEF TextInv, Trimmed
<1>5. ASSUME matrix # <<>> PROVE SheetInv
  <2>1. Rows \in Nat /\ matrix \in Matrices
    BY <1>1, <1>5, WidthsAreNumbers
  <2>2. Loop(1, <<>>, 1, <<>>)
    BY DEF Loop, Run, Citing, NextCited
  <2>3. QED BY <1>2, <2>1, <2>2 DEF SheetInv
<1>6. QED BY <1>3, <1>4, <1>5 DEF ChunkInv

LEMMA ChunkStep == ChunkInv /\ [DocumentNext]_chunkVars => ChunkInv'
<1> SUFFICES ASSUME ChunkInv, [DocumentNext]_chunkVars PROVE ChunkInv'
  OBVIOUS
<1> DEFINE Loops == [pc : {"cutting", "cut"}, at : Nat, open : Seq(Nat), start : Nat,
                     chunks : Seq(Pieces) \cup Seq(SheetChunks)]
<1>1. text' = text /\ matrix' = matrix
  BY DEF DocumentNext, CutText, PlaceRow, EndSheet, chunkVars
<1>2. /\ Rows' = Rows /\ (Trimmed' <=> Trimmed) /\ Len(text)' = Len(text)
      /\ \A pos, open, start, chunks : Loop(pos, open, start, chunks)' <=> Loop(pos, open, start, chunks)
      /\ \A i : IsLetter(i)' <=> IsLetter(i)
      /\ \A pos, chunks : Pieced(pos, chunks)' <=> Pieced(pos, chunks)
  BY <1>1, SheetStays, TextStays
<1>3. cutting \in Loops
  BY DEF ChunkInv
<1> DEFINE pc == cutting.pc
           pos == cutting.at
           open == cutting.open
           start == cutting.start
           chunks == cutting.chunks
<1>4. cutting = Cut(pc, pos, open, start, chunks)
  BY <1>3 DEF Cut
<1>5. CASE cutting' = cutting
  BY <1>1, <1>2, <1>5 DEF ChunkInv, TextInv, SheetInv
<1>6. CASE matrix # <<>> /\ cutting' # cutting
  <2>1. matrix \in Matrices /\ Loop(pos, open, start, chunks) /\ pos <= Rows + 1 /\ Rows \in Nat
    BY <1>6, WidthsAreNumbers DEF ChunkInv, SheetInv
  <2>2. \/ pc = "cutting" /\ pos <= Rows /\ cutting' = [Placed(cutting, pos) EXCEPT !.at = @ + 1]
        \/ /\ pc = "cutting" /\ pos > Rows
           /\ cutting' = [Pushed(cutting, start + Len(open) - 1) EXCEPT !.pc = "cut"]
    BY <1>6 DEF DocumentNext, CutText, PlaceRow, EndSheet, chunkVars
  <2>3. PICK p, a, o, s, m :
          /\ p \in {"cutting", "cut"} /\ cutting' = Cut(p, a, o, s, m) /\ Loop(a, o, s, m) /\ a <= Rows + 1
          /\ p = "cut" => s = Rows + 1
    <3>1. CASE pos <= Rows
      <4>1. PICK o, s, m : /\ Loop(pos + 1, o, s, m)
                           /\ [Placed(Cut(pc, pos, open, start, chunks), pos) EXCEPT !.at = @ + 1]
                                = Cut(pc, pos + 1, o, s, m)
        <5> HIDE DEF pc, pos, open, start, chunks
        <5>1. PlacesOn(pc, pos, open, start, chunks)
          BY <1>6, <2>1, <3>1, PlacedCites
        <5>2. QED BY <5>1 DEF PlacesOn
      <4>2. cutting' = Cut("cutting", pos + 1, o, s, m)
        <5>1. pos \in Nat
          BY <1>3
        <5>2. ~ (pos > Rows)
          BY <2>1, <3>1, <5>1
        <5>3. pc = "cutting" /\ cutting' = [Placed(cutting, pos) EXCEPT !.at = @ + 1]
          BY <2>2, <5>2
        <5> HIDE DEF pc, pos, open, start, chunks
        <5>4. QED BY <1>4, <4>1, <5>3
      <4>3. pos + 1 <= Rows + 1
        BY <1>3, <2>1, <3>1
      <4> HIDE DEF pos
      <4>4. QED BY <4>1, <4>2, <4>3
    <3>2. CASE ~ (pos <= Rows)
      <4>1. PICK m : /\ Loop(pos, <<>>, pos, m)
                     /\ Pushed(Cut(pc, pos, open, start, chunks), start + Len(open) - 1) = Cut(pc, pos, <<>>, pos, m)
        <5> HIDE DEF pc, pos, open, start, chunks
        <5>1. EndsOn(pc, pos, open, start, chunks)
          BY <1>6, <2>1, EndCites
        <5>2. QED BY <5>1 DEF EndsOn
      <4>2. cutting' = [Pushed(cutting, start + Len(open) - 1) EXCEPT !.pc = "cut"]
        BY <2>2, <3>2
      <4>3. pos = Rows + 1
        BY <1>3, <2>1, <3>2
      <4> HIDE DEF pc, pos, open, start, chunks
      <4>4. Pushed(cutting, start + Len(open) - 1) = Cut(pc, pos, <<>>, pos, m)
        BY <1>4, <4>1
      <4>5. cutting' = Cut("cut", pos, <<>>, pos, m)
        BY <4>2, <4>4 DEF Cut
      <4>6. QED BY <2>1, <4>1, <4>3, <4>5
    <3>3. QED BY <3>1, <3>2
  <2>4. /\ cutting'.pc = p /\ cutting'.at = a /\ cutting'.open = o /\ cutting'.start = s
        /\ cutting'.chunks = m
    BY <2>3 DEF Cut
  <2>5. a \in Nat /\ s \in Nat /\ o \in Seq(Nat) /\ m \in Seq(SheetChunks)
    <3>1. a \in Nat /\ s \in Nat /\ s <= a
      BY <2>3 DEF Loop
    <3>2. Run(s, a - 1) \in Seq(Nat)
      BY <3>1, RunGrows
    <3>3. QED BY <2>3, <3>1, <3>2 DEF Loop, Citing
  <2>6. cutting' \in Loops
    BY <2>3, <2>5 DEF Cut
  <2>7. SheetInv'
    BY <1>1, <1>2, <2>1, <2>3, <2>4 DEF SheetInv
  <2>8. QED BY <1>1, <1>6, <2>6, <2>7 DEF ChunkInv
<1>7. CASE matrix = <<>> /\ cutting' # cutting
  <2>1. CutText
    BY <1>7 DEF DocumentNext, PlaceRow, EndSheet, chunkVars
  <2>2. Trimmed /\ Pieced(pos, chunks) /\ pos <= Len(text) /\ IsLetter(pos)
    BY <1>7, <2>1 DEF ChunkInv, TextInv, CutText
  <2>3. Len(text) \in Nat
    BY <2>2 DEF Trimmed
  <2> DEFINE next == NextLetter(pos + SplitAt)
             to == LastLetter(pos + SplitAt - 1)
  <2>4. CASE Len(text) - pos + 1 <= TextLimit
    <3> DEFINE more == Append(chunks, Piece(pos, Len(text)))
               end == Len(text) + 1
    <3>1. Pieced(end, more)
      BY <2>2, <2>4, CutKeeps
    <3>2. cutting' = [cutting EXCEPT !.pc = "cut", !.at = end, !.chunks = more]
      BY <2>1, <2>4 DEF CutText
    <3>3. more \in Seq(Pieces) /\ end \in Nat
      BY <2>3, <3>1 DEF Pieced
    <3> HIDE DEF more, end
    <3>4. cutting'.pc = "cut" /\ cutting'.at = end /\ cutting'.chunks = more /\ cutting' \in Loops
      BY <1>3, <3>2, <3>3
    <3>5. TextInv'
      BY <1>2, <2>2, <3>1, <3>4 DEF TextInv
    <3>6. QED BY <1>1, <1>7, <3>4, <3>5 DEF ChunkInv
  <2>5. CASE ~ (Len(text) - pos + 1 <= TextLimit)
    <3> DEFINE more == Append(chunks, Piece(pos, to))
    <3>1. Pieced(next, more) /\ next <= Len(text) /\ IsLetter(next)
      BY <2>2, <2>5, CutKeeps
    <3>2. cutting' = [cutting EXCEPT !.at = next, !.chunks = more]
      BY <2>1, <2>5 DEF CutText
    <3>3. more \in Seq(Pieces) /\ next \in Nat
      BY <3>1 DEF Pieced
    <3> HIDE DEF more, next
    <3>4. cutting'.at = next /\ cutting'.chunks = more /\ cutting' \in Loops
      BY <1>3, <3>2, <3>3
    <3>5. TextInv'
      BY <1>2, <2>2, <3>1, <3>4 DEF TextInv
    <3>6. QED BY <1>1, <1>7, <3>4, <3>5 DEF ChunkInv
  <2>6. QED BY <2>4, <2>5
<1>8. QED BY <1>5, <1>6, <1>7

LEMMA ChunksAreKept == ChunkInv => ChunksKeepTheDocument
<1> SUFFICES ASSUME ChunkInv PROVE ChunksKeepTheDocument
  OBVIOUS
<1> DEFINE chunks == cutting.chunks
           pos == cutting.at
<1>1. ASSUME matrix = <<>> PROVE TextIsKept
  <2>1. Trimmed /\ Pieced(pos, chunks)
    BY <1>1 DEF ChunkInv, TextInv
  <2>2. chunks \in Seq(Pieces) /\ DOMAIN chunks = 1 .. Len(chunks) /\ Len(chunks) \in Nat
    BY <2>1 DEF Pieced
  <2>3. \A c \in DOMAIN chunks : chunks[c].from \in Nat /\ chunks[c].to \in Nat
    <3> TAKE c \in DOMAIN chunks
    <3>1. chunks[c] \in Pieces
      BY <2>2
    <3>2. QED BY <3>1 DEF Pieces
  <2>4. Apart(pos, chunks)
    BY <2>1 DEF Pieced
  <2>5. \A c \in DOMAIN chunks : c > 1 => chunks[c - 1].to < chunks[c].from
    <3> SUFFICES ASSUME NEW c \in DOMAIN chunks, c > 1 PROVE chunks[c - 1].to < chunks[c].from
      OBVIOUS
    <3>1. c - 1 \in DOMAIN chunks /\ c - 1 < c
      BY <2>2
    <3>2. QED BY <2>4, <3>1 DEF Apart
  <2>6. ASSUME NEW a \in Nat, NEW b \in Nat, a <= b, InOne(chunks, a, b)
        PROVE  InPieces(a) # {} /\ InPieces(a) = InPieces(b)
    <3>1. PICK c \in DOMAIN chunks : chunks[c].from <= a /\ b <= chunks[c].to
      BY <2>6 DEF InOne
    <3>2. c \in InPieces(a) /\ c \in InPieces(b)
      BY <2>3, <2>6, <3>1 DEF InPieces
    <3>3. \A d \in DOMAIN chunks : \A i \in a .. b : i \in chunks[d].from .. chunks[d].to => d = c
      <4> SUFFICES ASSUME NEW d \in DOMAIN chunks, NEW i \in a .. b,
                          i \in chunks[d].from .. chunks[d].to, d # c
                   PROVE  FALSE
        OBVIOUS
      <4>1. d < c \/ c < d
        BY <2>2
      <4>2. chunks[d].to < chunks[c].from \/ chunks[c].to < chunks[d].from
        BY <2>4, <4>1 DEF Apart
      <4>3. QED BY <2>3, <3>1, <4>2
    <3>4. a \in a .. b /\ b \in a .. b
      BY <2>6
    <3>5. InPieces(a) = {c} /\ InPieces(b) = {c}
      BY <3>2, <3>3, <3>4 DEF InPieces
    <3>6. QED BY <3>5
  <2>7. \A i \in 1 .. pos - 1 : IsLetter(i) => InPieces(i) # {}
    <3> SUFFICES ASSUME NEW i \in 1 .. pos - 1, IsLetter(i) PROVE InPieces(i) # {}
      OBVIOUS
    <3>1. InOne(chunks, i, i) /\ i \in Nat /\ i <= i
      BY <2>1 DEF Pieced
    <3>2. QED BY <2>6, <3>1
  <2>8. \A a, b \in DOMAIN text : ShortWord(a, b) /\ b < pos => InPieces(a) = InPieces(b)
    <3> SUFFICES ASSUME NEW a \in DOMAIN text, NEW b \in DOMAIN text, ShortWord(a, b), b < pos
                 PROVE  InPieces(a) = InPieces(b)
      OBVIOUS
    <3>1. InOne(chunks, a, b) /\ a <= b
      BY <2>1 DEF Pieced, ShortWord
    <3>2. a \in Nat /\ b \in Nat
      BY <2>1 DEF Trimmed
    <3>3. QED BY <2>6, <3>1, <3>2
  <2>9. QED BY <2>4, <2>5, <2>7, <2>8 DEF TextIsKept, Apart, ShortWord
<1>2. ASSUME matrix # <<>> PROVE RowsAreCited
  <2>1. /\ Loop(pos, cutting.open, cutting.start, chunks) /\ Rows \in Nat
        /\ cutting.pc = "cut" => cutting.start = Rows + 1
    BY <1>2, WidthsAreNumbers DEF ChunkInv, SheetInv
  <2>2. \A c \in DOMAIN chunks : Cited(chunks, c)
    BY <2>1 DEF Loop, Citing
  <2>3. cutting.pc = "cut" => IF Rows = 0 THEN chunks = <<>>
                              ELSE chunks # <<>> /\ chunks[Len(chunks)].to = Rows
    <3> SUFFICES ASSUME cutting.pc = "cut"
                 PROVE  IF Rows = 0 THEN chunks = <<>> ELSE chunks # <<>> /\ chunks[Len(chunks)].to = Rows
      OBVIOUS
    <3>1. NextCited(chunks) = Rows + 1
      BY <2>1 DEF Loop
    <3>2. chunks \in Seq(SheetChunks)
      BY <2>1 DEF Loop, Citing
    <3>3. CASE chunks = <<>>
      BY <2>1, <3>1, <3>3 DEF NextCited
    <3>4. CASE chunks # <<>>
      <4> DEFINE n == Len(chunks)
      <4>1. n \in DOMAIN chunks /\ n \in Nat /\ (n # 1 => n - 1 \in DOMAIN chunks)
        <5>1. DOMAIN chunks = 1 .. n /\ n \in Nat
          BY <3>2
        <5>2. n # 0
          BY <3>2, <3>4
        <5> HIDE DEF n
        <5>3. QED BY <5>1, <5>2
      <4>2. \A c \in DOMAIN chunks : chunks[c] \in SheetChunks
        BY <3>2
      <4>3. chunks[n].to \in Nat /\ (n # 1 => chunks[n - 1].to \in Nat)
        BY <4>1, <4>2 DEF SheetChunks
      <4>4. chunks[n].to + 1 = Rows + 1
        BY <3>1, <3>4 DEF NextCited
      <4>5. chunks[n].to # 0
        BY <2>2, <4>1, <4>3 DEF Cited
      <4>6. QED BY <2>1, <3>4, <4>3, <4>4, <4>5
    <3>5. QED BY <3>3, <3>4
  <2>4. QED BY <2>2, <2>3 DEF RowsAreCited, Cited, Run
<1>3. QED BY <1>1, <1>2 DEF ChunksKeepTheDocument, TextIsKept, RowsAreCited

(* Whatever text or sheet is uploaded, its chunks keep it: every letter in *)
(* one piece, no short word cut, every row cited once and in order.        *)
THEOREM ChunksKeepDocuments == DocumentSpec => []ChunksKeepTheDocument
<1> QED BY ChunkInit, ChunkStep, ChunksAreKept, PTL DEF DocumentSpec
=============================================================================
