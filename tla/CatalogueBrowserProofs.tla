----------------------- MODULE CatalogueBrowserProofs -----------------------
(***************************************************************************)
(* What a tab of the catalogue shows, for any catalogue, any inventory and *)
(* any history.  Everything rests on a round trip: the address an effect    *)
(* writes for a view, read by a fresh application, shows that view.  What   *)
(* an entry remembers, and what a panel was opened for, follow from it.     *)
(***************************************************************************)
EXTENDS CatalogueBrowser, SequenceTheorems, TLAPS

Ids == DOMAIN Resources \cup Categories \cup Datasets \cup {None}
Filters == CatalogueFilters \cup ProviderFilters

Addresses ==
  {a \in [page : {"catalogue", "category", "resource", "provider", "dataset"}, id : Ids,
          parameters : SUBSET (Filters \cup {"q", "source"} \X Texts)] :
     /\ a.page = "category" => a.id \in Categories
     /\ a.page = "resource" => a.id \in DOMAIN Resources /\ a.parameters = {}
     /\ a.page = "dataset" => a.id \in Datasets}

Views ==
  [on : {"catalogue", "resource", "provider"}, id : Ids, query : Texts, filters : SUBSET Filters]

Entries == [address : Addresses, document : Nat, shows : Views \cup {None}]

AppStates ==
  [query : Texts, filters : SUBSET CatalogueFilters, category : Categories \cup {None},
   selected : DOMAIN Resources \cup {None}, dataset : Datasets \cup {None},
   browser : BrowserStates \cup {None}, strayed : BOOLEAN]

\* What an address shows when it is opened elsewhere.
Meaning(a) == Shown(Started(a, a))

----------------------------------------------------------------------------
(* The invariant *)

TypeOK ==
  /\ at \in DOMAIN entries
  /\ phase \in {"loading", "failed", "ready"}
  /\ IF phase = "ready" THEN app \in AppStates ELSE served \in Addresses

\* A provider browser on the screen is on a page of the provider, and of its dataset; and such a
\* page shows one, unless the application has strayed.
BrowserOnItsPage ==
  phase = "ready" =>
    IF app.browser # None
      THEN /\ OnProvider(entries[at].address)
           /\ app.dataset = IdOn(entries[at].address, "dataset")
    ELSE app.strayed \/ ~OnProvider(entries[at].address)

Agree(a, b) == OnProvider(a) /\ OnProvider(b) => IdOn(a, "dataset") = IdOn(b, "dataset")

\* Documents are in order, and the entries of one are of one dataset: that is why a provider browser
\* that stays on the screen keeps its dataset, and a panel its file.
DocumentsAreOfOneDataset(h) ==
  /\ \A i, j \in DOMAIN h : i <= j => h[i].document <= h[j].document
  /\ \A i, j \in DOMAIN h : h[i].document = h[j].document => Agree(h[i].address, h[j].address)

\* What an entry showed is what its address means.
EntriesRemember(h) ==
  \A i \in DOMAIN h : h[i].shows # None => Meaning(h[i].address) = h[i].shows

History(h) == h \in Seq(Entries) /\ DocumentsAreOfOneDataset(h) /\ EntriesRemember(h)

\* So is the page a document was fetched for.
PageIsOfTheDataset == phase # "ready" => \A i \in Siblings : Agree(served, entries[i].address)

\* The panel that is open is of a file the filters list, and holds parameters of that file only.
Fits(s) ==
  s.browser # None /\ s.browser.usage # None =>
    LET f == s.browser.usage IN
    /\ s.dataset \in {None, Files[f].dataset}
    /\ s.browser.query \in {""} \cup Files[f].text
    /\ s.browser.filters \subseteq Files[f].values \cup {<<"evidence", Verification(f)>>}
    /\ s.browser.given \subseteq Files[f].parameters

PanelFits == phase = "ready" => Fits(app)

\* What the way back leads to is the list the application still holds.
Held(s) == [on |-> "catalogue", id |-> s.category, query |-> s.query, filters |-> s.filters]
ListIsHeld == list # None => phase = "ready" /\ list = Held(app)

TabInvariant ==
  /\ TypeOK /\ History(entries) /\ BrowserOnItsPage /\ PageIsOfTheDataset
  /\ PanelFits /\ LocationShowsView

IInv == TabInvariant /\ ListIsHeld /\ NavigationRestores

----------------------------------------------------------------------------
(* Addresses *)

LEMMA QueryIsRead ==
  ASSUME NEW q, NEW F \in SUBSET Filters,
         NEW N \in {{"q"}, {"q", "source"}}
  PROVE  Query(WithQuery(q, F), N) = q
<1>1. \A p \in F : p[1] \notin N
  BY BrowserAssumption DEF Filters
<1>2. CASE q = ""
  BY <1>1, <1>2 DEF Query, WithQuery
<1>3. CASE q # ""
  <2>1. <<"q", q>> \in WithQuery(q, F) /\ <<"q", q>>[1] \in N /\ <<"q", q>>[2] = q
    BY <1>3 DEF WithQuery
  <2>2. \A p \in WithQuery(q, F) : p[1] \in N => p = <<"q", q>>
    BY <1>1, <1>3 DEF WithQuery
  <2> QED BY <2>1, <2>2 DEF Query
<1> QED BY <1>2, <1>3

LEMMA FiltersAreRead ==
  ASSUME NEW q
  PROVE  /\ \A F \in SUBSET CatalogueFilters : WithQuery(q, F) \cap CatalogueFilters = F
         /\ \A F \in SUBSET ProviderFilters : WithQuery(q, F) \cap ProviderFilters = F
<1>1. <<"q", q>>[1] = "q"
  OBVIOUS
<1>2. <<"q", q>> \notin CatalogueFilters \cup ProviderFilters
  BY <1>1, BrowserAssumption
<1> QED BY <1>2 DEF WithQuery

LEMMA QueriesAreTexts ==
  ASSUME NEW a \in Addresses, NEW N \in {{"q"}, {"q", "source"}}
  PROVE  Query(a.parameters, N) \in Texts
<1>1. \A p \in a.parameters : p[1] \in N => p[2] \in Texts
  BY BrowserAssumption DEF Addresses, Filters
<1>2. "" \in Texts
  BY DEF Texts
<1> QED BY <1>1, <1>2 DEF Query

LEMMA IdsOfAddresses ==
  ASSUME NEW a \in Addresses
  PROVE  /\ IdOn(a, "category") \in Categories \cup {None}
         /\ IdOn(a, "resource") \in DOMAIN Resources \cup {None}
         /\ IdOn(a, "dataset") \in Datasets \cup {None}
         /\ a.page = "dataset" <=> IdOn(a, "dataset") # None
         /\ a.page = "resource" <=> IdOn(a, "resource") # None
         /\ a.page = "category" <=> IdOn(a, "category") # None
         /\ a.page = "resource" => IdOn(a, "resource") = a.id
BY BrowserAssumption DEF Addresses, IdOn

LEMMA MountedType ==
  ASSUME NEW a \in Addresses
  PROVE  /\ Mounted(a) \in BrowserStates /\ Mounted(a) # None
         /\ Mounted(a).usage = None
<1>1. ParseProvider(a).query \in Texts
  BY QueriesAreTexts DEF ParseProvider
<1>2. Mounted(a) \in BrowserStates
  BY <1>1 DEF Mounted, BrowserStates, ParseProvider
<1> QED BY <1>2, BrowserAssumption DEF Mounted

LEMMA StartedType ==
  ASSUME NEW page \in Addresses, NEW a \in Addresses
  PROVE  Started(page, a) \in AppStates
<1>1. ParseCatalogue(a).query \in Texts /\ ParseCatalogue(a).filters \subseteq CatalogueFilters
  BY QueriesAreTexts DEF ParseCatalogue
<1> QED BY <1>1, MountedType, IdsOfAddresses DEF Started, AppStates, Either

LEMMA PopStateType ==
  ASSUME NEW old \in AppStates, NEW a \in Addresses
  PROVE  PopState(old, a) \in AppStates
<1>1. ParseCatalogue(a).query \in Texts /\ ParseCatalogue(a).filters \subseteq CatalogueFilters
  BY QueriesAreTexts DEF ParseCatalogue
<1> QED BY <1>1, MountedType, IdsOfAddresses DEF PopState, AppStates

\* What each kind of address means.
LEMMA Meanings ==
  ASSUME NEW a \in Addresses
  PROVE  /\ OnProvider(a) =>
              Meaning(a) = [on |-> "provider", id |-> IdOn(a, "dataset"),
                            query |-> ParseProvider(a).query, filters |-> ParseProvider(a).filters]
         /\ a.page = "resource" =>
              Meaning(a) = [on |-> "resource", id |-> a.id, query |-> "", filters |-> {}]
         /\ ~OnProvider(a) /\ a.page # "resource" =>
              Meaning(a) = [on |-> "catalogue", id |-> IdOn(a, "category"),
                            query |-> ParseCatalogue(a).query, filters |-> ParseCatalogue(a).filters]
<1>1. CASE OnProvider(a)
  BY <1>1, IdsOfAddresses, MountedType DEF Meaning, Started, Shown, OnProvider, Either, Mounted
<1>2. CASE a.page = "resource"
  BY <1>2, IdsOfAddresses DEF Meaning, Started, Shown, OnProvider, Either
<1>3. CASE ~OnProvider(a) /\ a.page # "resource"
  BY <1>3, IdsOfAddresses DEF Meaning, Started, Shown, OnProvider, Either
<1> QED BY <1>1, <1>2, <1>3 DEF OnProvider

\* The address of a resource says nothing of a list, so what has read one holds the whole catalogue.
LEMMA ResourceSaysNothing ==
  ASSUME NEW a \in Addresses, a.page = "resource"
  PROVE  ParseCatalogue(a).query = "" /\ ParseCatalogue(a).filters = {} /\ IdOn(a, "category") = None
BY DEF Addresses, ParseCatalogue, Query, IdOn

LEMMA UnknownAfterStart ==
  ASSUME NEW page \in Addresses, NEW a \in Addresses, ListUnknown(Started(page, a)) # None
  PROVE  ListUnknown(Started(page, a)) = Held(Started(page, a))
<1> DEFINE s == Started(page, a)
<1>1. s.browser = None /\ s.selected # None /\ ~s.strayed /\ ListUnknown(s) = Whole
  BY DEF ListUnknown
<1>2. page.page = a.page /\ page.page = "resource"
  BY <1>1, IdsOfAddresses DEF Started
<1>3. s.query = "" /\ s.filters = {}
  BY <1>2, ResourceSaysNothing DEF Started
<1>4. s.category = None
  BY <1>2 DEF Started, IdOn, Either
<1> QED BY <1>1, <1>3, <1>4 DEF Held, Whole

LEMMA UnknownAfterPopState ==
  ASSUME NEW old, NEW a \in Addresses, ListUnknown(PopState(old, a)) # None
  PROVE  ListUnknown(PopState(old, a)) = Held(PopState(old, a))
<1> DEFINE s == PopState(old, a)
<1>1. s.browser = None /\ s.selected # None /\ ListUnknown(s) = Whole
  BY DEF ListUnknown
<1>2. a.page = "resource"
  BY <1>1, IdsOfAddresses DEF PopState
<1>3. s.query = "" /\ s.filters = {} /\ s.category = None
  BY <1>2, ResourceSaysNothing DEF PopState
<1> QED BY <1>1, <1>3 DEF Held, Whole

LEMMA ViewType ==
  ASSUME NEW on \in {"catalogue", "resource", "provider"}, NEW id \in Ids, NEW q \in Texts,
         NEW F \in SUBSET Filters
  PROVE  [on |-> on, id |-> id, query |-> q, filters |-> F] \in Views
BY DEF Views

LEMMA WithQueryType ==
  ASSUME NEW q \in Texts, NEW F \in SUBSET Filters
  PROVE  WithQuery(q, F) \in SUBSET (Filters \cup {"q", "source"} \X Texts)
<1>1. <<"q", q>> \in {"q", "source"} \X Texts
  OBVIOUS
<1> QED BY <1>1 DEF WithQuery

LEMMA LocationTypes ==
  ASSUME NEW q \in Texts, NEW F \in SUBSET Filters
  PROVE  /\ \A c \in Categories \cup {None} : CatalogueLocation(c, q, F) \in Addresses
         /\ \A d \in Datasets \cup {None} : ProviderLocation(d, q, F) \in Addresses
<1> DEFINE P == SUBSET (Filters \cup {"q", "source"} \X Texts)
<1>1. WithQuery(q, F) \in P
  BY WithQueryType
<1>2. \A c \in Categories \cup {None} : c \in Ids
  BY DEF Ids
<1>3. \A d \in Datasets \cup {None} : d \in Ids
  BY DEF Ids
<1> HIDE DEF P
<1>4. ASSUME NEW c \in Categories \cup {None}
      PROVE  CatalogueLocation(c, q, F) \in Addresses
  BY <1>1, <1>2 DEF CatalogueLocation, Address, Addresses, P
<1>5. ASSUME NEW d \in Datasets \cup {None}
      PROVE  ProviderLocation(d, q, F) \in Addresses
  BY <1>1, <1>3 DEF ProviderLocation, Address, Addresses, P
<1> QED BY <1>4, <1>5

\* A resource that is shown is the one of the address.
ResourceOnItsPage(s, a) ==
  s.browser = None /\ s.selected # None => a.page = "resource" /\ a.id = s.selected

\* The round trip.
LEMMA SettledMeansShown ==
  ASSUME NEW s \in AppStates, NEW a \in Addresses, ResourceOnItsPage(s, a)
  PROVE  /\ Settled(s, a) \in Addresses
         /\ Meaning(Settled(s, a)) = Shown(s)
         /\ Shown(s) \in Views
         /\ s.browser # None <=> OnProvider(Settled(s, a))
         /\ s.browser # None => IdOn(Settled(s, a), "dataset") = s.dataset
<1> DEFINE b == Settled(s, a)
<1>1. CASE s.browser # None
  <2>1. s.browser \in BrowserStates /\ s.dataset \in Datasets \cup {None}
    BY <1>1 DEF AppStates
  <2>2. s.browser.query \in Texts /\ s.browser.filters \in SUBSET ProviderFilters
    BY <2>1 DEF BrowserStates
  <2>3. b = ProviderLocation(s.dataset, s.browser.query, s.browser.filters)
    BY <1>1 DEF Settled
  <2>4. b \in Addresses
    BY <2>1, <2>2, <2>3, LocationTypes DEF Filters
  <2>5. OnProvider(b) /\ IdOn(b, "dataset") = s.dataset
    BY <2>3 DEF ProviderLocation, Address, OnProvider, IdOn
  <2>6. ParseProvider(b).query = s.browser.query
    BY <2>2, <2>3, QueryIsRead DEF ParseProvider, ProviderLocation, Address, Filters
  <2>7. ParseProvider(b).filters = s.browser.filters
    BY <2>2, <2>3, FiltersAreRead DEF ParseProvider, ProviderLocation, Address
  <2>8. Shown(s) = [on |-> "provider", id |-> s.dataset, query |-> s.browser.query, filters |-> s.browser.filters]
    BY <1>1 DEF Shown
  <2>9. Shown(s) \in Views
    BY <2>1, <2>2, <2>8, ViewType DEF Ids, Filters
  <2> QED BY <1>1, <2>4, <2>5, <2>6, <2>7, <2>8, <2>9, Meanings
<1>2. CASE s.browser = None /\ s.selected # None
  <2>1. b = a /\ a.page = "resource" /\ a.id = s.selected
    BY <1>2 DEF Settled, ResourceOnItsPage
  <2>2. Shown(s) = [on |-> "resource", id |-> s.selected, query |-> "", filters |-> {}]
    BY <1>2 DEF Shown
  <2>3. Shown(s) \in Views
    <3>1. s.selected \in Ids /\ "" \in Texts /\ {} \in SUBSET Filters
      BY <1>2 DEF AppStates, Ids, Texts
    <3> QED BY <2>2, <3>1, ViewType
  <2> QED BY <1>2, <2>1, <2>2, <2>3, Meanings DEF OnProvider
<1>3. CASE s.browser = None /\ s.selected = None
  <2>1. s.category \in Categories \cup {None} /\ s.query \in Texts /\ s.filters \in SUBSET CatalogueFilters
    BY DEF AppStates
  <2>2. b = CatalogueLocation(s.category, s.query, s.filters)
    BY <1>3 DEF Settled
  <2>3. b \in Addresses
    BY <2>1, <2>2, LocationTypes DEF Filters
  <2>4. ~OnProvider(b) /\ b.page # "resource" /\ IdOn(b, "category") = s.category
    BY <2>2 DEF CatalogueLocation, Address, OnProvider, IdOn
  <2>5. ParseCatalogue(b).query = s.query
    BY <2>1, <2>2, QueryIsRead DEF ParseCatalogue, CatalogueLocation, Address, Filters
  <2>6. ParseCatalogue(b).filters = s.filters
    BY <2>1, <2>2, FiltersAreRead DEF ParseCatalogue, CatalogueLocation, Address
  <2>7. Shown(s) = [on |-> "catalogue", id |-> s.category, query |-> s.query, filters |-> s.filters]
    BY <1>3 DEF Shown
  <2>8. Shown(s) \in Views
    BY <2>1, <2>7, ViewType DEF Ids, Filters
  <2> QED BY <1>3, <2>3, <2>4, <2>5, <2>6, <2>7, <2>8, Meanings
<1> QED BY <1>1, <1>2, <1>3

----------------------------------------------------------------------------
(* The session history *)

LEMMA ReplacedEntry ==
  ASSUME NEW h, History(h), NEW i \in DOMAIN h, NEW e \in Entries,
         e.document = h[i].document,
         \A j \in DOMAIN h : h[j].document = e.document => Agree(e.address, h[j].address),
         e.shows # None => Meaning(e.address) = e.shows
  PROVE  /\ History([h EXCEPT ![i] = e])
         /\ DOMAIN [h EXCEPT ![i] = e] = DOMAIN h
         /\ \A j \in DOMAIN h : [h EXCEPT ![i] = e][j] = IF j = i THEN e ELSE h[j]
<1> DEFINE g == [h EXCEPT ![i] = e]
<1>1. h \in Seq(Entries)
  BY DEF History
<1>2. g \in Seq(Entries) /\ DOMAIN g = DOMAIN h /\ (\A j \in DOMAIN h : g[j] = IF j = i THEN e ELSE h[j])
  BY <1>1
<1> HIDE DEF g
<1>3. \A j \in DOMAIN h : g[j].document = h[j].document
  BY <1>2
<1>4. \A j, k \in DOMAIN g : j <= k => g[j].document <= g[k].document
  BY <1>2, <1>3 DEF History, DocumentsAreOfOneDataset
<1>5. ASSUME NEW j \in DOMAIN g, NEW k \in DOMAIN g, g[j].document = g[k].document
      PROVE  Agree(g[j].address, g[k].address)
  <2>1. j \in DOMAIN h /\ k \in DOMAIN h /\ h[j].document = h[k].document
    BY <1>2, <1>3, <1>5
  <2>2. Agree(h[j].address, h[k].address)
    BY <2>1 DEF History, DocumentsAreOfOneDataset
  <2>3. CASE j = i
    <3>1. Agree(e.address, h[k].address)
      BY <2>1, <2>3
    <3> QED BY <1>2, <2>1, <2>3, <3>1 DEF Agree
  <2>4. CASE j # i /\ k = i
    <3>1. Agree(e.address, h[j].address)
      BY <2>1, <2>4
    <3> QED BY <1>2, <2>1, <2>4, <3>1 DEF Agree
  <2>5. CASE j # i /\ k # i
    BY <1>2, <2>1, <2>2, <2>5
  <2> QED BY <2>3, <2>4, <2>5
<1>6. EntriesRemember(g)
  BY <1>2 DEF History, EntriesRemember
<1>7. History(g)
  BY <1>2, <1>4, <1>5, <1>6 DEF History, DocumentsAreOfOneDataset
<1> QED BY <1>2, <1>7 DEF g

\* An entry is added after the active one, and those ahead of it are gone.
LEMMA AddedEntry ==
  ASSUME NEW h, History(h), NEW n \in DOMAIN h, NEW e \in Entries,
         e.document >= h[n].document,
         \A j \in DOMAIN h : h[j].document = e.document /\ e.document = h[n].document => Agree(e.address, h[j].address),
         e.shows # None => Meaning(e.address) = e.shows
  PROVE  /\ History(Append(SubSeq(h, 1, n), e))
         /\ DOMAIN Append(SubSeq(h, 1, n), e) = 1 .. n + 1
         /\ \A j \in 1 .. n : Append(SubSeq(h, 1, n), e)[j] = h[j]
         /\ Append(SubSeq(h, 1, n), e)[n + 1] = e
<1> DEFINE g == Append(SubSeq(h, 1, n), e)
<1>1. h \in Seq(Entries) /\ n \in Nat /\ DOMAIN h = 1 .. Len(h) /\ Len(h) \in Nat /\ 1 .. n \subseteq DOMAIN h
  BY DEF History
<1>2. \A j \in 1 .. n : h[j] \in Entries
  BY <1>1
<1>3. /\ SubSeq(h, 1, n) \in Seq(Entries) /\ Len(SubSeq(h, 1, n)) = n
      /\ \A j \in 1 .. n : SubSeq(h, 1, n)[j] = h[j]
  <2>1. n >= 1
    BY <1>1
  <2> QED BY <1>1, <1>2, <2>1, SubSeqProperties
<1>4. /\ g \in Seq(Entries) /\ DOMAIN g = 1 .. n + 1
      /\ \A j \in 1 .. n : g[j] = h[j]
      /\ g[n + 1] = e
  BY <1>1, <1>3, AppendProperties
<1> HIDE DEF g
<1>5. /\ \A j \in DOMAIN h : h[j].document \in Nat /\ h[j].address \in Addresses
      /\ e.document \in Nat
  <2>1. \A j \in DOMAIN h : h[j] \in Entries
    BY <1>1
  <2> QED BY <2>1 DEF Entries
<1>6. \A j \in 1 .. n : h[j].document <= h[n].document
  BY <1>1 DEF History, DocumentsAreOfOneDataset
<1>7. \A j \in 1 .. n : g[j].document <= e.document
  BY <1>1, <1>4, <1>5, <1>6
<1>8. \A j, k \in DOMAIN g : j <= k => g[j].document <= g[k].document
  BY <1>1, <1>4, <1>5, <1>7 DEF History, DocumentsAreOfOneDataset
<1>9. ASSUME NEW j \in DOMAIN g, NEW k \in DOMAIN g, j <= k, g[j].document = g[k].document
      PROVE  Agree(g[j].address, g[k].address) /\ Agree(g[k].address, g[j].address)
  <2>1. CASE k \in 1 .. n
    <3>1. j \in 1 .. n
      BY <1>1, <1>4, <1>9, <2>1
    <3>2. Agree(h[j].address, h[k].address)
      BY <1>1, <1>4, <1>9, <2>1, <3>1 DEF History, DocumentsAreOfOneDataset
    <3> QED BY <1>4, <2>1, <3>1, <3>2 DEF Agree
  <2>2. CASE k = n + 1 /\ j \in 1 .. n
    <3>1. h[j].document = e.document /\ j \in DOMAIN h
      BY <1>1, <1>4, <1>9, <2>2
    <3>2. e.document = h[n].document
      BY <1>1, <1>5, <1>6, <2>2, <3>1
    <3>3. Agree(e.address, h[j].address)
      BY <3>1, <3>2
    <3> QED BY <1>4, <2>2, <3>3 DEF Agree
  <2>3. CASE k = n + 1 /\ j = n + 1
    BY <2>3 DEF Agree
  <2> QED BY <1>1, <1>4, <2>1, <2>2, <2>3
<1>10. \A j, k \in DOMAIN g : g[j].document = g[k].document => Agree(g[j].address, g[k].address)
  <2>1. \A j, k \in DOMAIN g : j <= k \/ k <= j
    BY <1>1, <1>4
  <2> QED BY <1>9, <2>1
<1>11. EntriesRemember(g)
  BY <1>1, <1>4 DEF History, EntriesRemember
<1>12. History(g)
  BY <1>4, <1>8, <1>10, <1>11 DEF History, DocumentsAreOfOneDataset
<1> QED BY <1>4, <1>12 DEF g

LEMMA EntryFields ==
  ASSUME TabInvariant, NEW i \in DOMAIN entries
  PROVE  /\ entries[i].address \in Addresses /\ entries[i].document \in Nat
         /\ entries[i].shows \in Views \cup {None} /\ entries[i] \in Entries
         /\ at \in DOMAIN entries /\ at \in Nat /\ i \in Nat
<1>1. entries \in Seq(Entries) /\ at \in DOMAIN entries
  BY DEF TabInvariant, TypeOK, History
<1>2. entries[i] \in Entries /\ at \in Nat /\ i \in Nat
  BY <1>1
<1> QED BY <1>1, <1>2 DEF Entries

\* A view stays on the page of the provider it is on.
StaysOnPage(s, b) == s.browser # None => OnProvider(b) /\ s.dataset = IdOn(b, "dataset")

LEMMA SettledEntry ==
  ASSUME TabInvariant, NEW s \in AppStates, NEW a \in Addresses, NEW i \in DOMAIN entries,
         ResourceOnItsPage(s, a), StaysOnPage(s, entries[i].address),
         NEW v \in {None, Shown(s)} \cap (Views \cup {None})
  PROVE  LET e == Entry(Settled(s, a), entries[i].document, v) IN
         /\ e \in Entries /\ e.document = entries[i].document /\ e.address = Settled(s, a)
         /\ \A j \in DOMAIN entries : entries[j].document = e.document => Agree(e.address, entries[j].address)
         /\ e.shows # None => Meaning(e.address) = e.shows
<1> DEFINE e == Entry(Settled(s, a), entries[i].document, v)
<1>1. e \in Entries /\ e.document = entries[i].document /\ e.address = Settled(s, a) /\ e.shows = v
  BY SettledMeansShown, EntryFields DEF Entry, Entries
<1> HIDE DEF e
<1>2. ASSUME NEW j \in DOMAIN entries, entries[j].document = e.document
      PROVE  Agree(e.address, entries[j].address)
  <2>1. Agree(entries[i].address, entries[j].address)
    BY <1>1, <1>2 DEF TabInvariant, History, DocumentsAreOfOneDataset
  <2>2. OnProvider(e.address) => s.browser # None /\ IdOn(e.address, "dataset") = s.dataset
    BY <1>1, SettledMeansShown
  <2> QED BY <2>1, <2>2 DEF Agree, StaysOnPage
<1>3. e.shows # None => Meaning(e.address) = e.shows
  BY <1>1, SettledMeansShown
<1> QED BY <1>1, <1>2, <1>3 DEF e

----------------------------------------------------------------------------
(* The kinds of steps *)

\* The application is ready after a step that left the active entry meaning what is shown.
LEMMA ReadyAgain ==
  ASSUME NEW s \in AppStates, app' = s, phase' = "ready",
         at' \in DOMAIN entries', History(entries)',
         StaysOnPage(s, entries'[at'].address), Fits(s),
         s.strayed \/ s.browser # None \/ ~OnProvider(entries'[at'].address),
         s.strayed \/ Meaning(entries'[at'].address) = Shown(s)
  PROVE  TabInvariant'
<1>1. TypeOK' /\ PageIsOfTheDataset' /\ PanelFits'
  BY DEF TypeOK, PageIsOfTheDataset, PanelFits
<1>2. BrowserOnItsPage'
  BY DEF BrowserOnItsPage, StaysOnPage
<1>3. LocationShowsView'
  BY DEF LocationShowsView, Meaning
<1> QED BY <1>1, <1>2, <1>3 DEF TabInvariant

\* What a step makes of the state is sound on the address it writes.
Sound(s, a) ==
  /\ s \in AppStates /\ a \in Addresses
  /\ ResourceOnItsPage(s, a) /\ StaysOnPage(s, entries[at].address) /\ Fits(s)

LEMMA BecomeStep ==
  ASSUME TabInvariant, phase = "ready", NEW s, NEW a, Sound(s, a), Become(s, a)
  PROVE  TabInvariant'
<1> DEFINE e == Entry(Settled(s, a), entries[at].document, Shown(s))
<1>1. /\ e \in Entries /\ e.document = entries[at].document /\ e.address = Settled(s, a)
      /\ \A j \in DOMAIN entries : entries[j].document = e.document => Agree(e.address, entries[j].address)
      /\ e.shows # None => Meaning(e.address) = e.shows
  BY SettledEntry, SettledMeansShown DEF Sound, TabInvariant, TypeOK
<1>2. entries' = [entries EXCEPT ![at] = e]
  BY DEF Become
<1> HIDE DEF e
<1>3. at \in DOMAIN entries /\ History(entries)
  BY DEF TabInvariant, TypeOK
<1>4. History(entries') /\ DOMAIN entries' = DOMAIN entries /\ entries'[at] = e
  BY <1>1, <1>2, <1>3, ReplacedEntry
<1>5. at' = at /\ app' = s /\ phase' = "ready"
  BY DEF Become
<1>6. /\ StaysOnPage(s, entries'[at'].address) /\ Meaning(entries'[at'].address) = Shown(s)
      /\ s.browser # None \/ ~OnProvider(entries'[at'].address)
  BY <1>1, <1>4, <1>5, SettledMeansShown DEF Sound, StaysOnPage
<1>7. History(entries)'
  BY <1>4 DEF History, DocumentsAreOfOneDataset, EntriesRemember
<1> QED BY <1>3, <1>4, <1>5, <1>6, <1>7, ReadyAgain DEF Sound

LEMMA PushStep ==
  ASSUME TabInvariant, phase = "ready", NEW s, NEW a, Sound(s, a), PushAndBecome(s, a)
  PROVE  TabInvariant'
<1> DEFINE e == Entry(Settled(s, a), entries[at].document, Shown(s))
<1>1. /\ e \in Entries /\ e.document = entries[at].document /\ e.address = Settled(s, a)
      /\ \A j \in DOMAIN entries : entries[j].document = e.document => Agree(e.address, entries[j].address)
      /\ e.shows # None => Meaning(e.address) = e.shows
  BY SettledEntry, SettledMeansShown DEF Sound, TabInvariant, TypeOK
<1>2. entries' = Append(SubSeq(entries, 1, at), e)
  BY DEF PushAndBecome
<1> HIDE DEF e
<1>3. at \in DOMAIN entries /\ at \in Nat /\ History(entries) /\ entries[at].document \in Nat
  BY EntryFields DEF TabInvariant, TypeOK
<1>4. e.document >= entries[at].document
  BY <1>1, <1>3
<1>5. History(entries') /\ DOMAIN entries' = 1 .. at + 1 /\ entries'[at + 1] = e
  BY <1>1, <1>2, <1>3, <1>4, AddedEntry
<1>6. at' = at + 1 /\ app' = s /\ phase' = "ready"
  BY DEF PushAndBecome
<1>7. /\ StaysOnPage(s, entries'[at'].address) /\ Meaning(entries'[at'].address) = Shown(s)
      /\ s.browser # None \/ ~OnProvider(entries'[at'].address)
  BY <1>1, <1>5, <1>6, SettledMeansShown DEF Sound, StaysOnPage
<1>8. History(entries)'
  BY <1>5 DEF History, DocumentsAreOfOneDataset, EntriesRemember
<1>9. at' \in DOMAIN entries'
  BY <1>3, <1>5, <1>6
<1> QED BY <1>6, <1>7, <1>8, <1>9, ReadyAgain DEF Sound

\* The provider browser changes, and nothing that is shown of it.
LEMMA BrowserStep ==
  ASSUME TabInvariant, phase = "ready", UNCHANGED <<entries, at, served, phase>>,
         app.browser # None, app' \in AppStates, app'.browser # None,
         app'.browser.query = app.browser.query, app'.browser.filters = app.browser.filters,
         app'.dataset = app.dataset, app'.strayed = app.strayed, Fits(app')
  PROVE  TabInvariant'
<1>1. Shown(app') = Shown(app)
  BY DEF Shown
<1>2. TypeOK' /\ BrowserOnItsPage' /\ PageIsOfTheDataset' /\ PanelFits'
  BY DEF TabInvariant, TypeOK, BrowserOnItsPage, PageIsOfTheDataset, PanelFits, Siblings
<1>3. LocationShowsView'
  BY <1>1 DEF TabInvariant, LocationShowsView, Siblings
<1>4. History(entries)'
  BY DEF TabInvariant, History, DocumentsAreOfOneDataset, EntriesRemember
<1> QED BY <1>2, <1>3, <1>4 DEF TabInvariant

LEMMA FollowStep ==
  ASSUME TabInvariant, NEW a \in Addresses, Follow(a)
  PROVE  TabInvariant'
<1> DEFINE e == Entry(a, entries[at].document + 1, None)
<1>1. at \in DOMAIN entries /\ at \in Nat /\ History(entries) /\ entries[at].document \in Nat
  BY EntryFields DEF TabInvariant, TypeOK
<1>2. e \in Entries /\ e.document = entries[at].document + 1 /\ e.address = a /\ e.shows = None
  BY <1>1 DEF Entry, Entries
<1>3. entries' = Append(SubSeq(entries, 1, at), e)
  BY DEF Follow
<1> HIDE DEF e
<1>4. e.document > entries[at].document
  BY <1>1, <1>2
<1>5. /\ History(entries') /\ DOMAIN entries' = 1 .. at + 1 /\ entries'[at + 1] = e
      /\ \A j \in 1 .. at : entries'[j] = entries[j]
  BY <1>1, <1>2, <1>3, <1>4, AddedEntry
<1>6. at' = at + 1 /\ served' = a /\ phase' = "loading"
  BY DEF Follow, Fetch
<1>7. ASSUME NEW j \in Siblings'
      PROVE  entries'[j].address = a
  <2>1. entries'[j].document = entries[at].document + 1 /\ j \in 1 .. at + 1
    BY <1>2, <1>5, <1>6 DEF Siblings
  <2>2. CASE j = at + 1
    BY <1>2, <1>5, <2>2
  <2>3. CASE j \in 1 .. at
    <3>1. j \in DOMAIN entries /\ j <= at
      BY <1>1, <2>3 DEF History
    <3>2. entries[j].document <= entries[at].document /\ entries[j].document \in Nat
      BY <1>1, <3>1, EntryFields DEF History, DocumentsAreOfOneDataset
    <3> QED BY <1>1, <1>5, <2>1, <2>3, <3>2
  <2> QED BY <1>1, <2>1, <2>2, <2>3
<1>8. TypeOK' /\ BrowserOnItsPage' /\ PanelFits' /\ LocationShowsView'
  BY <1>1, <1>5, <1>6 DEF TypeOK, BrowserOnItsPage, PanelFits, LocationShowsView
<1>9. PageIsOfTheDataset'
  BY <1>6, <1>7 DEF PageIsOfTheDataset, Agree
<1>10. History(entries)'
  BY <1>5 DEF History, DocumentsAreOfOneDataset, EntriesRemember
<1> QED BY <1>8, <1>9, <1>10 DEF TabInvariant

\* A document is fetched again, for the entry i.
LEMMA FetchStep ==
  ASSUME TabInvariant, NEW i \in DOMAIN entries, Fetch(entries[i].address), at' = i, UNCHANGED entries
  PROVE  TabInvariant'
<1>1. served' \in Addresses /\ phase' = "loading" /\ served' = entries'[at'].address
  BY EntryFields DEF Fetch
<1>2. TypeOK' /\ BrowserOnItsPage' /\ PanelFits' /\ LocationShowsView'
  BY <1>1 DEF TypeOK, BrowserOnItsPage, PanelFits, LocationShowsView
<1>3. History(entries)'
  BY DEF TabInvariant, History, DocumentsAreOfOneDataset, EntriesRemember
<1>4. PageIsOfTheDataset'
  BY <1>1, <1>3 DEF PageIsOfTheDataset, Siblings, History, DocumentsAreOfOneDataset
<1> QED BY <1>2, <1>3, <1>4 DEF TabInvariant

\* Nothing starts or is left, and the page is still the one that was fetched.
LEMMA WaitingStep ==
  ASSUME TabInvariant, phase # "ready", phase' \in {"loading", "failed"}, UNCHANGED <<entries, served>>,
         at' \in DOMAIN entries, entries[at'].document = entries[at].document
  PROVE  TabInvariant'
<1>1. TypeOK' /\ BrowserOnItsPage' /\ PanelFits' /\ LocationShowsView'
  BY DEF TabInvariant, TypeOK, BrowserOnItsPage, PanelFits, LocationShowsView
<1>2. PageIsOfTheDataset'
  BY DEF TabInvariant, PageIsOfTheDataset, Siblings
<1>3. History(entries)'
  BY DEF TabInvariant, History, DocumentsAreOfOneDataset, EntriesRemember
<1> QED BY <1>1, <1>2, <1>3 DEF TabInvariant

----------------------------------------------------------------------------
(* The tab *)

LEMMA ArriveStep ==
  ASSUME TabInvariant, CatalogueArrives
  PROVE  TabInvariant' /\ ListIsHeld' /\ NavigationRestores'
<1> DEFINE a == entries[at].address
           s == Started(served, a)
           v == IF s.strayed THEN None ELSE Shown(s)
           e == Entry(Settled(s, a), entries[at].document, v)
<1>1. /\ phase = "loading" /\ served \in Addresses /\ a \in Addresses /\ at \in DOMAIN entries
      /\ entries[at].document \in Nat /\ History(entries)
  BY EntryFields DEF TabInvariant, TypeOK, CatalogueArrives
<1>2. entries' = [entries EXCEPT ![at] = e] /\ at' = at /\ app' = s /\ phase' = "ready"
  BY DEF CatalogueArrives
<1>3. s \in AppStates /\ ListIsHeld' /\ NavigationRestores'
  BY <1>1, <1>2, StartedType, UnknownAfterStart DEF CatalogueArrives, ListIsHeld, NavigationRestores
<1>4. s.browser.usage = None \/ s.browser = None
  BY <1>1, MountedType DEF Started
<1>5. /\ s.dataset = Either(IdOn(served, "dataset"), IdOn(a, "dataset"))
      /\ s.browser # None <=> (a.page = "provider" \/ s.dataset # None)
      /\ s.browser # None => s.selected = None
      /\ s.selected = IF s.browser # None THEN None ELSE IdOn(served, "resource")
      /\ ~s.strayed => served.page = a.page /\ served.id = a.id
  BY <1>1, MountedType DEF Started
<1> HIDE DEF s
<1>6. ASSUME s.browser # None
      PROVE  \A j \in Siblings : OnProvider(entries[j].address) => IdOn(entries[j].address, "dataset") = s.dataset
  <2> SUFFICES ASSUME NEW j \in Siblings, OnProvider(entries[j].address)
               PROVE  IdOn(entries[j].address, "dataset") = s.dataset
    OBVIOUS
  <2>1. Agree(served, entries[j].address)
    BY <1>1 DEF TabInvariant, PageIsOfTheDataset
  <2>2. Agree(a, entries[j].address)
    BY <1>1 DEF Siblings, History, DocumentsAreOfOneDataset
  <2>3. CASE IdOn(served, "dataset") # None
    <3>1. OnProvider(served) /\ s.dataset = IdOn(served, "dataset")
      BY <1>1, <1>5, <2>3, IdsOfAddresses DEF OnProvider, Either
    <3> QED BY <2>1, <3>1 DEF Agree
  <2>4. CASE IdOn(served, "dataset") = None
    <3>1. s.dataset = IdOn(a, "dataset")
      BY <1>5, <2>4 DEF Either
    <3>2. OnProvider(a)
      BY <1>1, <1>5, <1>6, <3>1, IdsOfAddresses DEF OnProvider
    <3> QED BY <2>2, <3>1, <3>2 DEF Agree
  <2> QED BY <2>3, <2>4
<1>7. ASSUME ~s.strayed PROVE ResourceOnItsPage(s, a)
  BY <1>1, <1>5, <1>7, IdsOfAddresses DEF ResourceOnItsPage, IdOn
<1>8. CASE ResourceOnItsPage(s, a)
  <2>1. /\ Settled(s, a) \in Addresses /\ Meaning(Settled(s, a)) = Shown(s) /\ Shown(s) \in Views
        /\ s.browser # None <=> OnProvider(Settled(s, a))
        /\ s.browser # None => IdOn(Settled(s, a), "dataset") = s.dataset
    BY <1>1, <1>3, <1>8, SettledMeansShown
  <2>2. e \in Entries /\ e.document = entries[at].document /\ e.address = Settled(s, a) /\ e.shows = v
    BY <1>1, <2>1 DEF Entry, Entries
  <2> HIDE DEF e
  <2>3. \A j \in DOMAIN entries : entries[j].document = e.document => Agree(e.address, entries[j].address)
    BY <1>6, <2>1, <2>2 DEF Agree, Siblings
  <2>4. e.shows # None => Meaning(e.address) = e.shows
    BY <2>1, <2>2
  <2>5. History(entries') /\ DOMAIN entries' = DOMAIN entries /\ entries'[at] = e
    BY <1>1, <1>2, <2>2, <2>3, <2>4, ReplacedEntry
  <2>6. History(entries)'
    BY <2>5 DEF History, DocumentsAreOfOneDataset, EntriesRemember
  <2>7. /\ StaysOnPage(s, entries'[at'].address) /\ Meaning(entries'[at'].address) = Shown(s) /\ Fits(s)
        /\ s.browser # None \/ ~OnProvider(entries'[at'].address)
    BY <1>2, <1>4, <2>1, <2>2, <2>5 DEF StaysOnPage, Fits
  <2> QED BY <1>1, <1>2, <1>3, <2>5, <2>6, <2>7, ReadyAgain
<1>9. CASE ~ResourceOnItsPage(s, a)
  <2>1. s.browser = None /\ s.selected # None /\ s.strayed
    BY <1>7, <1>9 DEF ResourceOnItsPage
  <2>2. Settled(s, a) = a /\ v = None
    BY <2>1 DEF Settled
  <2>3. e \in Entries /\ e.document = entries[at].document /\ e.address = a /\ e.shows = None
    BY <1>1, <2>2 DEF Entry, Entries
  <2> HIDE DEF e
  <2>4. \A j \in DOMAIN entries : entries[j].document = e.document => Agree(e.address, entries[j].address)
    BY <1>1, <2>3 DEF History, DocumentsAreOfOneDataset
  <2>5. History(entries') /\ DOMAIN entries' = DOMAIN entries
    BY <1>1, <1>2, <2>3, <2>4, ReplacedEntry
  <2>6. History(entries)'
    BY <2>5 DEF History, DocumentsAreOfOneDataset, EntriesRemember
  <2>7. StaysOnPage(s, entries'[at'].address) /\ Fits(s)
    BY <2>1 DEF StaysOnPage, Fits
  <2> QED BY <1>1, <1>2, <1>3, <2>1, <2>5, <2>6, <2>7, ReadyAgain
<1> QED BY <1>8, <1>9

\* What the popstate handler makes of an entry of the same document.
LEMMA PopStateIsSound ==
  ASSUME TabInvariant, phase = "ready", NEW i \in DOMAIN entries,
         entries[i].document = entries[at].document
  PROVE  LET a == entries[i].address
             s == PopState(app, a)
         IN /\ s \in AppStates /\ ResourceOnItsPage(s, a) /\ StaysOnPage(s, a) /\ Fits(s)
            /\ s.browser # None <=> OnProvider(a)
            /\ IF app.browser = None \/ s.browser = None THEN Shown(s) = Meaning(a)
               ELSE Shown(s) = Shown(app)
            /\ ListUnknown(s) # None => ListUnknown(s) = Held(s)
<1> DEFINE a == entries[i].address
           s == PopState(app, a)
<1>1. app \in AppStates /\ a \in Addresses /\ at \in DOMAIN entries
  BY EntryFields DEF TabInvariant, TypeOK
<1>2. s \in AppStates
  BY <1>1, PopStateType
<1>3. ListUnknown(s) # None => ListUnknown(s) = Held(s)
  BY <1>1, UnknownAfterPopState
<1>4. /\ s.dataset = IdOn(a, "dataset") /\ s.selected = IdOn(a, "resource") /\ s.category = IdOn(a, "category")
      /\ s.query = ParseCatalogue(a).query /\ s.filters = ParseCatalogue(a).filters
      /\ s.browser = IF ~OnProvider(a) THEN None ELSE IF app.browser # None THEN app.browser ELSE Mounted(a)
  BY DEF PopState
<1> HIDE DEF s
<1>5. s.browser # None <=> OnProvider(a)
  BY <1>1, <1>4, MountedType
<1>6. ResourceOnItsPage(s, a)
  BY <1>1, <1>4, IdsOfAddresses DEF ResourceOnItsPage
<1>7. StaysOnPage(s, a)
  BY <1>4, <1>5 DEF StaysOnPage
<1>8. ASSUME s.browser # None, app.browser # None
      PROVE  s.dataset = app.dataset /\ s.browser = app.browser
  <2>1. OnProvider(entries[at].address) /\ app.dataset = IdOn(entries[at].address, "dataset")
    BY <1>8 DEF TabInvariant, BrowserOnItsPage
  <2>2. Agree(entries[at].address, a)
    BY <1>1 DEF TabInvariant, History, DocumentsAreOfOneDataset
  <2> QED BY <1>4, <1>5, <1>8, <2>1, <2>2 DEF Agree
<1>9. Fits(s)
  <2>1. CASE s.browser = None
    BY <2>1 DEF Fits
  <2>2. CASE OnProvider(a) /\ app.browser = None
    <3>1. s.browser.usage = None
      BY <1>1, <1>4, <2>2, MountedType
    <3> QED BY <3>1 DEF Fits
  <2>3. CASE OnProvider(a) /\ app.browser # None
    BY <1>5, <1>8, <2>3 DEF TabInvariant, PanelFits, Fits
  <2> QED BY <1>5, <2>1, <2>2, <2>3
<1>10. ASSUME app.browser = None \/ s.browser = None
      PROVE  Shown(s) = Meaning(a)
  <2>1. CASE OnProvider(a)
    <3>1. s.browser = Mounted(a) /\ s.browser # None
      BY <1>4, <1>5, <1>10, <2>1
    <3>2. s.browser.query = ParseProvider(a).query /\ s.browser.filters = ParseProvider(a).filters
      BY <3>1 DEF Mounted
    <3> QED BY <1>1, <1>4, <2>1, <3>1, <3>2, Meanings DEF Shown
  <2>2. CASE ~OnProvider(a) /\ a.page = "resource"
    BY <1>1, <1>4, <2>2, IdsOfAddresses, Meanings DEF Shown
  <2>3. CASE ~OnProvider(a) /\ a.page # "resource"
    BY <1>1, <1>4, <2>3, IdsOfAddresses, Meanings DEF Shown
  <2> QED BY <2>1, <2>2, <2>3
<1>11. s.browser # None /\ app.browser # None => Shown(s) = Shown(app)
  BY <1>8 DEF Shown
<1> QED BY <1>2, <1>5, <1>6, <1>7, <1>10, <1>3, <1>9, <1>11 DEF s

LEMMA TraverseStep ==
  ASSUME TabInvariant, NEW i \in DOMAIN entries, Traverse(i)
  PROVE  TabInvariant' /\ ListIsHeld' /\ NavigationRestores'
<1>1. at \in DOMAIN entries /\ at \in Nat /\ i # at /\ at' = i /\ i \in DOMAIN entries
  BY EntryFields DEF Traverse
<1>2. CASE entries[i].document # entries[at].document
  <2>1. Fetch(entries[i].address) /\ Forget /\ UNCHANGED entries
    BY <1>2 DEF Traverse
  <2> QED BY <1>1, <2>1, FetchStep DEF Forget, ListIsHeld, NavigationRestores
<1>3. CASE entries[i].document = entries[at].document /\ phase # "ready"
  <2>1. Forget /\ UNCHANGED <<entries, served, phase, app>>
    BY <1>3 DEF Traverse
  <2>2. phase' \in {"loading", "failed"}
    BY <1>3, <2>1 DEF TabInvariant, TypeOK
  <2> QED BY <1>1, <1>3, <2>1, <2>2, WaitingStep DEF Forget, ListIsHeld, NavigationRestores
<1>4. CASE entries[i].document = entries[at].document /\ phase = "ready"
  <2> DEFINE a == entries[i].address
             s == PopState(app, a)
             kept == app.browser # None /\ s.browser # None
             e == Entry(Settled(s, a), entries[i].document, entries[i].shows)
  <2>1. /\ app' = s /\ phase' = "ready"
        /\ entries' = [entries EXCEPT ![i].address = IF kept THEN @ ELSE Settled(s, @)]
        /\ expected' = IF kept THEN Shown(app) ELSE entries[i].shows
        /\ list' = ListUnknown(s)
    BY <1>4 DEF Traverse
  <2>2. /\ s \in AppStates /\ ResourceOnItsPage(s, a) /\ StaysOnPage(s, a) /\ Fits(s)
        /\ s.browser # None <=> OnProvider(a)
        /\ IF app.browser = None \/ s.browser = None THEN Shown(s) = Meaning(a)
           ELSE Shown(s) = Shown(app)
        /\ ListUnknown(s) # None => ListUnknown(s) = Held(s)
    BY <1>4, PopStateIsSound
  <2>3. /\ entries[i] \in Entries /\ a \in Addresses /\ History(entries)
        /\ entries[i].shows \in Views \cup {None}
    BY EntryFields DEF TabInvariant
  <2>4. entries \in Seq(Entries)
    BY <2>3 DEF History
  <2> HIDE DEF s
  <2>5. ListIsHeld'
    BY <2>1, <2>2 DEF ListIsHeld
  <2>6. CASE kept
    <3>1. entries' = entries
      BY <2>1, <2>3, <2>4, <2>6 DEF Entries
    <3>2. OnProvider(a) /\ OnProvider(entries[at].address)
      BY <1>4, <2>2, <2>6 DEF TabInvariant, BrowserOnItsPage
    <3>3. TypeOK' /\ PageIsOfTheDataset' /\ PanelFits'
      BY <1>1, <2>1, <2>2, <3>1 DEF TypeOK, PageIsOfTheDataset, PanelFits
    <3>4. BrowserOnItsPage'
      BY <1>1, <2>1, <2>2, <3>1 DEF BrowserOnItsPage, StaysOnPage
    <3>5. LocationShowsView'
      BY <1>1, <1>4, <3>1, <3>2 DEF LocationShowsView, Siblings
    <3>6. History(entries)'
      BY <2>3, <3>1 DEF History, DocumentsAreOfOneDataset, EntriesRemember
    <3>7. NavigationRestores'
      BY <2>1, <2>2, <2>6 DEF NavigationRestores
    <3> QED BY <2>5, <3>3, <3>4, <3>5, <3>6, <3>7 DEF TabInvariant
  <2>7. CASE ~kept
    <3>1. Shown(s) = Meaning(a)
      BY <2>2, <2>7
    <3>2. entries[i].shows \in {None, Shown(s)}
      BY <2>3, <3>1 DEF History, EntriesRemember
    <3>3. /\ e \in Entries /\ e.document = entries[i].document /\ e.address = Settled(s, a)
          /\ \A j \in DOMAIN entries : entries[j].document = e.document => Agree(e.address, entries[j].address)
          /\ e.shows # None => Meaning(e.address) = e.shows
      BY <2>2, <2>3, <3>2, SettledEntry
    <3>4. entries' = [entries EXCEPT ![i] = e]
      <4>1. [entries[i] EXCEPT !.address = Settled(s, a)] = e
        BY <2>3 DEF Entry, Entries
      <4> HIDE DEF e
      <4>2. entries' = [entries EXCEPT ![i].address = Settled(s, a)]
        BY <2>1, <2>7
      <4> QED BY <4>1, <4>2
    <3> HIDE DEF e
    <3>5. History(entries') /\ DOMAIN entries' = DOMAIN entries /\ entries'[i] = e
      BY <2>3, <3>3, <3>4, ReplacedEntry
    <3>6. History(entries)'
      BY <3>5 DEF History, DocumentsAreOfOneDataset, EntriesRemember
    <3>7. /\ StaysOnPage(s, entries'[at'].address) /\ Meaning(entries'[at'].address) = Shown(s)
          /\ s.browser # None \/ ~OnProvider(entries'[at'].address)
      BY <1>1, <2>2, <2>3, <3>3, <3>5, SettledMeansShown DEF StaysOnPage
    <3>8. TabInvariant'
      BY <1>1, <2>1, <2>2, <3>5, <3>6, <3>7, ReadyAgain
    <3>9. NavigationRestores'
      BY <2>1, <2>7, <3>2 DEF NavigationRestores, Shown
    <3> QED BY <2>5, <3>8, <3>9
  <2> QED BY <2>6, <2>7
<1> QED BY <1>2, <1>3, <1>4

----------------------------------------------------------------------------
(* The catalogue and the provider browser *)

LEMMA ChoicesAreOffered ==
  ASSUME NEW pairs, NEW name, NEW c \in Choices(pairs, name)
  PROVE  c \subseteq pairs
BY DEF Choices, Values

LEMMA BaseIsAddress == /\ Base \in Addresses
                       /\ \A r \in DOMAIN Resources : ResourcePage(r) \in Addresses
<1>1. {} \in SUBSET (Filters \cup {"q", "source"} \X Texts)
  OBVIOUS
<1>2. None \in Ids /\ \A r \in DOMAIN Resources : r \in Ids
  BY DEF Ids
<1> QED BY <1>1, <1>2 DEF Base, ResourcePage, Address, Addresses

LEMMA ActiveAddress ==
  ASSUME TabInvariant, phase = "ready"
  PROVE  /\ app \in AppStates /\ at \in DOMAIN entries /\ entries[at].address \in Addresses
         /\ StaysOnPage(app, entries[at].address) /\ Fits(app)
         /\ app.browser # None => app.browser \in BrowserStates
BY EntryFields DEF TabInvariant, TypeOK, BrowserOnItsPage, StaysOnPage, PanelFits, AppStates

LEMMA TypeStep ==
  ASSUME TabInvariant, NEW q \in Queries \cup {""}, Type(q)
  PROVE  TabInvariant'
<1> DEFINE s == [app EXCEPT !.query = q]
<1>1. phase = "ready" /\ app.browser = None /\ app.selected = None /\ Become(s, entries[at].address)
  BY DEF Type, OnList
<1>2. q \in Texts
  BY DEF Texts
<1>3. s \in AppStates /\ s.browser = None /\ s.selected = None
  BY <1>1, <1>2, ActiveAddress DEF AppStates
<1> QED BY <1>1, <1>3, ActiveAddress, BecomeStep DEF Sound, ResourceOnItsPage, StaysOnPage, Fits

LEMMA FilterStep ==
  ASSUME TabInvariant, NEW pair \in CatalogueFilters, Filter(pair)
  PROVE  TabInvariant'
<1> DEFINE s == [app EXCEPT !.filters = (@ \ Values(@, pair[1])) \cup {pair}]
<1>1. phase = "ready" /\ app.browser = None /\ app.selected = None /\ Become(s, entries[at].address)
  BY DEF Filter, OnList
<1>2. app \in AppStates /\ (app.filters \ Values(app.filters, pair[1])) \cup {pair} \in SUBSET CatalogueFilters
  BY <1>1, ActiveAddress DEF AppStates
<1>3. s \in AppStates /\ s.browser = None /\ s.selected = None
  BY <1>1, <1>2 DEF AppStates
<1> QED BY <1>1, <1>3, ActiveAddress, BecomeStep DEF Sound, ResourceOnItsPage, StaysOnPage, Fits

LEMMA ClearAllStep ==
  ASSUME TabInvariant, ClearAll
  PROVE  TabInvariant'
<1> DEFINE s == [app EXCEPT !.query = "", !.filters = {}, !.category = None]
<1>1. phase = "ready" /\ app.browser = None /\ app.selected = None /\ Become(s, entries[at].address)
  BY DEF ClearAll, OnList
<1>2. "" \in Texts
  BY DEF Texts
<1>3. s \in AppStates /\ s.browser = None /\ s.selected = None
  BY <1>1, <1>2, ActiveAddress DEF AppStates
<1> QED BY <1>1, <1>3, ActiveAddress, BecomeStep DEF Sound, ResourceOnItsPage, StaysOnPage, Fits

LEMMA ChooseCategoryStep ==
  ASSUME TabInvariant, NEW c \in Categories \cup {None}, ChooseCategory(c)
  PROVE  TabInvariant'
<1> DEFINE s == [app EXCEPT !.category = c]
<1>1. phase = "ready" /\ app.browser = None /\ app.selected = None /\ PushAndBecome(s, CatalogueLocation(c, "", {}))
  BY DEF ChooseCategory, OnList
<1>2. CatalogueLocation(c, "", {}) \in Addresses
  <2>1. "" \in Texts /\ {} \in SUBSET Filters
    BY DEF Texts
  <2> QED BY <2>1, LocationTypes
<1>3. s \in AppStates /\ s.browser = None /\ s.selected = None
  BY <1>1, ActiveAddress DEF AppStates
<1> QED BY <1>1, <1>2, <1>3, PushStep DEF Sound, ResourceOnItsPage, StaysOnPage, Fits

LEMMA OpenResourceStep ==
  ASSUME TabInvariant, NEW r \in DOMAIN Resources, OpenResource(r)
  PROVE  TabInvariant' /\ ListIsHeld' /\ NavigationRestores'
<1> DEFINE s == [app EXCEPT !.selected = r, !.dataset = None]
<1>1. /\ phase = "ready" /\ app.browser = None /\ app.selected = None
      /\ PushAndBecome(s, ResourcePage(r)) /\ list' = Shown(app) /\ expected' = None
  BY DEF OpenResource, OnList
<1>2. /\ s \in AppStates /\ s.browser = None /\ s.selected = r
      /\ s.query = app.query /\ s.filters = app.filters /\ s.category = app.category
  BY <1>1, ActiveAddress DEF AppStates
<1>3. ResourcePage(r) \in Addresses /\ ResourcePage(r).page = "resource" /\ ResourcePage(r).id = r
  BY BaseIsAddress DEF ResourcePage, Address
<1>4. TabInvariant'
  BY <1>1, <1>2, <1>3, PushStep DEF Sound, ResourceOnItsPage, StaysOnPage, Fits
<1>5. ListIsHeld'
  BY <1>1, <1>2 DEF ListIsHeld, Held, PushAndBecome, Shown
<1> QED BY <1>1, <1>4, <1>5 DEF NavigationRestores

LEMMA CloseResourceStep ==
  ASSUME TabInvariant, ListIsHeld, CloseResource
  PROVE  TabInvariant' /\ ListIsHeld' /\ NavigationRestores'
<1> DEFINE s == [app EXCEPT !.selected = None, !.browser = None, !.dataset = None]
<1>1. phase = "ready" /\ PushAndBecome(s, Base) /\ expected' = list /\ list' = None
  BY DEF CloseResource
<1>2. /\ s \in AppStates /\ s.browser = None /\ s.selected = None
      /\ s.query = app.query /\ s.filters = app.filters /\ s.category = app.category
  BY <1>1, ActiveAddress DEF AppStates
<1>3. TabInvariant'
  BY <1>1, <1>2, BaseIsAddress, PushStep DEF Sound, ResourceOnItsPage, StaysOnPage, Fits
<1>4. NavigationRestores'
  BY <1>1, <1>2 DEF NavigationRestores, ListIsHeld, Held, PushAndBecome, Shown
<1> QED BY <1>1, <1>3, <1>4 DEF ListIsHeld

LEMMA AnchorStep ==
  ASSUME TabInvariant, Anchor
  PROVE  TabInvariant' /\ ListIsHeld' /\ NavigationRestores'
<1> DEFINE a == entries[at].address
           s == PopState(app, a)
           kept == app.browser # None /\ s.browser # None
<1>1. /\ phase = "ready" /\ list' = ListUnknown(s)
      /\ expected' = IF app.strayed THEN None ELSE Shown(app)
      /\ ~kept => PushAndBecome(s, a)
      /\ kept => /\ at' = at + 1 /\ app' = s /\ UNCHANGED <<served, phase>>
                 /\ entries' = Append(SubSeq(entries, 1, at), entries[at])
  BY DEF Anchor
<1>2. /\ s \in AppStates /\ ResourceOnItsPage(s, a) /\ StaysOnPage(s, a) /\ Fits(s) /\ a \in Addresses
      /\ s.browser # None <=> OnProvider(a)
      /\ IF app.browser = None \/ s.browser = None THEN Shown(s) = Meaning(a) ELSE Shown(s) = Shown(app)
      /\ ListUnknown(s) # None => ListUnknown(s) = Held(s)
  BY <1>1, ActiveAddress, PopStateIsSound
<1> HIDE DEF s
<1>3. CASE ~kept
  <2>1. phase' = "ready" /\ app' = s
    BY <1>1, <1>3 DEF PushAndBecome
  <2>2. TabInvariant'
    BY <1>1, <1>2, <1>3, PushStep DEF Sound
  <2>3. ASSUME ~app.strayed PROVE Shown(app) = Meaning(a)
    <3>1. ~OnProvider(a)
      BY <1>1, <1>2, <1>3, <2>3 DEF TabInvariant, BrowserOnItsPage
    <3> QED BY <1>1, <2>3, <3>1 DEF TabInvariant, LocationShowsView, Meaning
  <2>4. NavigationRestores'
    BY <1>1, <1>2, <1>3, <2>1, <2>3 DEF NavigationRestores
  <2> QED BY <1>1, <1>2, <2>1, <2>2, <2>4 DEF ListIsHeld
<1>4. CASE kept
  <2>1. phase' = "ready" /\ app' = s /\ at' = at + 1
    BY <1>1, <1>4
  <2>2. ListIsHeld' /\ NavigationRestores'
    BY <1>1, <1>2, <1>4, <2>1 DEF ListIsHeld, NavigationRestores
  <2>3. at \in DOMAIN entries /\ at \in Nat /\ History(entries) /\ entries[at] \in Entries
        /\ entries[at].document \in Nat
    BY EntryFields DEF TabInvariant, TypeOK
  <2>4. /\ \A j \in DOMAIN entries :
             entries[j].document = entries[at].document => Agree(a, entries[j].address)
        /\ entries[at].shows # None => Meaning(a) = entries[at].shows
    BY <2>3 DEF History, DocumentsAreOfOneDataset, EntriesRemember
  <2>5. /\ History(entries') /\ DOMAIN entries' = 1 .. at + 1 /\ entries'[at + 1] = entries[at]
        /\ \A j \in 1 .. at : entries'[j] = entries[j]
    <3> DEFINE e == entries[at]
    <3>1. /\ e \in Entries /\ e.document >= entries[at].document
          /\ \A j \in DOMAIN entries : entries[j].document = e.document => Agree(e.address, entries[j].address)
          /\ e.shows # None => Meaning(e.address) = e.shows
      BY <2>3, <2>4
    <3>2. entries' = Append(SubSeq(entries, 1, at), e)
      BY <1>1, <1>4
    <3>3. e = entries[at]
      OBVIOUS
    <3> HIDE DEF e
    <3> QED BY <2>3, <3>1, <3>2, <3>3, AddedEntry
  <2>6. History(entries)'
    BY <2>5 DEF History, DocumentsAreOfOneDataset, EntriesRemember
  <2>7. at \in 1 .. at /\ entries'[at] = entries[at] /\ entries'[at'].address = a
    BY <2>1, <2>3, <2>5 DEF History
  <2>8. OnProvider(a) /\ at \in Siblings' \ {at'}
    BY <1>2, <1>4, <2>1, <2>3, <2>5, <2>7 DEF Siblings
  <2>9. LocationShowsView'
    BY <2>7, <2>8 DEF LocationShowsView
  <2>10. TypeOK' /\ PageIsOfTheDataset' /\ PanelFits' /\ BrowserOnItsPage'
    BY <1>2, <1>4, <2>1, <2>3, <2>5, <2>7, <2>8
       DEF TypeOK, PageIsOfTheDataset, PanelFits, BrowserOnItsPage, StaysOnPage
  <2> QED BY <2>2, <2>6, <2>9, <2>10 DEF TabInvariant
<1> QED BY <1>3, <1>4

LEMMA BrowseMappedStep ==
  ASSUME TabInvariant, BrowseMapped
  PROVE  TabInvariant'
<1> DEFINE mapped == Resources[app.selected].mapped
           a == Address("provider", None, {<<"source", mapped>>})
<1>1. phase = "ready" /\ app.selected # None /\ Follow(a)
  BY DEF BrowseMapped
<1>2. app.selected \in DOMAIN Resources
  BY <1>1, ActiveAddress DEF AppStates
<1>3. mapped \in Texts
  BY <1>2 DEF Texts
<1>4. {<<"source", mapped>>} \in SUBSET (Filters \cup {"q", "source"} \X Texts) /\ None \in Ids
  BY <1>3 DEF Ids
<1>5. a \in Addresses
  BY <1>4 DEF Address, Addresses
<1> QED BY <1>1, <1>5, FollowStep

LEMMA InventoryStep ==
  ASSUME TabInvariant, NEW load \in {"loading", "ready", "failed"},
         phase = "ready", app.browser # None, app' = [app EXCEPT !.browser.load = load],
         UNCHANGED <<entries, at, served, phase>>
  PROVE  TabInvariant'
<1>1. app \in AppStates /\ app.browser \in BrowserStates /\ Fits(app)
  BY ActiveAddress
<1> DEFINE b == [app.browser EXCEPT !.load = load]
<1>2. /\ b \in BrowserStates /\ b.query = app.browser.query /\ b.filters = app.browser.filters
      /\ b.usage = app.browser.usage /\ b.given = app.browser.given /\ b # None
  BY <1>1, BrowserAssumption DEF BrowserStates
<1>3. app' = [app EXCEPT !.browser = b]
  BY <1>1 DEF AppStates
<1> HIDE DEF b
<1>4. app' \in AppStates /\ app'.browser = b /\ app'.dataset = app.dataset /\ app'.strayed = app.strayed
  BY <1>1, <1>2, <1>3 DEF AppStates
<1>5. Fits(app')
  BY <1>1, <1>2, <1>4 DEF Fits
<1> QED BY <1>2, <1>4, <1>5, BrowserStep

LEMMA NarrowStep ==
  ASSUME TabInvariant, NEW q \in Texts, NEW F \in SUBSET ProviderFilters, Narrow(q, F)
  PROVE  TabInvariant'
<1> DEFINE s == [app EXCEPT !.browser.query = q, !.browser.filters = F,
                            !.browser.usage = None, !.browser.given = {}]
           b == [app.browser EXCEPT !.query = q, !.filters = F, !.usage = None, !.given = {}]
<1>1. phase = "ready" /\ app.browser # None /\ Become(s, entries[at].address)
  BY DEF Narrow, Browsing
<1>2. app \in AppStates /\ app.browser \in BrowserStates /\ StaysOnPage(app, entries[at].address)
  BY <1>1, ActiveAddress
<1>3. b \in BrowserStates /\ b.usage = None /\ b # None
  BY <1>2, BrowserAssumption DEF BrowserStates
<1>4. s = [app EXCEPT !.browser = b]
  BY <1>2 DEF AppStates
<1> HIDE DEF b, s
<1>5. s \in AppStates /\ s.browser = b /\ s.dataset = app.dataset
  BY <1>2, <1>3, <1>4 DEF AppStates
<1>6. Sound(s, entries[at].address)
  BY <1>1, <1>2, <1>3, <1>5, ActiveAddress DEF Sound, ResourceOnItsPage, StaysOnPage, Fits
<1> QED BY <1>1, <1>6, BecomeStep DEF s

LEMMA ToggleStep ==
  ASSUME TabInvariant, NEW f \in DOMAIN Files, Toggle(f)
  PROVE  TabInvariant'
<1> DEFINE u == IF app.browser.usage = f THEN None ELSE f
           b == [app.browser EXCEPT !.usage = u, !.given = {}]
<1>1. /\ phase = "ready" /\ app.browser # None /\ f \in Listed
      /\ UNCHANGED <<entries, at, served, phase>>
      /\ app' = [app EXCEPT !.browser.usage = IF @ = f THEN None ELSE f, !.browser.given = {}]
  BY DEF Toggle, Browsing
<1>2. app \in AppStates /\ app.browser \in BrowserStates
  BY <1>1, ActiveAddress
<1>3. /\ b \in BrowserStates /\ b.query = app.browser.query /\ b.filters = app.browser.filters
      /\ b.usage = u /\ b.given = {} /\ b # None
  BY <1>2, BrowserAssumption DEF BrowserStates
<1>4. app' = [app EXCEPT !.browser = b]
  BY <1>1, <1>2 DEF AppStates, BrowserStates
<1> HIDE DEF b
<1>5. app' \in AppStates /\ app'.browser = b /\ app'.dataset = app.dataset /\ app'.strayed = app.strayed
  BY <1>2, <1>3, <1>4 DEF AppStates
<1>6. Fits(app')
  BY <1>1, <1>3, <1>5 DEF Fits, Listed
<1> QED BY <1>1, <1>3, <1>5, <1>6, BrowserStep

LEMMA GiveStep ==
  ASSUME TabInvariant, NEW p \in Parameters, Give(p)
  PROVE  TabInvariant'
<1> DEFINE g == IF p \in app.browser.given THEN app.browser.given \ {p} ELSE app.browser.given \cup {p}
           b == [app.browser EXCEPT !.given = g]
<1>1. /\ phase = "ready" /\ app.browser # None /\ p \in Files[app.browser.usage].parameters
      /\ UNCHANGED <<entries, at, served, phase>>
      /\ app' = [app EXCEPT !.browser.given = IF p \in @ THEN @ \ {p} ELSE @ \cup {p}]
  BY DEF Give, Browsing
<1>2. app \in AppStates /\ app.browser \in BrowserStates /\ Fits(app)
  BY <1>1, ActiveAddress
<1>3. g \in SUBSET Parameters
  BY <1>2 DEF BrowserStates
<1>4. /\ b \in BrowserStates /\ b.query = app.browser.query /\ b.filters = app.browser.filters
      /\ b.usage = app.browser.usage /\ b.given = g /\ b # None
  BY <1>2, <1>3, BrowserAssumption DEF BrowserStates
<1>5. app' = [app EXCEPT !.browser = b]
  BY <1>1, <1>2 DEF AppStates, BrowserStates
<1>6. g \subseteq app.browser.given \cup {p}
  OBVIOUS
<1> HIDE DEF b, g
<1>7. app' \in AppStates /\ app'.browser = b /\ app'.dataset = app.dataset /\ app'.strayed = app.strayed
  BY <1>2, <1>4, <1>5 DEF AppStates
<1>8. Fits(app')
  BY <1>1, <1>2, <1>4, <1>6, <1>7 DEF Fits
<1> QED BY <1>1, <1>4, <1>7, <1>8, BrowserStep

LEMMA OpenDatasetStep ==
  ASSUME TabInvariant, NEW f \in DOMAIN Files, OpenDataset(f)
  PROVE  TabInvariant'
<1>1. Files[f].dataset \in Datasets
  BY DEF Datasets
<1>2. {} \in SUBSET (Filters \cup {"q", "source"} \X Texts) /\ Files[f].dataset \in Ids
  BY <1>1 DEF Ids
<1>3. Address("dataset", Files[f].dataset, {}) \in Addresses
  BY <1>1, <1>2 DEF Address, Addresses
<1> QED BY <1>3, FollowStep DEF OpenDataset

----------------------------------------------------------------------------
(* The invariant is inductive *)

LEMMA PagesAreAddresses == Pages \subseteq Addresses
<1>1. {} \in SUBSET (Filters \cup {"q", "source"} \X Texts)
  OBVIOUS
<1>2. /\ None \in Ids
      /\ \A c \in Categories : c \in Ids
      /\ \A d \in Datasets : d \in Ids
  BY DEF Ids
<1>3. Address("provider", None, {}) \in Addresses
  BY <1>1, <1>2 DEF Address, Addresses
<1>4. \A c \in Categories : Address("category", c, {}) \in Addresses
  BY <1>1, <1>2 DEF Address, Addresses
<1>5. \A d \in Datasets : Address("dataset", d, {}) \in Addresses
  BY <1>1, <1>2 DEF Address, Addresses
<1> QED BY <1>3, <1>4, <1>5, BaseIsAddress DEF Pages

LEMMA InitInvariant == Init => IInv
<1> SUFFICES ASSUME NEW a \in Pages, entries = <<Entry(a, 1, None)>>, at = 1, served = a,
                    phase = "loading", list = None, expected = None
             PROVE  IInv
  BY DEF Init
<1>1. a \in Addresses
  BY PagesAreAddresses
<1>2. Entry(a, 1, None) \in Entries
  BY <1>1 DEF Entry, Entries
<1>3. /\ entries \in Seq(Entries) /\ DOMAIN entries = {1} /\ entries[1].address = a
      /\ entries[1].document = 1 /\ entries[1].shows = None
  BY <1>2 DEF Entry
<1>4. History(entries)
  BY <1>3 DEF History, DocumentsAreOfOneDataset, EntriesRemember, Agree
<1>5. TypeOK /\ BrowserOnItsPage /\ PanelFits /\ LocationShowsView
  BY <1>1, <1>3 DEF TypeOK, BrowserOnItsPage, PanelFits, LocationShowsView
<1>6. PageIsOfTheDataset
  BY <1>3 DEF PageIsOfTheDataset, Siblings, Agree
<1> QED BY <1>4, <1>5, <1>6 DEF IInv, TabInvariant, ListIsHeld, NavigationRestores

LEMMA CatalogueStep ==
  ASSUME IInv, CatalogueNext
  PROVE  IInv'
<1> USE DEF IInv
<1>1. ASSUME NEW q \in Queries \cup {""}, Type(q) PROVE IInv'
  BY <1>1, TypeStep DEF Type, Forget, ListIsHeld, NavigationRestores
<1>2. ASSUME NEW pair \in CatalogueFilters, Filter(pair) PROVE IInv'
  BY <1>2, FilterStep DEF Filter, Forget, ListIsHeld, NavigationRestores
<1>3. ASSUME ClearAll PROVE IInv'
  BY <1>3, ClearAllStep DEF ClearAll, Forget, ListIsHeld, NavigationRestores
<1>4. ASSUME NEW c \in Categories \cup {None}, ChooseCategory(c) PROVE IInv'
  BY <1>4, ChooseCategoryStep DEF ChooseCategory, Forget, ListIsHeld, NavigationRestores
<1>5. ASSUME NEW r \in DOMAIN Resources, OpenResource(r) PROVE IInv'
  BY <1>5, OpenResourceStep
<1>6. ASSUME CloseResource PROVE IInv'
  BY <1>6, CloseResourceStep
<1>7. ASSUME BrowseMapped PROVE IInv'
  BY <1>7, BrowseMappedStep DEF BrowseMapped, Follow, Forget, ListIsHeld, NavigationRestores
<1> QED BY <1>1, <1>2, <1>3, <1>4, <1>5, <1>6, <1>7 DEF CatalogueNext

LEMMA ProviderStep ==
  ASSUME IInv, ProviderNext
  PROVE  IInv'
<1> USE DEF IInv
<1>1. ASSUME NEW load \in {"ready", "failed"}, InventoryIs(load) PROVE IInv'
  BY <1>1, InventoryStep DEF InventoryIs, Forget, ListIsHeld, NavigationRestores
<1>2. ASSUME RetryInventory PROVE IInv'
  BY <1>2, InventoryStep DEF RetryInventory, Forget, ListIsHeld, NavigationRestores
<1>3. ASSUME NEW q, NEW F, Narrow(q, F) PROVE ListIsHeld' /\ NavigationRestores'
  BY <1>3 DEF Narrow, Forget, ListIsHeld, NavigationRestores
<1>4. Browsing => app.browser.query \in Texts /\ app.browser.filters \in SUBSET ProviderFilters
  BY ActiveAddress DEF Browsing, BrowserStates
<1>5. ASSUME NEW q \in Queries \cup {""}, Search(q) PROVE IInv'
  <2>1. q \in Texts
    BY DEF Texts
  <2> QED BY <1>3, <1>4, <1>5, <2>1, NarrowStep DEF Search
<1>6. ASSUME NEW name, NEW c \in Choices(ProviderFilters, name), FilterFiles(name, c) PROVE IInv'
  <2> DEFINE F == (app.browser.filters \ Values(app.browser.filters, name)) \cup c
  <2>1. Browsing /\ Narrow(app.browser.query, F)
    BY <1>6 DEF FilterFiles
  <2>2. F \in SUBSET ProviderFilters
    BY <1>4, <2>1, ChoicesAreOffered
  <2> HIDE DEF F
  <2> QED BY <1>3, <1>4, <2>1, <2>2, NarrowStep
<1>7. ASSUME ClearFilters PROVE IInv'
  <2>1. "" \in Texts /\ {} \in SUBSET ProviderFilters
    BY DEF Texts
  <2> QED BY <1>3, <1>7, <2>1, NarrowStep DEF ClearFilters
<1>8. ASSUME NEW f \in DOMAIN Files, Toggle(f) PROVE IInv'
  BY <1>8, ToggleStep DEF Toggle, Forget, ListIsHeld, NavigationRestores
<1>9. ASSUME NEW f \in DOMAIN Files, OpenDataset(f) PROVE IInv'
  BY <1>9, OpenDatasetStep DEF OpenDataset, Follow, Forget, ListIsHeld, NavigationRestores
<1>10. ASSUME NEW p \in Parameters, Give(p) PROVE IInv'
  BY <1>10, GiveStep DEF Give, Forget, ListIsHeld, NavigationRestores
<1> QED BY <1>1, <1>2, <1>5, <1>6, <1>7, <1>8, <1>9, <1>10 DEF ProviderNext

LEMMA TabStep ==
  ASSUME IInv, TabNext
  PROVE  IInv'
<1> USE DEF IInv
<1>1. ASSUME CatalogueArrives PROVE IInv'
  BY <1>1, ArriveStep
<1>2. ASSUME CatalogueFails PROVE IInv'
  <2>1. at \in DOMAIN entries
    BY DEF TabInvariant, TypeOK
  <2> QED BY <1>2, <2>1, WaitingStep DEF CatalogueFails, Forget, ListIsHeld, NavigationRestores
<1>3. ASSUME Retry PROVE IInv'
  <2>1. at \in DOMAIN entries
    BY DEF TabInvariant, TypeOK
  <2> QED BY <1>3, <2>1, WaitingStep DEF Retry, Forget, ListIsHeld, NavigationRestores
<1>4. ASSUME Reload PROVE IInv'
  <2>1. at \in DOMAIN entries
    BY DEF TabInvariant, TypeOK
  <2> QED BY <1>4, <2>1, FetchStep DEF Reload, Forget, ListIsHeld, NavigationRestores
<1>5. ASSUME Anchor PROVE IInv'
  BY <1>5, AnchorStep
<1>6. ASSUME NEW i \in DOMAIN entries, Traverse(i) PROVE IInv'
  BY <1>6, TraverseStep
<1> QED BY <1>1, <1>2, <1>3, <1>4, <1>5, <1>6 DEF TabNext

LEMMA StutterStep ==
  ASSUME IInv, UNCHANGED vars
  PROVE  IInv'
<1>1. UNCHANGED <<entries, at, served, phase, app, list, expected>>
  BY DEF vars
<1>2. History(entries)'
  BY <1>1 DEF IInv, TabInvariant, History, DocumentsAreOfOneDataset, EntriesRemember
<1>3. TypeOK' /\ BrowserOnItsPage' /\ PanelFits' /\ ListIsHeld' /\ NavigationRestores'
  BY <1>1 DEF IInv, TabInvariant, TypeOK, BrowserOnItsPage, PanelFits, ListIsHeld, NavigationRestores
<1>4. PageIsOfTheDataset' /\ LocationShowsView'
  BY <1>1 DEF IInv, TabInvariant, PageIsOfTheDataset, LocationShowsView, Siblings
<1> QED BY <1>2, <1>3, <1>4 DEF IInv, TabInvariant

(* Everything above holds in every state: the address, the entries of the   *)
(* history, the page of the document and the open panel fit each other.     *)
THEOREM TabCorrect == Spec => []IInv
<1>1. Init => IInv
  BY InitInvariant
<1>2. IInv /\ [CatalogueNext \/ ProviderNext \/ TabNext]_vars => IInv'
  BY CatalogueStep, ProviderStep, TabStep, StutterStep
<1> QED BY <1>1, <1>2, PTL DEF Spec

(* The address in the bar, opened elsewhere, shows what is on the screen,   *)
(* for every catalogue and every history.                                   *)
THEOREM AddressesAreTrue == Spec => []LocationShowsView
<1>1. IInv => LocationShowsView
  BY DEF IInv, TabInvariant
<1> QED BY <1>1, TabCorrect, PTL

(* For any catalogue and any history, Back and Forward restore what was     *)
(* shown, links within the page change nothing, and the way back from a     *)
(* resource restores all of the list it was opened from, or none of it      *)
(* where the resource is there because its address was read.                *)
THEOREM NavigationIsAllOrNothing == Spec => []NavigationRestores
<1>1. IInv => NavigationRestores
  BY DEF IInv
<1> QED BY <1>1, TabCorrect, PTL

(* A command is offered only for the file of a dataset that was sampled and *)
(* answered, and with parameters given for that very file.                  *)
THEOREM CommandsAreProven == Spec => []CommandIsProven
<1>1. IInv => CommandIsProven
  <2> SUFFICES ASSUME IInv, CommandShown # None
               PROVE  CommandIsProven
    BY DEF CommandIsProven
  <2> DEFINE f == app.browser.usage
  <2>1. Browsing /\ f # None /\ Command(f, app.browser.given) /\ CommandShown = f
    BY DEF CommandShown
  <2>2. phase = "ready" /\ app.browser # None
    BY <2>1 DEF Browsing
  <2>3. f \in DOMAIN Files /\ Fits(app)
    BY <2>1, <2>2, ActiveAddress DEF IInv, BrowserStates
  <2>4. f \in Listed /\ app.browser.given \subseteq Files[f].parameters
    BY <2>1, <2>2, <2>3 DEF Fits, Listed
  <2>5. Files[f].direct /\ Files[f].https /\ Files[f].parameters \subseteq app.browser.given
    BY <2>1 DEF Command, ResolvedUrl
  <2>6. /\ Evidence[Files[f].dataset].outcome = "success" /\ Evidence[Files[f].dataset].selected = f
        /\ Files[f].attempt = "success"
    BY <2>1 DEF Command, Verification
  <2>7. Evidence[Files[f].dataset] = [outcome |-> "success", selected |-> f]
    <3>1. Files[f].dataset \in Datasets
      BY <2>3 DEF Datasets
    <3> QED BY <2>6, <3>1, BrowserAssumption
  <2> QED BY <2>1, <2>4, <2>5, <2>6, <2>7 DEF CommandIsProven
<1> QED BY <1>1, TabCorrect, PTL
=============================================================================
