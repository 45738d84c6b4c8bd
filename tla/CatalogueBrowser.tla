-------------------------- MODULE CatalogueBrowser --------------------------
(***************************************************************************)
(* One tab of the public catalogue: a static site whose pages all carry the *)
(* same application, so that a view has to be found again in three places   *)
(* that can disagree: the application's state, the address of the entry of  *)
(* the session history, and the ids written into the page that was served.  *)
(*                                                                          *)
(* Every action includes the effects it triggers: the application rewrites  *)
(* the address of the entry after each change.  A document that is left is  *)
(* gone: coming back to one of its entries fetches the page anew.  A query  *)
(* stands for its trimmed text; language, paging and wording are left out.  *)
(***************************************************************************)
EXTENDS Naturals, Sequences, FiniteSets

CONSTANTS
  Queries,            \* texts a visitor may search for, not empty
  CatalogueFilters,   \* <<name, value>> pairs the catalogue's filters offer
  Resources,          \* id |-> [text, values, categories, mapped]: the catalogue
  ProviderFilters,    \* <<name, value>> pairs the provider browser offers
  Files,              \* id |-> [dataset, text, values, https, direct, attempt, parameters]
  Evidence,           \* dataset |-> [outcome, selected]: what the verification run found
  MaxEntries,         \* the length of the session history
  None

VARIABLES
  entries,   \* the session history: address, document and what it last showed
  at,        \* the active entry
  served,    \* the address the active document was fetched for, until it has started
  phase,     \* of the catalogue: "loading", "failed" or "ready"
  app,       \* the state of the application, once ready
  list,      \* history: what the way back from the resource on the screen leads to
  expected   \* history: what the last step through the session history was to show

vars == <<entries, at, served, phase, app, list, expected>>

Categories == UNION {Resources[r].categories : r \in DOMAIN Resources}
Datasets == {Files[f].dataset : f \in DOMAIN Files}
Values(pairs, name) == {p \in pairs : p[1] = name}
Names(pairs) == {p[1] : p \in pairs}

Parameters == UNION {Files[f].parameters : f \in DOMAIN Files}

\* What a search can be for: a text that was typed, or the source a link came from.
Texts == Queries \cup {""} \cup {Resources[r].mapped : r \in DOMAIN Resources}

\* The states of a provider browser that is on the screen.
BrowserStates ==
  [query : Texts, filters : SUBSET ProviderFilters, load : {"loading", "failed", "ready"},
   usage : DOMAIN Files \cup {None}, given : SUBSET Parameters]

ASSUME BrowserAssumption ==
  /\ \A p \in CatalogueFilters \cup ProviderFilters : p[1] \notin {"q", "source"}
  /\ \A d \in Datasets :
       Evidence[d] = [outcome |-> Evidence[d].outcome, selected |-> Evidence[d].selected]
  /\ None \notin DOMAIN Resources \cup DOMAIN Files \cup Categories \cup Datasets \cup BrowserStates

Address(page, id, parameters) == [page |-> page, id |-> id, parameters |-> parameters]
Base == Address("catalogue", None, {})
ResourcePage(r) == Address("resource", r, {})

\* The pages the build writes; every other address of a run differs only in its parameters.
Pages ==
  {Base, Address("provider", None, {})}
    \cup {ResourcePage(r) : r \in DOMAIN Resources}
    \cup {Address("category", c, {}) : c \in Categories}
    \cup {Address("dataset", d, {}) : d \in Datasets}

-----------------------------------------------------------------------------
(* Addresses and the state they stand for *)

Query(parameters, names) ==
  IF \E p \in parameters : p[1] \in names
    THEN (CHOOSE p \in parameters : p[1] \in names)[2] ELSE ""

WithQuery(query, pairs) == pairs \cup IF query = "" THEN {} ELSE {<<"q", query>>}

ParseCatalogue(a) ==
  [query |-> Query(a.parameters, {"q"}), filters |-> a.parameters \cap CatalogueFilters]

\* Mutant of CatalogueLocation: choosing a category drops the rest.
LocationOfCategoryOnly(category, query, filters) ==
  IF category = None THEN Address("catalogue", None, WithQuery(query, filters))
  ELSE Address("category", category, {})

CatalogueLocation(category, query, filters) ==
  Address(IF category = None THEN "catalogue" ELSE "category", category, WithQuery(query, filters))

OnProvider(a) == a.page \in {"provider", "dataset"}

\* An address has a query of its own, or the source a link came from, never both.
ParseProvider(a) ==
  [query |-> Query(a.parameters, {"q", "source"}), filters |-> a.parameters \cap ProviderFilters]

ProviderLocation(dataset, query, filters) ==
  Address(IF dataset = None THEN "provider" ELSE "dataset", dataset, WithQuery(query, filters))

\* The provider browser mounts: it reads the address once, and fetches its inventory.
Mounted(a) ==
  [query |-> ParseProvider(a).query, filters |-> ParseProvider(a).filters,
   load |-> "loading", usage |-> None, given |-> {}]

IdOn(a, page) == IF a.page = page THEN a.id ELSE None
Either(x, y) == IF x = None THEN y ELSE x

\* The application starts: ids come from the page, where it carries one, the rest from the address.
\* It has strayed if the tab moved to another entry since the page was fetched.
Started(page, a) ==
  LET dataset == Either(IdOn(page, "dataset"), IdOn(a, "dataset"))
      provider == a.page = "provider" \/ dataset # None
  IN [query |-> ParseCatalogue(a).query, filters |-> ParseCatalogue(a).filters,
      category |-> Either(IdOn(page, "category"), IdOn(a, "category")),
      selected |-> IF provider THEN None ELSE IdOn(page, "resource"),
      dataset |-> dataset, browser |-> IF provider THEN Mounted(a) ELSE None,
      strayed |-> <<page.page, page.id>> # <<a.page, a.id>>]

\* Mutant of PopState: the handler forgets the filters.
PopStateKeepingFilters(old, a) ==
  [query |-> ParseCatalogue(a).query, filters |-> old.filters,
   category |-> IdOn(a, "category"), selected |-> IdOn(a, "resource"),
   dataset |-> IdOn(a, "dataset"),
   browser |-> IF ~OnProvider(a) THEN None
               ELSE IF old.browser # None THEN old.browser ELSE Mounted(a),
   strayed |-> FALSE]

\* A provider browser that stays on the screen keeps its state.
PopState(old, a) ==
  [query |-> ParseCatalogue(a).query, filters |-> ParseCatalogue(a).filters,
   category |-> IdOn(a, "category"), selected |-> IdOn(a, "resource"),
   dataset |-> IdOn(a, "dataset"),
   browser |-> IF ~OnProvider(a) THEN None
               ELSE IF old.browser # None THEN old.browser ELSE Mounted(a),
   strayed |-> FALSE]

\* What the effects leave in the address.
Settled(s, a) ==
  IF s.browser # None THEN ProviderLocation(s.dataset, s.browser.query, s.browser.filters)
  ELSE IF s.selected # None THEN a
  ELSE CatalogueLocation(s.category, s.query, s.filters)

Shown(s) ==
  IF s.browser # None
    THEN [on |-> "provider", id |-> s.dataset, query |-> s.browser.query, filters |-> s.browser.filters]
  ELSE IF s.selected # None
    THEN [on |-> "resource", id |-> s.selected, query |-> "", filters |-> {}]
  ELSE [on |-> "catalogue", id |-> s.category, query |-> s.query, filters |-> s.filters]

Whole == [on |-> "catalogue", id |-> None, query |-> "", filters |-> {}]

\* A resource that is shown because its address was read, and not because it was opened from a
\* list, knows no list: the address of a resource carries neither query nor filters.
ListUnknown(s) == IF s.browser = None /\ s.selected # None /\ ~s.strayed THEN Whole ELSE None

OnList == phase = "ready" /\ app.browser = None /\ app.selected = None
Browsing == phase = "ready" /\ app.browser # None /\ app.browser.load = "ready"

-----------------------------------------------------------------------------
(* Lists *)

Found ==
  {r \in DOMAIN Resources :
     /\ app.query \in {""} \cup Resources[r].text
     /\ app.filters \subseteq Resources[r].values
     /\ app.category \in {None} \cup Resources[r].categories}

\* Mutant of Verification: a dataset that answered speaks for all its files.
VerificationOfDataset(f) ==
  IF Evidence[Files[f].dataset].outcome = "success" THEN "live-verified" ELSE "metadata-only"

\* What the build says of a file: the one file of a dataset that was sampled, and that answered.
Verification(f) ==
  LET found == Evidence[Files[f].dataset]
  IN IF found.outcome = "success" /\ found.selected = f /\ Files[f].attempt = "success"
       THEN "live-verified"
     ELSE IF Files[f].attempt # None THEN "failed" ELSE "metadata-only"

Listed ==
  {f \in DOMAIN Files :
     /\ app.dataset \in {None, Files[f].dataset}
     /\ app.browser.query \in {""} \cup Files[f].text
     /\ app.browser.filters \subseteq Files[f].values \cup {<<"evidence", Verification(f)>>}}

ResolvedUrl(f, given) == Files[f].https /\ Files[f].parameters \subseteq given

Command(f, given) == Files[f].direct /\ Verification(f) = "live-verified" /\ ResolvedUrl(f, given)

\* The file whose panel shows a command to copy.
CommandShown ==
  IF Browsing /\ app.browser.usage # None /\ Command(app.browser.usage, app.browser.given)
    THEN app.browser.usage ELSE None

-----------------------------------------------------------------------------
(* The session history *)

Entry(a, document, shows) == [address |-> a, document |-> document, shows |-> shows]

\* The state changes, and with it the address of the active entry.
Become(s, a) ==
  /\ app' = s
  /\ entries' = [entries EXCEPT ![at] = Entry(Settled(s, a), @.document, Shown(s))]
  /\ UNCHANGED <<at, served, phase>>

\* The state changes on a new entry; those ahead of it are gone.
PushAndBecome(s, a) ==
  /\ at < MaxEntries
  /\ app' = s
  /\ entries' = Append(SubSeq(entries, 1, at), Entry(Settled(s, a), entries[at].document, Shown(s)))
  /\ at' = at + 1
  /\ UNCHANGED <<served, phase>>

Fetch(a) == served' = a /\ phase' = "loading" /\ app' = None

Forget == list' = None /\ expected' = None

Init ==
  \E a \in Pages :
    /\ entries = <<Entry(a, 1, None)>> /\ at = 1
    /\ served = a /\ phase = "loading" /\ app = None
    /\ list = None /\ expected = None

CatalogueArrives ==
  /\ phase = "loading"
  /\ LET a == entries[at].address
         s == Started(served, a)
     IN /\ app' = s
        /\ entries' = [entries EXCEPT ![at] =
             Entry(Settled(s, a), @.document, IF s.strayed THEN None ELSE Shown(s))]
  /\ phase' = "ready" /\ served' = None /\ expected' = None
  /\ list' = ListUnknown(Started(served, entries[at].address))
  /\ UNCHANGED at

CatalogueFails ==
  /\ phase = "loading" /\ phase' = "failed"
  /\ UNCHANGED <<entries, at, served, app>> /\ Forget

Retry ==
  /\ phase = "failed" /\ phase' = "loading"
  /\ UNCHANGED <<entries, at, served, app>> /\ Forget

Reload ==
  /\ Fetch(entries[at].address)
  /\ UNCHANGED <<entries, at>> /\ Forget

\* A link that the browser follows itself: a new document.
Follow(a) ==
  /\ at < MaxEntries
  /\ entries' = Append(SubSeq(entries, 1, at), Entry(a, entries[at].document + 1, None))
  /\ at' = at + 1
  /\ Fetch(a) /\ Forget

\* Back or Forward.  Within a document that has started, the popstate handler runs; within one
\* that has not, nothing does.  A provider browser that stays mounted shows what it did.
Traverse(i) ==
  /\ i \in {at - 1, at + 1} \cap DOMAIN entries /\ at' = i
  /\ LET target == entries[i] IN
     IF target.document # entries[at].document
       THEN Fetch(target.address) /\ Forget /\ UNCHANGED entries
     ELSE IF phase # "ready" THEN Forget /\ UNCHANGED <<entries, served, phase, app>>
     ELSE LET s == PopState(app, target.address)
              kept == app.browser # None /\ s.browser # None
          IN /\ app' = s
             /\ entries' = [entries EXCEPT ![i].address = IF kept THEN @ ELSE Settled(s, @)]
             /\ expected' = IF kept THEN Shown(app) ELSE target.shows
             /\ list' = ListUnknown(s)
             /\ UNCHANGED <<served, phase>>

\* A link within the page (the navigation, the skip link, "jump to access") adds an entry of
\* the same address, and browsers fire popstate for it.
Anchor ==
  /\ phase = "ready"
  /\ LET s == PopState(app, entries[at].address) IN
     /\ IF app.browser # None /\ s.browser # None
          THEN /\ at < MaxEntries /\ at' = at + 1 /\ app' = s
               /\ entries' = Append(SubSeq(entries, 1, at), entries[at])
               /\ UNCHANGED <<served, phase>>
          ELSE PushAndBecome(s, entries[at].address)
     /\ list' = ListUnknown(s)
  /\ expected' = IF app.strayed THEN None ELSE Shown(app)

-----------------------------------------------------------------------------
(* The catalogue *)

Type(q) ==
  /\ OnList /\ q # app.query
  /\ Become([app EXCEPT !.query = q], entries[at].address) /\ Forget

\* One of a group's values instead of another; only clearing all of them gives none.
Filter(pair) ==
  /\ OnList /\ pair \notin app.filters
  /\ Become([app EXCEPT !.filters = (@ \ Values(@, pair[1])) \cup {pair}], entries[at].address)
  /\ Forget

\* The category is one of the filters.
ClearAll ==
  /\ OnList /\ (app.query # "" \/ app.filters # {} \/ app.category # None)
  /\ Become([app EXCEPT !.query = "", !.filters = {}, !.category = None], entries[at].address)
  /\ Forget

ChooseCategory(c) ==
  /\ OnList /\ c # app.category
  /\ PushAndBecome([app EXCEPT !.category = c], CatalogueLocation(c, "", {})) /\ Forget

OpenResource(r) ==
  /\ OnList /\ r \in Found
  /\ PushAndBecome([app EXCEPT !.selected = r, !.dataset = None], ResourcePage(r))
  /\ list' = Shown(app) /\ expected' = None

\* "Back to the catalogue" and the brand: a step forward in the history, to the query and the
\* filters the application holds.
CloseResource ==
  /\ phase = "ready" /\ ~OnList
  /\ PushAndBecome([app EXCEPT !.selected = None, !.browser = None, !.dataset = None], Base)
  /\ expected' = list /\ list' = None

BrowseMapped ==
  /\ phase = "ready" /\ app.browser = None /\ app.selected # None
  /\ Resources[app.selected].mapped # None
  /\ Follow(Address("provider", None, {<<"source", Resources[app.selected].mapped>>}))

-----------------------------------------------------------------------------
(* The provider browser *)

InventoryIs(load) ==
  /\ phase = "ready" /\ app.browser # None /\ app.browser.load = "loading"
  /\ app' = [app EXCEPT !.browser.load = load]
  /\ UNCHANGED <<entries, at, served, phase>> /\ Forget

RetryInventory ==
  /\ phase = "ready" /\ app.browser # None /\ app.browser.load = "failed"
  /\ app' = [app EXCEPT !.browser.load = "loading"]
  /\ UNCHANGED <<entries, at, served, phase>> /\ Forget

\* Any change of the filters closes the panel that was open.
Narrow(query, filters) ==
  /\ Browsing /\ (query # app.browser.query \/ filters # app.browser.filters)
  /\ Become([app EXCEPT !.browser.query = query, !.browser.filters = filters,
                        !.browser.usage = None, !.browser.given = {}], entries[at].address)
  /\ Forget

Search(q) == Browsing /\ Narrow(q, app.browser.filters)

\* A select offers its values and "all".
FilterFiles(name, chosen) ==
  Browsing /\ Narrow(app.browser.query, (app.browser.filters \ Values(app.browser.filters, name)) \cup chosen)

ClearFilters == Narrow("", {})

\* A panel starts empty.
Toggle(f) ==
  /\ Browsing /\ f \in Listed
  /\ app' = [app EXCEPT !.browser.usage = IF @ = f THEN None ELSE f, !.browser.given = {}]
  /\ UNCHANGED <<entries, at, served, phase>> /\ Forget

Give(p) ==
  /\ Browsing /\ app.browser.usage # None /\ Files[app.browser.usage].direct
  /\ Verification(app.browser.usage) = "live-verified"
  /\ p \in Files[app.browser.usage].parameters
  /\ app' = [app EXCEPT !.browser.given = IF p \in @ THEN @ \ {p} ELSE @ \cup {p}]
  /\ UNCHANGED <<entries, at, served, phase>> /\ Forget

OpenDataset(f) == Browsing /\ f \in Listed /\ Follow(Address("dataset", Files[f].dataset, {}))

-----------------------------------------------------------------------------

Choices(pairs, name) == {{}} \cup {{p} : p \in Values(pairs, name)}

CatalogueNext ==
  \/ \E q \in Queries \cup {""} : Type(q)
  \/ \E pair \in CatalogueFilters : Filter(pair)
  \/ ClearAll
  \/ \E c \in Categories \cup {None} : ChooseCategory(c)
  \/ \E r \in DOMAIN Resources : OpenResource(r)
  \/ CloseResource
  \/ BrowseMapped

ProviderNext ==
  \/ \E load \in {"ready", "failed"} : InventoryIs(load)
  \/ RetryInventory
  \/ \E q \in Queries \cup {""} : Search(q)
  \/ \E name \in Names(ProviderFilters) : \E c \in Choices(ProviderFilters, name) : FilterFiles(name, c)
  \/ ClearFilters
  \/ \E f \in DOMAIN Files : Toggle(f) \/ OpenDataset(f)
  \/ \E p \in Parameters : Give(p)

TabNext ==
  \/ CatalogueArrives \/ CatalogueFails \/ Retry \/ Reload \/ Anchor
  \/ \E i \in DOMAIN entries : Traverse(i)

Spec == Init /\ [][CatalogueNext \/ ProviderNext \/ TabNext]_vars

-----------------------------------------------------------------------------
(* Properties *)

Siblings == {i \in DOMAIN entries : entries[i].document = entries[at].document}

(* "Both catalogue and provider-resource filters are reflected in the URL so *)
(* a view can be bookmarked or shared": whatever was typed, filtered, opened *)
(* or gone back to, the address in the bar, opened elsewhere, shows what is  *)
(* on the screen.  It holds with two exceptions the code leaves open: an     *)
(* application that has strayed takes an id from the wrong page, and a       *)
(* provider browser that stays mounted between two entries does not read the *)
(* second one's address.                                                     *)
LocationShowsView ==
  LET a == entries[at].address IN
  (/\ phase = "ready" /\ ~app.strayed
   /\ OnProvider(a) => ~\E i \in Siblings \ {at} : OnProvider(entries[i].address))
  => Shown(Started(a, a)) = Shown(app)

(* Back and Forward inside a document show what that entry showed when it    *)
(* was left, a link within the page changes nothing on the screen, and the   *)
(* button that leads from a resource back to the catalogue shows the list    *)
(* the resource was opened from: its query, filters and category, all of     *)
(* them or none.  None where the resource is there because its address was   *)
(* read: after Back, Forward, a reload or a link within its page the way     *)
(* back leads to the whole catalogue, never to a part of the old search.  A  *)
(* provider browser that stays mounted keeps its own query and filters       *)
(* instead of the entry's.                                                   *)
NavigationRestores == expected # None => phase = "ready" /\ Shown(app) = expected

(* A command that can be copied is for a file the filters list, that is the  *)
(* one file of its dataset the verification run sampled and read with        *)
(* success, over https, and every placeholder was given for this very file:  *)
(* neither another row's parameters nor a dataset's success carry over.      *)
CommandIsProven ==
  CommandShown # None =>
    LET f == CommandShown IN
    /\ f \in Listed /\ Files[f].https /\ Files[f].direct
    /\ Files[f].attempt = "success"
    /\ Evidence[Files[f].dataset] = [outcome |-> "success", selected |-> f]
    /\ app.browser.given = Files[f].parameters
=============================================================================
