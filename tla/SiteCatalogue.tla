---------------------------- MODULE SiteCatalogue ----------------------------
(***************************************************************************)
(* The way a site gets its name, and what the name is used for.            *)
(* SearchItemViewController shows the catalogue, a folder of images of the *)
(* bundle, by sections, and searches it with a PYSearchViewController;     *)
(* InputWebsiteViewController makes the site's title of the chosen name;   *)
(* PresentWebsiteViewController finds the application to open by the title. *)
(*                                                                         *)
(* The table of suggestions draws rows when it is reloaded, and answers a  *)
(* tap from resultDataArray, which changes without a reload when nothing   *)
(* is found and outlives the search screen.                                *)
(*                                                                         *)
(* There is one site: sites do not share titles.  A name is a model value; *)
(* what is drawn of it, whether it matches a text, the first character it  *)
(* is filed under and the scheme of its application are constants.         *)
(***************************************************************************)
EXTENDS Integers, SequencesExt

CONSTANTS
    Names,     \* the names of the folder's images
    Titles,    \* names, and what is shown for some of them
    Common,    \* inCommonUseArray, a sequence
    Initial,   \* [Names -> Int]: the first character of a name, as a capital
    Digits,    \* the initials that are digits
    CommonKey, \* the key of inCommonUseArray, whose character sorts last
    Texts,     \* what may be typed to search
    Matches,   \* [Texts -> SUBSET Names]
    Label,     \* descriptionWithName: [Titles -> Titles]
    Scheme,    \* schemeOfTitle: [Titles -> schemes or NoScheme]
    NoScheme,
    NoName     \* no name or title

ASSUME CatalogueAssumption ==
    /\ IsFiniteSet(Names) /\ Names \subseteq Titles /\ NoName \notin Titles
    /\ Common \in Seq(Titles)
    /\ CommonKey \in Int
    /\ Initial \in [Names -> Int] /\ \A n \in Names : Initial[n] < CommonKey
    /\ Matches \in [Texts -> SUBSET Names]
ASSUME LabelAssumption ==
    /\ Label \in [Titles -> Titles] /\ \A t \in Titles : Label[Label[t]] = Label[t]
    /\ Scheme \in [Titles -> Range(Scheme)]

NoText == "" \* the search bar is empty
NoSite == [title |-> NoName, link |-> FALSE]

VARIABLES
    screen,     \* what is in front
    folder,     \* searchDataArray: the folder, in the order it is enumerated
    sections,   \* dataDictionary
    result,     \* resultDataArray
    text,       \* the text of the search bar
    rows,       \* the rows the table of suggestions has drawn
    hidden,     \* that table is hidden
    name,       \* webSiteName, of the form
    site,       \* the stored site: its title, and whether it has a link
    opened,     \* what the last launch opened: a scheme, "link" or "nothing"
    picked,     \* history: the name the site was made of
    renamed     \* history: the site was edited since

catalogueVars == <<folder, sections>>
searchVars == <<result, text, rows, hidden>>
siteVars == <<site, opened, picked, renamed>>
ctVars == <<screen, catalogueVars, searchVars, name, siteVars>>

\* The catalogue is left for the list, or the process ends: its screens go with
\* what they hold.
Gone ==
    /\ screen' = "list"
    /\ folder' = <<>> /\ sections' = <<>>
    /\ result' = <<>> /\ text' = NoText /\ rows' = <<>> /\ hidden' = TRUE
    /\ name' = NoName

(***************************************************************************)
(* The catalogue.                                                          *)
(***************************************************************************)

\* Mutant: the first name of a section is lost.
Filed_Overwrites(dict, n) ==
    IF Initial[n] \in Digits THEN dict
    ELSE [k \in DOMAIN dict \cup {Initial[n]} |->
            IF k # Initial[n] THEN dict[k] ELSE <<n>>]

\* A name is filed under its first character, unless that is a digit.
Filed(dict, n) ==
    IF Initial[n] \in Digits THEN dict
    ELSE [k \in DOMAIN dict \cup {Initial[n]} |->
            IF k # Initial[n] THEN dict[k]
            ELSE IF k \in DOMAIN dict THEN Append(dict[k], n) ELSE <<n>>]

\* viewDidLoad: a name at a time, in the order of the folder.
DataDictionary(f) ==
    LET filed[i \in 0 .. Len(f)] ==
          IF i = 0 THEN [k \in {CommonKey} |-> Common] ELSE Filed(filed[i - 1], f[i])
    IN  filed[Len(f)]

\* paixuWith: the keys sorted, and the last one put first.
SortedKeys(dict) ==
    LET sorted == CHOOSE s \in SetToSeqs(DOMAIN dict) :
                     \A i, j \in DOMAIN s : i < j => s[i] < s[j]
    IN  <<Last(sorted)>> \o Front(sorted)

\* The list's add button.
PressedAddBarButton ==
    /\ screen = "list"
    /\ screen' = "catalogue"
    /\ folder' \in SetToSeqs(Names)
    /\ sections' = DataDictionary(folder')
    /\ result' = <<>>
    /\ UNCHANGED <<text, rows, hidden, name, siteVars>>

\* A row of the catalogue: the form for its name.
DidSelectRow(section, row) ==
    /\ screen = "catalogue"
    /\ section \in 1 .. Len(SortedKeys(sections))
    /\ row \in 1 .. Len(sections[SortedKeys(sections)[section]])
    /\ screen' = "form"
    /\ name' = sections[SortedKeys(sections)[section]][row]
    /\ UNCHANGED <<catalogueVars, searchVars, siteVars>>

PressedCloseButton ==
    /\ screen = "catalogue"
    /\ Gone
    /\ UNCHANGED siteVars

(***************************************************************************)
(* The search.                                                             *)
(***************************************************************************)

\* The names of a set, in the order of the folder.
Selected(S) ==
    LET chosen[i \in 0 .. Len(folder)] ==
          IF i = 0 THEN <<>>
          ELSE IF folder[i] \in S THEN Append(chosen[i - 1], folder[i])
          ELSE chosen[i - 1]
    IN  chosen[Len(folder)]

\* PYSearch shows the table when there is a text and the table has rows.
Reload(t) ==
    /\ rows' = result'
    /\ hidden' = (t = NoText \/ result' = <<>>)

\* A new search screen, whose table draws what the last search has left.
PressedSearchButton ==
    /\ screen = "catalogue"
    /\ screen' = "search"
    /\ text' = NoText
    /\ UNCHANGED <<catalogueVars, result, name, siteVars>>
    /\ Reload(NoText)

\* The keyboard comes or goes, and the table is reloaded.
KeyboardChanges ==
    /\ screen = "search"
    /\ UNCHANGED <<screen, catalogueVars, result, text, name, siteVars>>
    /\ Reload(text)

\* Mutant: the table is reloaded for an empty text only.
SearchTextDidChange_NoReload(t) ==
    /\ screen = "search"
    /\ text' = t
    /\ IF t = NoText
         THEN hidden' = TRUE /\ UNCHANGED <<result, rows>>
         ELSE /\ result' = Selected(Matches[t])
              /\ hidden' = (rows = <<>>)
              /\ UNCHANGED rows
    /\ UNCHANGED <<screen, catalogueVars, name, siteVars>>

\* The text changes: PYSearch shows or hides the rows it has, then the results
\* are made anew, and the table is reloaded when there are any.
SearchTextDidChange(t) ==
    /\ screen = "search"
    /\ text' = t
    /\ IF t = NoText
         THEN hidden' = TRUE /\ UNCHANGED <<result, rows>>
         ELSE /\ result' = Selected(Matches[t])
              /\ IF result' # <<>> THEN Reload(t)
                 ELSE hidden' = (rows = <<>>) /\ UNCHANGED rows
    /\ UNCHANGED <<screen, catalogueVars, name, siteVars>>

Tappable(i) == screen = "search" /\ ~hidden /\ i \in 1 .. Len(rows)

\* A tap on a row; the form is given the result of its place, and the search
\* bar the text of a label that the program's cells do not have.
DidSelectSuggestion(i) ==
    /\ Tappable(i)
    /\ i <= Len(result)
    /\ screen' = "suggested"
    /\ name' = result[i]
    /\ text' = NoText
    /\ UNCHANGED <<catalogueVars, result, rows, hidden, siteVars>>

\* A row without a result is tapped, or scrolled into view: out of bounds, and
\* the process ends.
OutOfBounds(i) ==
    /\ Tappable(i)
    /\ i > Len(result)
    /\ Gone
    /\ UNCHANGED siteVars

CancelSearch ==
    /\ screen = "search"
    /\ screen' = "catalogue"
    /\ UNCHANGED <<catalogueVars, searchVars, name, siteVars>>

(***************************************************************************)
(* The form and the site.                                                  *)
(***************************************************************************)

\* Mutant: the title is what the form shows.
FinishInput_Label(link) ==
    /\ screen \in {"form", "suggested"}
    /\ Gone
    /\ site' = [title |-> Label[name], link |-> link]
    /\ picked' = name
    /\ renamed' = FALSE
    /\ UNCHANGED opened

\* Finish, adding: all screens go.
FinishInput(link) ==
    /\ screen \in {"form", "suggested"}
    /\ Gone
    /\ site' = [title |-> name, link |-> link]
    /\ picked' = name
    /\ renamed' = FALSE
    /\ UNCHANGED opened

\* Cancel leaves the form for the screen under it.
PressedCancelButton ==
    /\ screen \in {"form", "suggested", "edit"}
    /\ screen' = CASE screen = "form"      -> "catalogue"
                   [] screen = "suggested" -> "search"
                   [] screen = "edit"      -> "list"
    /\ UNCHANGED <<catalogueVars, searchVars, name, siteVars>>

PressedEdit ==
    /\ screen = "list" /\ site # NoSite
    /\ screen' = "edit"
    /\ UNCHANGED <<catalogueVars, searchVars, name, siteVars>>

\* Finish, editing: the title becomes what the form shows for it.
FinishEdit(link) ==
    /\ screen = "edit"
    /\ screen' = "list"
    /\ site' = [title |-> Label[site.title], link |-> link]
    /\ renamed' = TRUE
    /\ UNCHANGED <<catalogueVars, searchVars, name, opened, picked>>

\* Mutant: a title without a scheme is not told apart.
PressedLaunch_AnyScheme(can) ==
    /\ screen = "list" /\ site # NoSite
    /\ opened' = IF can THEN Scheme[site.title]
                 ELSE IF site.link THEN "link"
                 ELSE "nothing"
    /\ UNCHANGED <<screen, catalogueVars, searchVars, name, site, picked, renamed>>

\* The application of the title when the device can open it, or the link.
PressedLaunch(can) ==
    /\ screen = "list" /\ site # NoSite
    /\ opened' = IF Scheme[site.title] # NoScheme /\ can THEN Scheme[site.title]
                 ELSE IF site.link THEN "link"
                 ELSE "nothing"
    /\ UNCHANGED <<screen, catalogueVars, searchVars, name, site, picked, renamed>>

-----------------------------------------------------------------------------
CTInit ==
    /\ screen = "list"
    /\ folder = <<>> /\ sections = <<>>
    /\ result = <<>> /\ text = NoText /\ rows = <<>> /\ hidden = TRUE
    /\ name = NoName /\ site = NoSite /\ opened = "nothing"
    /\ picked = NoName /\ renamed = FALSE

CTNext ==
    \/ PressedAddBarButton \/ PressedCloseButton
    \/ \E section \in 1 .. Cardinality(DOMAIN sections), row \in 1 .. Len(Common) + Cardinality(Names) :
          DidSelectRow(section, row)
    \/ PressedSearchButton \/ KeyboardChanges \/ CancelSearch
    \/ \E t \in Texts \cup {NoText} : SearchTextDidChange(t)
    \/ \E i \in 1 .. Len(rows) : DidSelectSuggestion(i) \/ OutOfBounds(i)
    \/ PressedCancelButton \/ PressedEdit
    \/ \E b \in BOOLEAN : FinishInput(b) \/ FinishEdit(b) \/ PressedLaunch(b)

CTSpec == CTInit /\ [][CTNext]_ctVars

-----------------------------------------------------------------------------
(***************************************************************************)
(* Properties.                                                             *)
(***************************************************************************)

CTTypeOK ==
    /\ screen \in {"list", "catalogue", "search", "form", "suggested", "edit"}
    /\ folder \in SetToSeqs(Names) \cup {<<>>} /\ result \in Seq(Names) /\ rows \in Seq(Names)
    /\ text \in Texts \cup {NoText} /\ hidden \in BOOLEAN
    /\ name \in Titles \cup {NoName}
    /\ site \in [title : Titles, link : BOOLEAN] \cup {NoSite}
    /\ opened \in (Range(Scheme) \ {NoScheme}) \cup {"link", "nothing"}
    /\ picked \in Titles \cup {NoName} /\ renamed \in BOOLEAN

\* A sequence has the names of a set, each once, in the order of the folder.
InFolderOrder(seq, S) ==
    /\ Range(seq) = S
    /\ \A i, j \in DOMAIN seq : i < j =>
          \E p, q \in DOMAIN folder : p < q /\ folder[p] = seq[i] /\ folder[q] = seq[j]

\* Filing the names one at a time loses none and doubles none: under each
\* first character are its names in the order of the folder, except that names
\* which begin with a digit are nowhere, and the names in common use come first
\* (SearchItemViewController.m:126-157, :296-306).
SectionsAreTheFolder ==
    screen \in {"catalogue", "search", "form", "suggested"} =>
        /\ DOMAIN sections = {CommonKey} \cup ({Initial[n] : n \in Names} \ Digits)
        /\ sections[CommonKey] = Common
        /\ SortedKeys(sections)[1] = CommonKey
        /\ \A k \in DOMAIN sections \ {CommonKey} :
              InFolderOrder(sections[k], {n \in Names : Initial[n] = k})

\* A suggestion that opens a form opens the form of the name it shows, whatever
\* was typed, deleted and searched before: drawn rows are the results, or there
\* are no results left (SearchItemViewController.m:240-283).
SuggestionIsWhatIsShown ==
    [][\A i \in 1 .. Len(rows) : DidSelectSuggestion(i) => name' = rows[i]]_ctVars

\* A site opens the application of the name it was made of, if the device can
\* open it, and its link only when there is none; an edit keeps that where it
\* does not rename the site (PresentWebsiteViewController.m:63-85, :204-277,
\* InputWebsiteViewController.m:64, :114).
LaunchesWhatWasPicked ==
    [][\A can \in BOOLEAN :
          PressedLaunch(can) /\ (renamed => Label[picked] = picked) =>
             IF Scheme[picked] # NoScheme /\ can THEN opened' = Scheme[picked]
             ELSE opened' = "link" <=> site.link]_ctVars
=============================================================================
