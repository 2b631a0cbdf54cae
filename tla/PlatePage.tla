------------------------------ MODULE PlatePage ------------------------------
(***************************************************************************)
(* The page of a plate (web/app/(main)/plates/[slug]/page.tsx): the server *)
(* renders it from what the API and GitHub answer at that moment, and two  *)
(* components that know nothing of each other show it, the row of tabs     *)
(* (PlateHeaderTabs.tsx) and the content below it (PlateContentTabs.tsx),  *)
(* each with a tab of its own that it takes from the hash of the address.  *)
(* Rating the plate renders the page again under the user's hands: the     *)
(* components stay mounted, and their effects run for the props that       *)
(* changed.                                                                *)
(***************************************************************************)
EXTENDS Naturals, Sequences, FiniteSets, SequencesExt

CONSTANTS
    Contents,  \* what a plate may consist of, over time
    Fields,    \* fields of generation schemas
    Modules,   \* modules of generation schemas
    Values,    \* what is typed into a field
    Empty,     \* an empty input
    None,      \* no text, no page, no request
    Hashes     \* hashes of the address, "" for none

VARIABLES
    plate,           \* what the API and GitHub hold
    props,           \* what the server rendered last, None for "not found"
    hash,            \* window.location.hash
    known,           \* the hash of the address the router knows
    header,          \* active, of the row of tabs
    content,         \* active, of the content
    expandedPaths,   \* open folders
    downloadValues,  \* what the inputs of the fields hold
    moduleValues,    \* what the checkboxes of the modules hold
    asked,           \* the values of the generation under way
    typed,           \* history: the last value typed into each field of these props
    restored         \* history: a refresh put back an older address

tabs == <<hash, known, header, content, restored>>
inputs == <<downloadValues, moduleValues, typed>>
vars == <<plate, props, tabs, inputs, expandedPaths, asked>>

Tabs == {"readme", "license", "schema", "files"}
Texts == {None} \cup UNION {{c.readme, c.license} : c \in Contents}
Inputs == Values \cup {Empty}

\* fields: the default of each field; required fields are a subset of them.
Schema == [fields : UNION {[F -> Inputs] : F \in SUBSET Fields},
           required : SUBSET Fields,
           modules : UNION {[M -> BOOLEAN] : M \in SUBSET Modules}]
NoSchema == [fields |-> <<>>, required |-> {}, modules |-> <<>>]

ASSUME PlatePageAssumption ==
    /\ Tabs \subseteq Hashes
    /\ None \notin Inputs
    /\ \A c \in Contents :
          /\ c.hasSchema \in BOOLEAN /\ c.repository \in BOOLEAN
          /\ c.schema \in Schema
          /\ IsFiniteSet(c.tree)
          /\ \A e \in c.tree :
                e.path \in Seq(STRING) \ {<<>>} /\ e.type \in {"blob", "tree"}

--------------------------------------------------------------------------------
(* buildFileTree: the entries of the repository as a tree of folders. *)

Paths(entries) == {e.path : e \in entries}
Ancestors(path) == {SubSeq(path, 1, n) : n \in 1..(Len(path) - 1)}

\* A slip: a folder that GitHub does not list itself is taken for a file.
Insert_AsListed(nodes, e) ==
    [p \in DOMAIN nodes \cup Ancestors(e.path) \cup {e.path} |->
        IF p = e.path \/ p \notin DOMAIN nodes THEN e.type ELSE nodes[p]]

\* One entry: its path and the folders on the way to it.
Insert(nodes, e) ==
    [p \in DOMAIN nodes \cup Ancestors(e.path) \cup {e.path} |->
        IF p = e.path THEN e.type
        ELSE IF p \in Ancestors(e.path) THEN "tree"
        ELSE nodes[p]]

\* The entries in the order of their paths: a folder comes before what is in it.
Listed(entries) ==
    CHOOSE s \in SetToSeqs(entries) :
        \A i, j \in DOMAIN s : i < j => Len(s[i].path) <= Len(s[j].path)

FileTree(entries) ==
    LET s == Listed(entries)
        tree[n \in 0..Len(s)] == IF n = 0 THEN <<>> ELSE Insert(tree[n - 1], s[n])
    IN  tree[Len(s)]

Folders(nodes) == {p \in DOMAIN nodes : nodes[p] = "tree"}
TopLevel(nodes) == {p \in Folders(nodes) : Len(p) = 1}

\* TreeView shows the children of the folders it shows open.
Visible(nodes, open) == {p \in DOMAIN nodes : Ancestors(p) \subseteq open \cap Folders(nodes)}

--------------------------------------------------------------------------------
(* What the server renders. *)

Fetches == {"plate", "schema", "readme", "license", "tree"}

\* failed: the requests that were refused, timed out or found nothing.
Rendered(c, failed) ==
    LET from(what) == c.repository /\ what \notin failed IN
    IF "plate" \in failed THEN None
    ELSE [repository |-> c.repository,
          readme     |-> IF from("readme") THEN c.readme ELSE None,
          license    |-> IF from("license") THEN c.license ELSE None,
          tree       |-> IF from("tree") THEN c.tree ELSE {},
          generate   |-> c.hasSchema /\ "schema" \notin failed,
          schema     |-> IF c.hasSchema /\ "schema" \notin failed THEN c.schema ELSE NoSchema]

Found == props # None

Has(p, tab) ==
    CASE tab = "readme" -> p.readme # None
      [] tab = "license" -> p.license # None
      [] tab = "schema" -> p.generate
      [] tab = "files" -> p.tree # {}

Present(p) == {tab \in Tabs : Has(p, tab)}
First(p) ==
    IF Has(p, "readme") THEN "readme"
    ELSE IF Has(p, "license") THEN "license"
    ELSE IF Has(p, "schema") THEN "schema"
    ELSE "files"

\* A slip: the row of tabs prefers the files to the schema.
HeaderTab_FilesFirst(p, h) ==
    IF ~p.repository THEN "content"
    ELSE IF h \in Present(p) THEN h
    ELSE IF "files" \in Present(p) /\ p.readme = None /\ p.license = None THEN "files"
    ELSE First(p)

HeaderTab(p, h) ==
    IF ~p.repository THEN "content" ELSE IF h \in Present(p) THEN h ELSE First(p)

\* A slip: the hash counts although there is nothing to show under it.
ContentTab_AnyHash(p, h, current) ==
    IF h \in Tabs THEN h ELSE IF Present(p) = {} THEN current ELSE First(p)

ContentTab(p, h, current) ==
    IF h \in Present(p) THEN h ELSE IF Present(p) = {} THEN current ELSE First(p)

Untyped == [f \in Fields |-> None]

\* The components are mounted for the first time.
Mount(p, h) ==
    /\ props' = p
    /\ hash' = h /\ known' = h
    /\ header' = IF p = None THEN "content" ELSE HeaderTab(p, h)
    /\ content' = IF p = None THEN "readme" ELSE ContentTab(p, h, "readme")
    /\ expandedPaths' = IF p = None THEN {} ELSE TopLevel(FileTree(p.tree))
    /\ downloadValues' = IF p = None THEN <<>> ELSE p.schema.fields
    /\ moduleValues' = IF p = None THEN <<>> ELSE p.schema.modules
    /\ typed' = Untyped
    /\ restored' = FALSE
    /\ asked' = None

Init ==
    /\ plate \in Contents
    /\ props = None
    /\ hash \in Hashes /\ known = hash
    /\ header = "content" /\ content = "readme"
    /\ expandedPaths = {}
    /\ downloadValues = <<>> /\ moduleValues = <<>> /\ typed = Untyped
    /\ asked = None
    /\ restored = FALSE

TypeOK ==
    /\ plate \in Contents
    /\ props \in {None} \cup {Rendered(c, failed) : c \in Contents, failed \in SUBSET Fetches}
    /\ {hash, known} \subseteq Hashes
    /\ header \in Tabs \cup {"content"}
    /\ content \in Tabs
    /\ Found =>
          /\ downloadValues \in [DOMAIN props.schema.fields -> Inputs]
          /\ moduleValues \in [DOMAIN props.schema.modules -> BOOLEAN]
    /\ \A p \in expandedPaths : p # <<>>
    /\ typed \in [Fields -> Inputs \cup {None}]
    /\ restored \in BOOLEAN

--------------------------------------------------------------------------------
(* Rendering. *)

\* The owner pushes to the repository, or the plate is synchronized.
Push ==
    /\ \E c \in Contents \ {plate} : c.repository = plate.repository /\ plate' = c
    /\ UNCHANGED <<props, tabs, inputs, expandedPaths, asked>>

\* The page is opened or reloaded.
PlateDetailPage ==
    /\ \E failed \in SUBSET Fetches : Mount(Rendered(plate, failed), hash)
    /\ UNCHANGED plate

Flags(p) == [tab \in Tabs |-> Has(p, tab)]

\* A slip: the inputs keep what they hold for the fields that still exist.
Reset_KeepsInputs(p) ==
    /\ downloadValues' = [f \in DOMAIN p.schema.fields |->
                             IF f \in DOMAIN downloadValues THEN downloadValues[f]
                             ELSE p.schema.fields[f]]
    /\ moduleValues' = p.schema.modules
    /\ typed' = Untyped

\* A slip: only the inputs of the fields are filled again.
Reset_KeepsModules(p) ==
    /\ downloadValues' = p.schema.fields
    /\ typed' = Untyped
    /\ UNCHANGED moduleValues

\* The arrays of a new rendering are new ones, whatever they hold: the effects
\* that fill the inputs run every time.
Reset(p) ==
    /\ downloadValues' = p.schema.fields
    /\ moduleValues' = p.schema.modules
    /\ typed' = Untyped

\* router.refresh after a rating.  The router may put the address back that it
\* knows: the hash of a clicked tab was written past it, and no event tells.
Refresh ==
    /\ Found
    /\ \E failed \in SUBSET (Fetches \ {"plate"}), h \in {hash, known} :
          LET p == Rendered(plate, failed)
              flagsChanged == Flags(p) # Flags(props)
              contentChanged == \/ flagsChanged
                                \/ p.readme # props.readme \/ p.license # props.license
                                \/ p.tree # {} \/ props.tree # {}
          IN /\ props' = p
             /\ hash' = h /\ known' = h
             /\ header' = IF flagsChanged THEN HeaderTab(p, h) ELSE header
             /\ content' = IF contentChanged THEN ContentTab(p, h, content) ELSE content
             /\ expandedPaths' = TopLevel(FileTree(p.tree))
             /\ restored' = (~flagsChanged /\ (restored \/ h # hash))
             /\ Reset(p)
    /\ UNCHANGED <<plate, asked>>

--------------------------------------------------------------------------------
(* Tabs. *)

\* Every change of the hash that is an event: both components follow it.
Sync(h) ==
    /\ hash' = h
    /\ header' = HeaderTab(props, h)
    /\ content' = ContentTab(props, h, content)
    /\ restored' = FALSE

setHashWithoutScroll ==
    /\ Found /\ props.repository
    /\ \E tab \in Present(props) \ {header} : Sync(tab)
    /\ UNCHANGED <<plate, props, known, inputs, expandedPaths, asked>>

\* Links of the README, the address bar, Back and Forward.
HashChange ==
    /\ Found
    /\ \E h \in Hashes \ {hash} : Sync(h) /\ known' = h
    /\ UNCHANGED <<plate, props, inputs, expandedPaths, asked>>

--------------------------------------------------------------------------------
(* Files. *)

FilesShown == Found /\ content = "files" /\ props.tree # {}

toggleFolder ==
    /\ FilesShown
    /\ LET nodes == FileTree(props.tree) IN
       \E p \in Folders(nodes) \cap Visible(nodes, expandedPaths) :
          expandedPaths' = IF p \in expandedPaths THEN expandedPaths \ {p}
                                                  ELSE expandedPaths \cup {p}
    /\ UNCHANGED <<plate, props, tabs, inputs, asked>>

expandAll ==
    /\ FilesShown
    /\ expandedPaths' = Folders(FileTree(props.tree))
    /\ UNCHANGED <<plate, props, tabs, inputs, asked>>

collapseAll ==
    /\ FilesShown
    /\ expandedPaths' = {}
    /\ UNCHANGED <<plate, props, tabs, inputs, asked>>

--------------------------------------------------------------------------------
(* Generation. *)

SchemaShown == Found /\ content = "schema" /\ props.generate

SetField ==
    /\ SchemaShown
    /\ \E f \in DOMAIN props.schema.fields, v \in Inputs :
          /\ v # downloadValues[f]
          /\ downloadValues' = [downloadValues EXCEPT ![f] = v]
          /\ typed' = [typed EXCEPT ![f] = v]
    /\ UNCHANGED <<plate, props, tabs, moduleValues, expandedPaths, asked>>

SetModule ==
    /\ SchemaShown
    /\ \E m \in DOMAIN props.schema.modules :
          moduleValues' = [moduleValues EXCEPT ![m] = ~@]
    /\ UNCHANGED <<plate, props, tabs, downloadValues, typed, expandedPaths, asked>>

missingRequired == {f \in props.schema.required : downloadValues[f] = Empty}
Filled == {f \in DOMAIN props.schema.fields : downloadValues[f] # Empty}

handleGenerateDownload ==
    /\ SchemaShown
    /\ asked = None
    /\ missingRequired = {}
    /\ asked' = [fields |-> [f \in Filled |-> downloadValues[f]], modules |-> moduleValues]
    /\ UNCHANGED <<plate, props, tabs, inputs, expandedPaths>>

\* The archive is downloaded, or a message says why there is none.
Generated ==
    /\ asked # None
    /\ asked' = None
    /\ UNCHANGED <<plate, props, tabs, inputs, expandedPaths>>

--------------------------------------------------------------------------------

Next ==
    \/ Push \/ PlateDetailPage \/ Refresh
    \/ setHashWithoutScroll \/ HashChange
    \/ toggleFolder \/ expandAll \/ collapseAll
    \/ SetField \/ SetModule \/ handleGenerateDownload \/ Generated

Spec == Init /\ [][Next]_vars

--------------------------------------------------------------------------------
(* Properties. *)

\* The content never says "not found" under a tab while the page has something to
\* show under another, whatever hash the address has and whatever fetch failed.
TabHasContent == Found /\ Present(props) # {} => Has(props, content)

\* The row of tabs and the content, which each keep a tab of their own, show the
\* same one, unless a refresh put back an older address that only the content read.
TabsAgree ==
    Found /\ props.repository /\ Present(props) # {} /\ ~restored => header = content

\* With every folder open every file of the repository is visible, the files of
\* folders that GitHub left out of its list too, and no folder is open that the
\* tree on the page does not have.
AllReachable ==
    Found => LET nodes == FileTree(props.tree) IN
             /\ expandedPaths \subseteq Folders(nodes)
             /\ Paths(props.tree) \subseteq Visible(nodes, Folders(nodes))

\* A generation is asked for with what was typed for the schema on the page, or
\* with its defaults, never with values left over from an older rendering.
NothingStale ==
    [][asked = None /\ asked' # None =>
          \A f \in DOMAIN asked'.fields :
              asked'.fields[f] =
                  IF typed[f] # None THEN typed[f] ELSE props.schema.fields[f]]_vars
=============================================================================
