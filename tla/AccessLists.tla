---------------------------- MODULE AccessLists -----------------------------
(***************************************************************************)
(* Access lists and the policies that name them at the control plane       *)
(* (internal/control/db/lists.go, policies.go, listsource/listsource.go,   *)
(* api/acl.go): a list an administrator edits, a file somewhere else the   *)
(* list follows, and the fetches of that file.                             *)
(*                                                                         *)
(* An edit reads the list and writes it in a transaction of its own; a     *)
(* fetch reads the list, is away for seconds, and saves what it brought.   *)
(* One list and one policy stand for all.  Entries are the text they were  *)
(* parsed from and the kind they were parsed for; the text is typed by an  *)
(* administrator or is a version of the file at an address, whose ETag it  *)
(* then has.  A secret is known by the address it was given for.           *)
(***************************************************************************)
EXTENDS Naturals

CONSTANTS Names, Kinds, Urls,
          Editors, Fetchers,        \* requests beside each other
          MaxChanges, MaxListVersion,  \* bounds: versions of a file, transactions that bump
          NoList

ASSUME ListAssumption ==
    {MaxChanges, MaxListVersion} \subseteq Nat /\ NoList \notin Names \cup Kinds \cup Urls

Typed == <<NoList, 0>>  \* the text an administrator types; as an ETag, none

Texts == (Urls \cup {NoList}) \X Nat

\* A row of lists.
Rows == [name : Names, kind : Kinds, entries : [text : Texts, kind : Kinds], url : Urls \cup {NoList},
         secret : Urls \cup {NoList}, etag : Texts, by : {"admin", "source"}]

ASSUME NoListAssumption ==
    /\ NoList \notin Rows
    /\ NoList \notin [at : {"create", "update"}, row : Rows] \cup [at : {"policy"}, name : Names]
    /\ NoList \notin [at : {"get"}, url : Urls, etag : Texts, kind : Kinds, secret : Urls \cup {NoList}]
    /\ NoList \notin [at : {"compare", "mark", "store"}, url : Urls, entries : [text : Texts, kind : Kinds]]

VARIABLES list,         \* the row of lists, or NoList
          policy,       \* the list a stored policy names, or NoList
          file,         \* the version of the file at an address
          listVersion,  \* the snapshot version
          edit,         \* what an administrator's request is at
          fetch         \* what a fetch is at

listVars == <<list, policy, file, listVersion, edit, fetch>>

ListInit ==
    /\ list = NoList /\ policy = NoList /\ file = [u \in Urls |-> 1] /\ listVersion = 0
    /\ edit = [e \in Editors |-> NoList] /\ fetch = [f \in Fetchers |-> NoList]

\* tx with bump.
Bumps == listVersion < MaxListVersion /\ listVersion' = listVersion + 1
-----------------------------------------------------------------------------
(* Edits.                                                                  *)

\* readList: what a request asks for, cleaned.  Entries are typed, or are the
\* ones the page was given.
Bodies ==
    [name : Names, kind : Kinds, url : Urls \cup {NoList}, typed : BOOLEAN, secret : {"keep", "new", "clear"}]

Entries(b) == [text |-> IF b.typed \/ list = NoList THEN Typed ELSE list.entries.text, kind |-> b.kind]

\* readList, sameSource: a secret that is not sent stays with its address.
Secret(b) ==
    IF b.url = NoList \/ b.secret = "clear" THEN NoList
    ELSE IF b.secret = "new" THEN b.url
    ELSE IF list # NoList /\ list.url = b.url THEN list.secret ELSE NoList

ListRow(b) ==
    [name |-> b.name, kind |-> b.kind, entries |-> Entries(b), url |-> b.url, secret |-> Secret(b),
     etag |-> Typed, by |-> "admin"]

\* adminCreateList, adminPutList: the body is read, with the list as it is.
ReadList(e, b) ==
    /\ edit[e] = NoList
    /\ edit' = [edit EXCEPT ![e] = [at |-> IF list = NoList THEN "create" ELSE "update", row |-> ListRow(b)]]
    /\ UNCHANGED <<list, policy, file, listVersion, fetch>>

\* adminImportList: other entries for the list as it is.
ImportList(e) ==
    /\ edit[e] = NoList /\ list # NoList
    /\ edit' = [edit EXCEPT ![e] = [at |-> "update",
                                    row |-> [list EXCEPT !.entries = [text |-> Typed, kind |-> list.kind], !.by = "admin"]]]
    /\ UNCHANGED <<list, policy, file, listVersion, fetch>>

EditDone(e) == edit' = [edit EXCEPT ![e] = NoList]

\* CreateList; another request may have been first.
CreateList(e) ==
    /\ edit[e] # NoList /\ edit[e].at = "create"
    /\ IF list = NoList THEN Bumps /\ list' = edit[e].row ELSE UNCHANGED <<list, listVersion>>
    /\ EditDone(e)
    /\ UNCHANGED <<policy, file, fetch>>

\* listUsed.
Used == list # NoList /\ policy = list.name

\* UpdateList: what makes a source start over.
Reset(row) == list.url # row.url \/ (row.url # NoList /\ (list.entries # row.entries \/ list.kind # row.kind))

\* UpdateList: a list a policy names keeps its name and kind.
UpdateList(e) ==
    LET row == edit[e].row IN
    /\ edit[e] # NoList /\ edit[e].at = "update"
    /\ IF list # NoList /\ (Used => row.name = list.name /\ row.kind = list.kind)
       THEN Bumps /\ list' = [row EXCEPT !.etag = IF Reset(row) THEN Typed ELSE list.etag]
       ELSE UNCHANGED <<list, listVersion>>
    /\ EditDone(e)
    /\ UNCHANGED <<policy, file, fetch>>

\* DeleteList: one that no policy names.
DeleteList ==
    /\ list # NoList /\ ~Used
    /\ Bumps /\ list' = NoList
    /\ UNCHANGED <<policy, file, edit, fetch>>
-----------------------------------------------------------------------------
(* Policies.                                                               *)

\* readPolicy, unknownLists: the lists the document names exist ...
ReadPolicy(e) ==
    /\ edit[e] = NoList /\ list # NoList
    /\ edit' = [edit EXCEPT ![e] = [at |-> "policy", name |-> list.name]]
    /\ UNCHANGED <<list, policy, file, listVersion, fetch>>

\* ... and the document is stored (CreatePolicy, UpdatePolicy).
StorePolicy(e) ==
    /\ edit[e] # NoList /\ edit[e].at = "policy"
    /\ Bumps /\ policy' = edit[e].name
    /\ EditDone(e)
    /\ UNCHANGED <<list, file, fetch>>

\* adminDeletePolicy, DeletePolicy.
DeletePolicy ==
    /\ policy # NoList
    /\ Bumps /\ policy' = NoList
    /\ UNCHANGED <<list, file, edit, fetch>>
-----------------------------------------------------------------------------
(* Sources.                                                                *)

FileChanges(u) ==
    /\ file[u] < MaxChanges
    /\ file' = [file EXCEPT ![u] = @ + 1]
    /\ UNCHANGED <<list, policy, listVersion, edit, fetch>>

\* ListsDue, adminFetchList: the loop's turn or an administrator's.
FetchBegins(f) ==
    /\ fetch[f] = NoList /\ list # NoList /\ list.url # NoList
    /\ fetch' = [fetch EXCEPT ![f] = [at |-> "get", url |-> list.url, etag |-> list.etag, kind |-> list.kind,
                                      secret |-> list.secret]]
    /\ UNCHANGED <<list, policy, file, listVersion, edit>>

FetchDone(f) == fetch' = [fetch EXCEPT ![f] = NoList]

\* get: what the file holds now, parsed for the kind the list had.
Get(f) ==
    LET u == fetch[f].url text == <<u, file[u]>> IN
    /\ fetch[f] # NoList /\ fetch[f].at = "get" /\ fetch[f].etag # text
    /\ fetch' = [fetch EXCEPT ![f] = [at |-> "compare", url |-> u, entries |-> [text |-> text, kind |-> fetch[f].kind]]]
    /\ UNCHANGED <<list, policy, file, listVersion, edit>>

\* get: not modified, or anything that goes wrong; SaveListFetch then marks
\* the fetch and leaves the entries and the ETag alone.
GetNothing(f) ==
    /\ fetch[f] # NoList /\ fetch[f].at = "get"
    /\ FetchDone(f)
    /\ UNCHANGED <<list, policy, file, listVersion, edit>>

\* SaveListFetch: the file may be the same as the list.
CompareFetch(f) ==
    /\ fetch[f] # NoList /\ fetch[f].at = "compare"
    /\ IF list = NoList THEN FetchDone(f)
       ELSE fetch' = [fetch EXCEPT ![f].at = IF list.entries = fetch[f].entries THEN "mark" ELSE "store"]
    /\ UNCHANGED <<list, policy, file, listVersion, edit>>

StillOurs(f) == list # NoList /\ list.url = fetch[f].url

\* SaveListFetch, mark: the ETag and the time of the fetch.
MarkFetch(f) ==
    /\ fetch[f] # NoList /\ fetch[f].at = "mark"
    /\ list' = IF StillOurs(f) THEN [list EXCEPT !.etag = fetch[f].entries.text] ELSE list
    /\ FetchDone(f)
    /\ UNCHANGED <<policy, file, listVersion, edit>>

Fetched(f) == [list EXCEPT !.entries = fetch[f].entries, !.etag = fetch[f].entries.text, !.by = "source"]

\* Mutant: whatever the list follows by now.
StoreAnyFetch(f) ==
    /\ fetch[f] # NoList /\ fetch[f].at = "store"
    /\ IF list # NoList THEN Bumps /\ list' = Fetched(f) ELSE UNCHANGED <<list, listVersion>>
    /\ FetchDone(f)
    /\ UNCHANGED <<policy, file, edit>>

\* SaveListFetch: the entries, unless the source has changed.
StoreFetch(f) ==
    /\ fetch[f] # NoList /\ fetch[f].at = "store"
    /\ IF StillOurs(f) THEN Bumps /\ list' = Fetched(f) ELSE UNCHANGED <<list, listVersion>>
    /\ FetchDone(f)
    /\ UNCHANGED <<policy, file, edit>>

ListNext ==
    \/ \E e \in Editors, b \in Bodies : ReadList(e, b)
    \/ \E e \in Editors : ImportList(e) \/ CreateList(e) \/ UpdateList(e) \/ ReadPolicy(e) \/ StorePolicy(e)
    \/ DeleteList \/ DeletePolicy
    \/ \E u \in Urls : FileChanges(u)
    \/ \E f \in Fetchers : \/ FetchBegins(f) \/ Get(f) \/ GetNothing(f) \/ CompareFetch(f)
                           \/ MarkFetch(f) \/ StoreFetch(f)

ListSpec == ListInit /\ [][ListNext]_listVars
-----------------------------------------------------------------------------
(* Properties.                                                             *)

\* The variables have their types.
ListTypeOK ==
    /\ list # NoList =>
         /\ list.name \in Names /\ list.kind \in Kinds /\ {list.url, list.secret} \subseteq Urls \cup {NoList}
         /\ list.url = NoList => list.secret = NoList /\ list.etag = Typed
    /\ policy \in Names \cup {NoList} /\ listVersion \in 0 .. MaxListVersion

\* Entries that came from a source came from the one the list has, however
\* long the fetch was away (SaveListFetch).
FetchedFromSource ==
    (list # NoList /\ list.by = "source") => list.entries.text[1] = list.url

\* A secret is with the address it was given for, and a fetch carries it
\* nowhere else (readList, sameSource).
SecretStays ==
    /\ list # NoList => list.secret \in {list.url, NoList}
    /\ \A f \in Fetchers : (fetch[f] # NoList /\ fetch[f].at = "get") => fetch[f].secret \in {fetch[f].url, NoList}

\* While a stored policy names the list, it keeps its name and kind and is
\* not deleted (UpdateList, DeleteList).
NamedStays ==
    [][Used => list' # NoList /\ list'.name = list.name /\ list'.kind = list.kind]_listVars

CarriedList(l) == IF l = NoList THEN NoList ELSE [name |-> l.name, kind |-> l.kind, entries |-> l.entries]

\* What nodes are given changes only with the snapshot version (SaveListFetch,
\* UpdateList).
ListChangeBumps ==
    [][(CarriedList(list) # CarriedList(list') \/ policy # policy') => listVersion' > listVersion]_listVars

\* The entries of a fetched list come from the source it names now
\* (SaveListFetch), and a stored credential goes to no other address than the
\* one it was given for (sameSource), whatever edits and fetches interleave.
ListsInv == ListTypeOK /\ FetchedFromSource /\ SecretStays

=============================================================================
