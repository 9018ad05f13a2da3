------------------------------- MODULE Discovery -------------------------------
(***************************************************************************)
(* discover_capabilities and diff_snapshots: the handshake, one list after *)
(* another and each page by page until the server names no next page, and  *)
(* the comparison with an earlier snapshot.  The client is that of         *)
(* StdioUpstream; it is closed once the lists are there.                   *)
(*                                                                         *)
(* An item is its name and a version, which stands for its fingerprint; an *)
(* item without a name is left out.                                        *)
(***************************************************************************)
EXTENDS StdioUpstream

CONSTANTS
  Fields,     \* the lists asked for, in order
  MaxPages,   \* MAX_DISCOVERY_PAGES
  Names,      \* names of items
  Cursors,    \* what the server may call its pages
  Start,      \* no cursor: the first page of a request, no page to come in an answer
  Malformed,  \* what is no cursor
  Servers,    \* what servers list
  Snapshots   \* earlier snapshots

ASSUME CursorAssumption == Start \notin Cursors /\ Malformed \notin Cursors \cup {Start}
ASSUME PagesAssumption == MaxPages \in Nat \ {0}
ASSUME FieldsAssumption ==
  /\ Fields \in Seq(STRING) /\ Fields # <<>>
  /\ \A i, j \in DOMAIN Fields : Fields[i] = Fields[j] => i = j

Lists == {Fields[i] : i \in DOMAIN Fields}

Versions == {"old", "new"}

\* The items of a list: those it has, with their versions.
Listing == UNION {[s -> Versions] : s \in SUBSET Names}

Page == [items : Listing, next : Cursors \cup {Start, Malformed}]

\* What a server keeps: for each list, a page for every cursor.
Server == [Lists -> [Cursors \cup {Start} -> Page]]

ASSUME ServersAssumption == Servers \subseteq Server
ASSUME SnapshotsAssumption == Snapshots \subseteq [Lists -> Listing]

VARIABLES
  stage,     \* "off" (another client) or where discovery is
  server,    \* what the server lists, fixed
  previous,  \* the earlier snapshot, fixed
  field,     \* the list being read, by its place in Fields
  page,      \* number of the page asked for
  cursor,    \* its cursor
  cursors,   \* cursors met in this list
  found,     \* what each list brought
  errors     \* what failed

discovery == <<stage, server, previous, field, page, cursor, cursors, found, errors>>

DiscoveryTypeOK ==
  /\ stage \in {"off", "initialize", "greeting", "initialized", "confirming", "list", "listing",
                "closing", "done"}
  /\ server \in Servers /\ previous \in Snapshots
  /\ field \in DOMAIN Fields /\ page \in 0..(MaxPages - 1)
  /\ cursor \in Cursors \cup {Start} /\ cursors \subseteq Cursors
  /\ found \in [Lists -> Listing]
  /\ errors \subseteq {"initialize", "initialized"} \cup Lists

DiscoveryInit ==
  /\ server \in Servers /\ previous \in Snapshots
  /\ field = 1 /\ page = 0 /\ cursor = Start /\ cursors = {}
  /\ found = [f \in Lists |-> <<>>]
  /\ errors = {}

-----------------------------------------------------------------------------
(* The handshake.                                                          *)

Ask(id) == Send([form |-> "request", id |-> id])

\* The caller takes what send returned.
Heard(results) ==
  /\ outcome \in results
  /\ outcome' = "none"
  /\ UNCHANGED <<pipe, pc, message, sent, answered, lingers>>

Initialize ==
  /\ stage = "initialize"
  /\ Ask(0)
  /\ stage' = "greeting"
  /\ UNCHANGED <<server, previous, field, page, cursor, cursors, found, errors>>

\* An answer may be an error, or name a version of the protocol that is not supported.
Greeted ==
  /\ stage = "greeting"
  /\ Heard({"answer"})
  /\ \/ stage' = "initialized" /\ UNCHANGED errors
     \/ stage' = "closing" /\ errors' = {"initialize"}
  /\ UNCHANGED <<server, previous, field, page, cursor, cursors, found>>

Confirm ==
  /\ stage = "initialized"
  /\ Send(Notification)
  /\ stage' = "confirming"
  /\ UNCHANGED <<server, previous, field, page, cursor, cursors, found, errors>>

Confirmed ==
  /\ stage = "confirming"
  /\ Heard({"nothing"})
  /\ stage' = "list"
  /\ UNCHANGED <<server, previous, field, page, cursor, cursors, found, errors>>

HandshakeFails ==
  /\ stage \in {"greeting", "confirming"}
  /\ Heard({"error"})
  /\ errors' = {IF stage = "greeting" THEN "initialize" ELSE "initialized"}
  /\ stage' = "closing"
  /\ UNCHANGED <<server, previous, field, page, cursor, cursors, found>>

-----------------------------------------------------------------------------
(* The lists.                                                              *)

\* "{field}-{page}": no two requests have the same id.
PageId(f, n) == 1 + (f - 1) * MaxPages + n

ASSUME IdsAssumption ==
  0 \in Ids /\ \A f \in DOMAIN Fields, n \in 0..(MaxPages - 1) : PageId(f, n) \in Ids

AskPage ==
  /\ stage = "list"
  /\ Ask(PageId(field, page))
  /\ stage' = "listing"
  /\ UNCHANGED <<server, previous, field, page, cursor, cursors, found, errors>>

\* On to the next list, or to the end.
NextField ==
  /\ IF field < Len(Fields)
     THEN field' = field + 1 /\ stage' = "list"
     ELSE stage' = "closing" /\ UNCHANGED field
  /\ page' = 0 /\ cursor' = Start /\ cursors' = {}

\* What was found so far is kept.
ListFails ==
  /\ NextField
  /\ errors' = errors \cup {Fields[field]}

PageFails ==
  /\ stage = "listing"
  /\ Heard({"error"})
  /\ ListFails
  /\ UNCHANGED <<server, previous, found>>

\* An error of the server, or a result without a list.
PageUnusable ==
  /\ stage = "listing"
  /\ Heard({"answer"})
  /\ ListFails
  /\ UNCHANGED <<server, previous, found>>

\* Of two items of one name the later counts (_indexed).
Update(old, new) ==
  [n \in DOMAIN old \cup DOMAIN new |-> IF n \in DOMAIN new THEN new[n] ELSE old[n]]

\* Variants named ...Bug are plausible mistakes; no specification uses them.
StopAtLimitBug ==
  LET p == server[Fields[field]][cursor]
  IN /\ stage = "listing"
     /\ Heard({"answer"})
     /\ found' = [found EXCEPT ![Fields[field]] = Update(@, p.items)]
     /\ \/ (p.next = Start \/ page + 1 = MaxPages) /\ NextField /\ UNCHANGED errors
        \/ /\ p.next # Start /\ page + 1 < MaxPages
           /\ IF p.next = Malformed \/ p.next \in cursors
              THEN ListFails
              ELSE /\ page' = page + 1 /\ cursor' = p.next /\ cursors' = cursors \cup {p.next}
                   /\ stage' = "list" /\ UNCHANGED <<field, errors>>
     /\ UNCHANGED <<server, previous>>

NoLimitBug ==
  LET p == server[Fields[field]][cursor]
  IN /\ stage = "listing"
     /\ Heard({"answer"})
     /\ found' = [found EXCEPT ![Fields[field]] = Update(@, p.items)]
     /\ \/ p.next = Start /\ NextField /\ UNCHANGED errors
        \/ p.next = Malformed /\ ListFails
        \/ /\ p.next \in Cursors
           /\ page' = (page + 1) % MaxPages /\ cursor' = p.next
           /\ stage' = "list" /\ UNCHANGED <<field, cursors, errors>>
     /\ UNCHANGED <<server, previous>>

TakePage ==
  LET p == server[Fields[field]][cursor]
  IN /\ stage = "listing"
     /\ Heard({"answer"})
     /\ found' = [found EXCEPT ![Fields[field]] = Update(@, p.items)]
     /\ \/ p.next = Start /\ NextField /\ UNCHANGED errors
        \/ (p.next = Malformed \/ p.next \in cursors) /\ ListFails
        \/ /\ p.next \in Cursors \ cursors
           /\ IF page + 1 = MaxPages
              THEN ListFails
              ELSE /\ page' = page + 1 /\ cursor' = p.next /\ cursors' = cursors \cup {p.next}
                   /\ stage' = "list" /\ UNCHANGED <<field, errors>>
     /\ UNCHANGED <<server, previous>>

\* finally: upstream.close(); then the snapshot is written or compared.
CloseClient ==
  /\ stage = "closing"
  /\ Close
  /\ stage' = "done"
  /\ UNCHANGED <<server, previous, field, page, cursor, cursors, found, errors>>

Discover ==
  \/ Initialize \/ Greeted \/ Confirm \/ Confirmed \/ HandshakeFails
  \/ AskPage \/ PageFails \/ PageUnusable \/ TakePage \/ CloseClient

-----------------------------------------------------------------------------
(* diff_snapshots, of one list.                                            *)

Added(old, new) == DOMAIN new \ DOMAIN old
Removed(old, new) == DOMAIN old \ DOMAIN new
Changed(old, new) == {n \in DOMAIN old \cap DOMAIN new : old[n] # new[n]}

DiffersBug(f) ==
  Added(previous[f], found[f]) \cup Removed(previous[f], found[f]) # {}

Differs(f) ==
  Added(previous[f], found[f]) \cup Removed(previous[f], found[f])
    \cup Changed(previous[f], found[f]) # {}

HasChanges == \E f \in Lists : Differs(f)

-----------------------------------------------------------------------------
(* Properties.                                                             *)

\* The cursors of a list's pages, from the first on, as far as they go.
Leads(f, path) ==
  \A i \in DOMAIN path :
    IF i = 1 THEN path[i] = Start
    ELSE path[i] \in Cursors /\ path[i] = server[f][path[i - 1]].next

\* The list ends: its pages are those up to the first that names no next.
Ends(f, path) == Leads(f, path) /\ server[f][path[Len(path)]].next = Start

\* All there is on the pages, of two versions the later.
Holds(f, path, items) ==
  LET on(i) == server[f][path[i]].items
  IN /\ DOMAIN items = UNION {DOMAIN on(i) : i \in DOMAIN path}
     /\ \A m \in DOMAIN items : \E i \in DOMAIN path :
          /\ m \in DOMAIN on(i) /\ items[m] = on(i)[m]
          /\ \A j \in DOMAIN path : j > i => m \notin DOMAIN on(j)

Paths == UNION {[1..n -> Cursors \cup {Start}] : n \in 1..MaxPages}

(* A list reported without an error is the whole list, all pages of it:    *)
(* one that was cut short by the limit, a repeated cursor, a malformed one *)
(* or a failed page never passes for complete.                             *)
DiscoveredIsComplete ==
  stage = "done" /\ errors \cap {"initialize", "initialized"} = {} =>
    \A f \in Lists \ errors : \E path \in Paths : Ends(f, path) /\ Holds(f, path, found[f])

\* The server's list is not the one of the snapshot.
IsOther(f) == \A path \in Paths : Ends(f, path) => ~Holds(f, path, previous[f])

(* diff tells of a list what is so: of one that was read without an error, *)
(* also beside lists that failed, it reports a difference exactly if       *)
(* something was added, removed or changed; and it complains only if there *)
(* is such a list or one that failed.                                      *)
DiffIsExact ==
  stage = "done" /\ errors \cap {"initialize", "initialized"} = {} =>
    /\ \A f \in Lists \ errors : Differs(f) <=> IsOther(f)
    /\ HasChanges => \E f \in Lists : f \in errors \/ IsOther(f)

(* Discovery ends, whatever the server answers: also one that pages for    *)
(* ever or never answers.                                                  *)
DiscoveryEnds == stage # "off" ~> stage = "done"
=============================================================================
