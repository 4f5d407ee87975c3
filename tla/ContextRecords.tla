--------------------------- MODULE ContextRecords ---------------------------
(***************************************************************************)
(* Context items and digests of packages/storage task-storage.ts.  An item *)
(* is replaced by another one of the same scope, which keeps a reference   *)
(* to it; a scope has one digest.  Every read of an item follows its chain *)
(* of replacements in both directions and refuses the whole chain, and     *)
(* with it every packet that needs the scope, if a link is wrong.          *)
(***************************************************************************)
EXTENDS Naturals, FiniteSets

CONSTANTS
    Items, Digests,     \* identities
    Scopes,             \* projects, Big Tasks and Subtasks context belongs to
    Writers             \* processes that add digests

NoItem    == [status |-> "NONE"]
NoDigest  == "NO_DIGEST"
NoReference == "NO_REFERENCE"

ASSUME NamesAssumption == NoReference \notin Items /\ NoDigest \notin Scopes

Idle      == [digest |-> "NONE", scope |-> "NONE"]

VARIABLES
    known,      \* scopes that exist
    items,      \* context_items
    digests,    \* context_digests: the scope of each
    writing     \* the digest a process checked and has not inserted yet

contextVars == <<known, items, digests, writing>>

ContextInit ==
    /\ known = {}
    /\ items = [i \in Items |-> NoItem]
    /\ digests = [d \in Digests |-> NoDigest]
    /\ writing = [w \in Writers |-> Idle]

StoredItems   == {i \in Items : items[i].status # "NONE"}
Successors(i) == {s \in StoredItems : items[s].supersedes = i}

----------------------------------------------------------------------------
ScopeCreated(scope) ==
    /\ known' = known \cup {scope}
    /\ UNCHANGED <<items, digests, writing>>

(* createContextItem: an item that replaces none, of any status.           *)
CreateItem(i, scope, status) ==
    /\ scope \in known
    /\ i \notin StoredItems
    /\ items' = [items EXCEPT ![i] =
          [status |-> status, scope |-> scope, supersedes |-> NoReference]]
    /\ UNCHANGED <<known, digests, writing>>

ReplacedOnly(i, scope, prior) ==    \* faulty: the prior item stays as it was
    [items EXCEPT ![i] = [status |-> "ACTIVE", scope |-> scope, supersedes |-> prior]]

Replaced(i, scope, prior) ==
    [items EXCEPT ![i] = [status |-> "ACTIVE", scope |-> scope, supersedes |-> prior],
                  ![prior].status = "SUPERSEDED"]

(* supersedeContextItem, one transaction. *)
SupersedeItem(i, scope, prior) ==
    /\ i # prior
    /\ prior \in StoredItems
    /\ items[prior].status = "ACTIVE"
    /\ items[prior].scope = scope /\ scope \in known
    /\ i \notin StoredItems
    /\ Successors(prior) = {}
    /\ items' = Replaced(i, scope, prior)
    /\ UNCHANGED <<known, digests, writing>>

(* createContextDigest looks first and inserts later; the key and the      *)
(* unique index of the scope judge the insertion.                          *)
CheckDigest(w, d, scope) ==
    /\ writing[w] = Idle
    /\ scope \in known
    /\ digests[d] = NoDigest
    /\ \A x \in Digests : digests[x] # scope
    /\ writing' = [writing EXCEPT ![w] = [digest |-> d, scope |-> scope]]
    /\ UNCHANGED <<known, items, digests>>

DigestAccepted(d, scope) ==
    digests[d] = NoDigest /\ \A x \in Digests : digests[x] # scope

InsertDigest(w) ==
    /\ writing[w] # Idle
    /\ LET d == writing[w].digest
           scope == writing[w].scope
       IN  digests' = IF DigestAccepted(d, scope)
                      THEN [digests EXCEPT ![d] = scope] ELSE digests
    /\ writing' = [writing EXCEPT ![w] = Idle]
    /\ UNCHANGED <<known, items>>

ItemStatuses == {"PROPOSED", "ACTIVE", "SUPERSEDED", "REJECTED", "RESOLVED"}

ContextNext ==
    \/ \E scope \in Scopes :
          \/ ScopeCreated(scope)
          \/ \E i \in Items :
                \/ \E status \in ItemStatuses : CreateItem(i, scope, status)
                \/ \E prior \in Items : SupersedeItem(i, scope, prior)
          \/ \E w \in Writers, d \in Digests : CheckDigest(w, d, scope)
    \/ \E w \in Writers : InsertDigest(w)

ContextSpec == ContextInit /\ [][ContextNext]_contextVars

----------------------------------------------------------------------------
LinkValid(successor, prior) ==
    /\ prior \in StoredItems
    /\ items[prior].status = "SUPERSEDED"
    /\ items[successor].status \in {"ACTIVE", "SUPERSEDED"}
    /\ items[prior].scope = items[successor].scope
    /\ Successors(prior) = {successor}

(* The items that i replaced, directly or not: those in every set that has *)
(* the item i replaced and, with an item, the one that this one replaced.  *)
ReplacedBy(i)   == {items[i].supersedes} \ {NoReference}
Predecessors(i) == {p \in Items : \A all \in SUBSET Items :
    ReplacedBy(i) \subseteq all /\ (\A q \in all \cap StoredItems : ReplacedBy(q) \subseteq all)
        => p \in all}

(* #validateContextSupersessionIntegrity, for the whole chain of the item. *)
ItemReadable(i) ==
    /\ items[i].scope \in known
    /\ items[i].supersedes # NoReference => LinkValid(i, items[i].supersedes)
    /\ Cardinality(Successors(i)) <= 1
    /\ i \notin Predecessors(i)
    /\ (items[i].supersedes # NoReference /\ Successors(i) = {})
          => items[i].status = "ACTIVE"

(* Whatever is created, replaced and digested in whatever order by several *)
(* processes, every chain of items can be followed: it is a line in one    *)
(* scope whose last item alone is active, and each scope has at most one   *)
(* digest, without which every read of the scope is refused.               *)
ContextReadable ==
    /\ \A i \in StoredItems : ItemReadable(i)
    /\ \A d, x \in Digests : (digests[d] # NoDigest /\ d # x) => digests[d] # digests[x]
=============================================================================
