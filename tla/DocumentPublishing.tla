------------------------ MODULE DocumentPublishing -------------------------
(* Legal documents and the cache in front of their public pages:            *)
(* DocumentService, EntityService and the handlers that call them.          *)
(*                                                                          *)
(* A visitor's page is answered from the cache or else read from the        *)
(* database and stored.  An editor's write cannot name the cached page: it  *)
(* looks the keys up in an index kept per entity and type, in the same      *)
(* cache.  Entry and index are separate values, read, written and expiring  *)
(* separately, and nothing orders them with the database.                   *)
EXTENDS Integers, Sequences, FiniteSets

CONSTANTS Documents,   \* public hashes
          Entities,    \* legal entities
          Types,       \* "imprint", "privacy"
          Visitors,    \* requests for public pages in flight
          Editors,     \* administrative requests in flight
          TTLs,        \* values of cache.default_ttl; 0 keeps entries for ever
          Patience,    \* longest a request runs (PHP's max_execution_time)
          MaxTime,     \* bound: the clock stops here
          MaxWrites,   \* bound: administrative writes in a behaviour
          NoRow,       \* a document that does not exist
          NoEntry      \* a key the cache does not hold

ASSUME PublishingAssumption ==
  /\ TTLs \subseteq Nat
  /\ Patience \in Nat \ {0}
  /\ MaxTime \in Nat
  /\ MaxWrites \in Nat
ASSUME NoEntryIsNoEntry ==
  NoEntry \notin [keys : SUBSET (Documents \X Types), expires : Nat]

VARIABLES ttl,        \* cache.default_ttl
          calm,       \* requests neither overlap nor fail in the cache
          clock,
          entities,   \* rows of legal_entities
          documents,  \* rows of legal_documents, by public hash
          cached,     \* doc_public_<type>_<hash>
          index,      \* doc_cache_index_<entity>_<type>
          visitor,    \* per visitor: how far the request has come
          editor,     \* per editor: how far the request has come
          writes,     \* administrative writes so far
          changedAt   \* history: when a document's row last changed

vars == <<ttl, calm, clock, entities, documents, cached, index,
          visitor, editor, writes, changedAt>>

Keys == Documents \X Types
Groups == Entities \X Types
GroupOf(row) == <<row.entity, row.type>>

NotYet == -1         \* changedAt of a document that was never created
FirstRows == [entity : Entities, type : Types, content : {0}]

Idle == [at |-> "idle"]
AllIdle ==
  /\ \A v \in Visitors : visitor[v] = Idle
  /\ \A e \in Editors : editor[e] = Idle

(* A request begins: alone, when all is calm.                               *)
MayBegin == calm => AllIdle

(* Mutant of ExpiresAt: an entry lives one second too long.                 *)
ExpiresLate == IF ttl = 0 THEN 0 ELSE clock + ttl + 1

(* The instant at which a value stored now is forgotten; 0 is never.        *)
ExpiresAt == IF ttl = 0 THEN 0 ELSE clock + ttl

Init ==
  /\ ttl \in TTLs
  /\ calm \in BOOLEAN
  /\ clock = 0
  /\ entities = Entities
  /\ documents \in [Documents -> FirstRows \cup {NoRow}]
  /\ cached = [k \in Keys |-> NoEntry]
  /\ index = [g \in Groups |-> NoEntry]
  /\ visitor = [v \in Visitors |-> Idle]
  /\ editor = [e \in Editors |-> Idle]
  /\ writes = 0
  /\ changedAt = [d \in Documents |-> IF documents[d] = NoRow THEN NotYet ELSE 0]

database == <<entities, documents, changedAt, writes>>
cache == <<cached, index>>
settings == <<ttl, calm>>

(* ------------------------------------------------------------------------ *)
(* A public page: findByPublicHashAndType and storeCachedResult             *)
(* ------------------------------------------------------------------------ *)
Goes(v, next) == visitor' = [visitor EXCEPT ![v] = next]

(* A hit answers from the cache and changes nothing.                        *)
Miss(v) ==
  /\ visitor[v] = Idle
  /\ MayBegin
  /\ \E k \in Keys :
       /\ cached[k] = NoEntry
       /\ Goes(v, [at |-> "missed", since |-> clock, key |-> k])
  /\ UNCHANGED <<settings, clock, database, cache, editor>>

(* Mutant of Matches: the row is selected by its hash alone.                *)
MatchesHash(k) == documents[k[1]] # NoRow

(* The row is selected by hash and type together; none is not cached.       *)
Matches(k) == documents[k[1]] # NoRow /\ documents[k[1]].type = k[2]

Fetch(v) ==
  /\ visitor[v].at = "missed"
  /\ Goes(v, IF Matches(visitor[v].key)
             THEN [at |-> "fetched", since |-> visitor[v].since,
                   key |-> visitor[v].key,
                   row |-> documents[visitor[v].key[1]]]
             ELSE Idle)
  /\ UNCHANGED <<settings, clock, database, cache, editor>>

Store(v) ==
  /\ visitor[v].at = "fetched"
  /\ cached' = [cached EXCEPT
       ![visitor[v].key] = [row |-> visitor[v].row, expires |-> ExpiresAt]]
  /\ Goes(v, [at |-> "stored", since |-> visitor[v].since,
              key |-> visitor[v].key, group |-> GroupOf(visitor[v].row)])
  /\ UNCHANGED <<settings, clock, database, index, editor>>

KeysIn(g) == IF index[g] = NoEntry THEN {} ELSE index[g].keys

(* The index is read; one that lists the key already is not written again.  *)
ReadIndex(v) ==
  /\ visitor[v].at = "stored"
  /\ LET keys == KeysIn(visitor[v].group)
     IN  Goes(v, IF visitor[v].key \in keys THEN Idle
                 ELSE [at |-> "indexing", since |-> visitor[v].since,
                       key |-> visitor[v].key, group |-> visitor[v].group,
                       keys |-> keys])
  /\ UNCHANGED <<settings, clock, database, cache, editor>>

(* Mutant of WriteIndex: lists the answer of a missing entry as if a key.   *)
WriteIndexMiss(v) ==
  /\ visitor[v].at = "indexing"
  /\ index' = [index EXCEPT ![visitor[v].group] =
       [keys |-> visitor[v].keys \cup {NoEntry}, expires |-> ExpiresAt]]
  /\ Goes(v, Idle)
  /\ UNCHANGED <<settings, clock, database, cached, editor>>

WriteIndex(v) ==
  /\ visitor[v].at = "indexing"
  /\ index' = [index EXCEPT ![visitor[v].group] =
       [keys |-> visitor[v].keys \cup {visitor[v].key}, expires |-> ExpiresAt]]
  /\ Goes(v, Idle)
  /\ UNCHANGED <<settings, clock, database, cached, editor>>

(* A cache operation throws, or the request dies: the page is answered or   *)
(* lost, and the cache keeps what it holds.                                 *)
VisitorFault(v) ==
  /\ visitor[v].at \in {"missed", "fetched", "stored", "indexing"}
  /\ Goes(v, Idle)
  /\ ~calm
  /\ UNCHANGED <<settings, clock, database, cache, editor>>

(* ------------------------------------------------------------------------ *)
(* Administration                                                           *)
(* ------------------------------------------------------------------------ *)
Acts(e, next) == editor' = [editor EXCEPT ![e] = next]
Invalidating(groups, since) ==
  [at |-> "invalidate", since |-> since, groups |-> groups]

Writes(rows) ==
  /\ writes < MaxWrites
  /\ writes' = writes + 1
  /\ documents' = rows
  /\ changedAt' = [d \in Documents |->
       IF rows[d] = documents[d] THEN changedAt[d] ELSE clock]

(* The content written now is told from every other by the write's number.  *)
NewRow(entity, type) == [entity |-> entity, type |-> type, content |-> writes + 1]

(* create, under a hash nobody has seen: then the group is invalidated.     *)
Create(e) ==
  /\ editor[e] = Idle
  /\ MayBegin
  /\ \E d \in Documents, x \in entities, t \in Types :
       /\ changedAt[d] = NotYet
       /\ Writes([documents EXCEPT ![d] = NewRow(x, t)])
       /\ Acts(e, Invalidating(<<<<x, t>>>>, clock))
  /\ UNCHANGED <<settings, clock, entities, cache, visitor>>

(* update and delete first read the row they are going to change.           *)
Find(e) ==
  /\ editor[e] = Idle
  /\ MayBegin
  /\ \E d \in Documents, aim \in {"update", "delete"} :
       /\ documents[d] # NoRow
       /\ Acts(e, [at |-> aim, since |-> clock, doc |-> d,
                   previous |-> documents[d]])
  /\ UNCHANGED <<settings, clock, database, cache, visitor>>

(* Mutant of Update: the group the document leaves is not invalidated.      *)
UpdateNewGroupOnly(e) ==
  /\ editor[e].at = "update"
  /\ LET d == editor[e].doc
     IN  \E x \in entities, t \in Types :
           /\ Writes(IF documents[d] = NoRow THEN documents
                     ELSE [documents EXCEPT ![d] = NewRow(x, t)])
           /\ Acts(e, Invalidating(<<<<x, t>>>>, editor[e].since))
  /\ UNCHANGED <<settings, clock, entities, cache, visitor>>

(* UPDATE by id: no row if it was deleted meanwhile.  The groups of the old *)
(* and of the new row are invalidated, one after the other.                 *)
Update(e) ==
  /\ editor[e].at = "update"
  /\ LET d == editor[e].doc
     IN  \E x \in entities, t \in Types :
           /\ Writes(IF documents[d] = NoRow THEN documents
                     ELSE [documents EXCEPT ![d] = NewRow(x, t)])
           /\ Acts(e, Invalidating(<<GroupOf(editor[e].previous), <<x, t>>>>,
                                   editor[e].since))
  /\ UNCHANGED <<settings, clock, entities, cache, visitor>>

Delete(e) ==
  /\ editor[e].at = "delete"
  /\ Writes([documents EXCEPT ![editor[e].doc] = NoRow])
  /\ Acts(e, Invalidating(<<GroupOf(editor[e].previous)>>, editor[e].since))
  /\ UNCHANGED <<settings, clock, entities, cache, visitor>>

(* The statement fails, on a foreign key for instance: nothing is written.  *)
WriteFails(e) ==
  /\ editor[e].at \in {"update", "delete"}
  /\ Acts(e, Idle)
  /\ UNCHANGED <<settings, clock, database, cache, visitor>>

(* EntityService::delete: the foreign key takes the documents along, and    *)
(* nobody tells the cache.                                                  *)
DeleteEntity(e) ==
  /\ editor[e] = Idle
  /\ MayBegin
  /\ \E x \in entities :
       /\ entities' = entities \ {x}
       /\ Writes([d \in Documents |->
                    IF documents[d] # NoRow /\ documents[d].entity = x
                    THEN NoRow ELSE documents[d]])
  /\ UNCHANGED <<settings, clock, cache, visitor, editor>>

(* invalidate: read the index, delete the keys it lists, delete the index.  *)
Group(e) == Head(editor[e].groups)
NextGroup(e) ==
  IF Len(editor[e].groups) = 1 THEN Idle
  ELSE Invalidating(Tail(editor[e].groups), editor[e].since)

ReadKeys(e) ==
  /\ editor[e].at = "invalidate"
  /\ Acts(e, [at |-> "dropping", since |-> editor[e].since,
              groups |-> editor[e].groups, keys |-> KeysIn(Group(e))])
  /\ UNCHANGED <<settings, clock, database, cache, visitor>>

DropKeys(e) ==
  /\ editor[e].at = "dropping"
  /\ cached' = [k \in Keys |-> IF k \in editor[e].keys THEN NoEntry ELSE cached[k]]
  /\ Acts(e, [at |-> "unlisting", since |-> editor[e].since,
              groups |-> editor[e].groups])
  /\ UNCHANGED <<settings, clock, database, index, visitor>>

DropIndex(e) ==
  /\ editor[e].at = "unlisting"
  /\ index' = [index EXCEPT ![Group(e)] = NoEntry]
  /\ Acts(e, NextGroup(e))
  /\ UNCHANGED <<settings, clock, database, cached, visitor>>

(* A cache operation throws and the group is given up, or the request dies. *)
EditorFault(e) ==
  /\ editor[e].at \in {"invalidate", "dropping", "unlisting"}
  /\ \E next \in {NextGroup(e), Idle} : Acts(e, next)
  /\ ~calm
  /\ UNCHANGED <<settings, clock, database, cache, visitor>>

(* ------------------------------------------------------------------------ *)
(* Time                                                                     *)
(* ------------------------------------------------------------------------ *)
(* What the cache still answers at an instant.                              *)
Unexpired(entry, now) ==
  IF entry # NoEntry /\ entry.expires # 0 /\ entry.expires <= now
  THEN NoEntry ELSE entry

InTime(p) == p # Idle => clock < p.since + Patience

Tick ==
  /\ clock < MaxTime
  /\ \A v \in Visitors : InTime(visitor[v])
  /\ \A e \in Editors : InTime(editor[e])
  /\ clock' = clock + 1
  /\ cached' = [k \in Keys |-> Unexpired(cached[k], clock + 1)]
  /\ index' = [g \in Groups |-> Unexpired(index[g], clock + 1)]
  /\ UNCHANGED <<settings, database, visitor, editor>>

Next ==
  \/ \E v \in Visitors :
       \/ Miss(v) \/ Fetch(v) \/ Store(v) \/ ReadIndex(v) \/ WriteIndex(v)
       \/ VisitorFault(v)
  \/ \E e \in Editors :
       \/ Create(e) \/ Find(e) \/ Update(e) \/ Delete(e) \/ WriteFails(e)
       \/ DeleteEntity(e)
       \/ ReadKeys(e) \/ DropKeys(e) \/ DropIndex(e) \/ EditorFault(e)
  \/ Tick

Spec == Init /\ [][Next]_vars

(* ------------------------------------------------------------------------ *)
(* Properties                                                               *)
(* ------------------------------------------------------------------------ *)
Rows == [entity : Entities, type : Types, content : 0..MaxWrites]

(* A visitor's request, in the order of its steps.                          *)
Visits ==
  {Idle}
    \cup [at : {"missed"}, since : Nat, key : Keys]
    \cup [at : {"fetched"}, since : Nat, key : Keys, row : Rows]
    \cup [at : {"stored"}, since : Nat, key : Keys, group : Groups]
    \cup [at : {"indexing"}, since : Nat, key : Keys, group : Groups,
          keys : SUBSET Keys]

(* An editor's request; there is a group until the last one is invalidated. *)
SomeGroups == Seq(Groups) \ {<<>>}
Edits ==
  {Idle}
    \cup [at : {"update", "delete"}, since : Nat, doc : Documents, previous : Rows]
    \cup [at : {"invalidate", "unlisting"}, since : Nat, groups : SomeGroups]
    \cup [at : {"dropping"}, since : Nat, groups : SomeGroups, keys : SUBSET Keys]

TypeOK ==
  /\ ttl \in TTLs
  /\ calm \in BOOLEAN
  /\ clock \in Nat
  /\ entities \subseteq Entities
  /\ documents \in [Documents -> Rows \cup {NoRow}]
  /\ cached \in [Keys -> [row : Rows, expires : Nat] \cup {NoEntry}]
  /\ index \in [Groups -> [keys : SUBSET Keys, expires : Nat] \cup {NoEntry}]
  /\ visitor \in [Visitors -> Visits]
  /\ editor \in [Editors -> Edits]
  /\ writes \in 0..MaxWrites
  /\ changedAt \in [Documents -> Nat \cup {NotYet}]

(* DocumentService.php:187, "Cached public documents expire": however       *)
(* readers, writers and failing cache operations fall together, a page whose*)
(* row was replaced or deleted is gone from the cache one lifetime of an    *)
(* entry and one of a request after the change.                             *)
StaleExpires ==
  ttl # 0 =>
    \A k \in Keys :
      cached[k] # NoEntry /\ cached[k].row # documents[k[1]]
        => clock < changedAt[k[1]] + Patience + ttl

(* Where requests do not overlap, no cache fails and entries do not expire, *)
(* an editor's change is public when the request returns: the index lists   *)
(* every key that has to go, also when the document moves to another entity *)
(* or type.  A page of a deleted entity is never shown, cached or not.      *)
PublishedAtOnce ==
  ttl = 0 /\ calm /\ AllIdle =>
    \A k \in Keys :
      cached[k] # NoEntry /\ cached[k].row.entity \in entities
        => cached[k].row = documents[k[1]]

(* DocumentHandler.php:39, "A valid hash can therefore never be used to     *)
(* render a different document type", through the cache as well, while      *)
(* documents change their type under it.                                    *)
NeverOtherType ==
  \A k \in Keys : cached[k] # NoEntry => cached[k].row.type = k[2]
=============================================================================
