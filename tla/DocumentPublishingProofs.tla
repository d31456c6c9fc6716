------------------------ MODULE DocumentPublishingProofs ------------------------
(***************************************************************************)
(* Proofs about DocumentPublishing, for every number of documents, types,  *)
(* visitors and editors, and every lifetime of the cache.                  *)
(***************************************************************************)
EXTENDS DocumentPublishing, TLAPS

---------------------------------------------------------------------------
(* Types *)

\* What the step of a visitor's request finds in it.
LEMMA VisitType ==
  ASSUME NEW p \in Visits
  PROVE  /\ p # Idle => p.since \in Nat /\ p.key \in Keys
         /\ p.at = "fetched" => p.row \in Rows
         /\ p.at \in {"stored", "indexing"} => p.group \in Groups
         /\ p.at = "indexing" => p.keys \in SUBSET Keys
         /\ p.at # "idle" <=> p # Idle
  BY DEF Visits, Idle

\* What the step of an editor's request finds in it.
LEMMA EditType ==
  ASSUME NEW p \in Edits
  PROVE  /\ p # Idle => p.since \in Nat
         /\ p.at \in {"update", "delete"} => p.doc \in Documents /\ p.previous \in Rows
         /\ p.at \in {"invalidate", "dropping", "unlisting"} =>
              /\ p.groups \in Seq(Groups) /\ p.groups # <<>>
              /\ Head(p.groups) \in Groups
         /\ p.at = "dropping" => p.keys \in SUBSET Keys
         /\ p.at # "idle" <=> p # Idle
  BY DEF Edits, Idle, SomeGroups

\* The rest of a request's groups is one to go on with.
LEMMA NextGroupType ==
  ASSUME TypeOK, NEW e \in Editors, editor[e].at \in {"invalidate", "dropping", "unlisting"}
  PROVE  NextGroup(e) \in Edits
  <1>1. /\ editor[e] \in Edits
        /\ editor[e].groups \in Seq(Groups) /\ editor[e].groups # <<>>
        /\ editor[e].since \in Nat
    BY EditType DEF TypeOK, Idle
  <1>2. CASE Len(editor[e].groups) = 1
    BY <1>2 DEF NextGroup, Edits
  <1>3. CASE Len(editor[e].groups) # 1
    <2> DEFINE groups == editor[e].groups
    <2>0. Len(groups) \in Nat /\ Len(groups) # 0 /\ Len(groups) # 1
      BY <1>1, <1>3
    <2> DEFINE rest == Tail(groups)
    <2>1. rest \in Seq(Groups) /\ Len(rest) = Len(groups) - 1
      BY <1>1
    <2> HIDE DEF rest
    <2>2. Len(rest) # 0
      BY <2>0, <2>1
    <2>3. rest # <<>>
      BY <2>2
    <2>q. QED BY <1>1, <1>3, <2>1, <2>3 DEF NextGroup, Invalidating, Edits, SomeGroups, rest
  <1>q. QED BY <1>2, <1>3

\* An index lists keys, and a row belongs to a group.
LEMMA KeysInType == ASSUME TypeOK, NEW g \in Groups PROVE KeysIn(g) \in SUBSET Keys
  BY DEF TypeOK, KeysIn

LEMMA GroupType == ASSUME NEW row \in Rows PROVE GroupOf(row) \in Groups
  BY DEF Rows, GroupOf, Groups

\* What is stored now expires at an instant.
LEMMA ExpiresType == TypeOK => ExpiresAt \in Nat
  BY PublishingAssumption DEF TypeOK, ExpiresAt

\* Writing rows keeps the tables of their types.
LEMMA WritesType ==
  ASSUME TypeOK, NEW rows \in [Documents -> Rows \cup {NoRow}], Writes(rows)
  PROVE  /\ documents' \in [Documents -> Rows \cup {NoRow}]
         /\ writes' \in 0..MaxWrites
         /\ changedAt' \in [Documents -> Nat \cup {NotYet}]
  BY PublishingAssumption DEF TypeOK, Writes, Rows

\* The row an editor writes.
LEMMA NewRowType ==
  ASSUME TypeOK, writes < MaxWrites, NEW x \in Entities, NEW t \in Types
  PROVE  NewRow(x, t) \in Rows
  BY PublishingAssumption DEF TypeOK, NewRow, Rows

\* A request to invalidate groups
LEMMA InvalidatingType ==
  ASSUME NEW groups \in Seq(Groups), groups # <<>>, NEW since \in Nat
  PROVE  Invalidating(groups, since) \in Edits
  BY DEF Invalidating, Edits, SomeGroups

\* One group, or two
LEMMA FewGroups ==
  ASSUME NEW g \in Groups, NEW h \in Groups
  PROVE  /\ <<g>> \in Seq(Groups) /\ <<g>> # <<>>
         /\ <<g, h>> \in Seq(Groups) /\ <<g, h>> # <<>>
  <1>1. <<g>> \in Seq(Groups) /\ <<g, h>> \in Seq(Groups)
    OBVIOUS
  <1>2. Len(<<g>>) = 1 /\ Len(<<g, h>>) = 2 /\ Len(<<>>) = 0
    OBVIOUS
  <1>q. QED BY <1>1, <1>2

\* The steps of a visitor's request
LEMMA VisitorTypes ==
  ASSUME TypeOK, NEW v \in Visitors,
         Miss(v) \/ Fetch(v) \/ Store(v) \/ ReadIndex(v) \/ WriteIndex(v) \/ VisitorFault(v)
  PROVE  TypeOK'
  <1> DEFINE p == visitor[v]
  <1>0. p \in Visits
    BY DEF TypeOK
  <1>1. ASSUME NEW next \in Visits, Goes(v, next),
               UNCHANGED <<settings, clock, database, editor>>,
               cached' \in [Keys -> [row : Rows, expires : Nat] \cup {NoEntry}],
               index' \in [Groups -> [keys : SUBSET Keys, expires : Nat] \cup {NoEntry}]
        PROVE  TypeOK'
    BY <1>1 DEF TypeOK, Goes, settings, database
  <1>2. /\ cached \in [Keys -> [row : Rows, expires : Nat] \cup {NoEntry}]
        /\ index \in [Groups -> [keys : SUBSET Keys, expires : Nat] \cup {NoEntry}]
        /\ clock \in Nat
    BY DEF TypeOK
  <1>3. Idle \in Visits
    BY DEF Visits
  <1>4. CASE Miss(v)
    <2>1. PICK k \in Keys : Goes(v, [at |-> "missed", since |-> clock, key |-> k])
      BY <1>4 DEF Miss
    <2>2. [at |-> "missed", since |-> clock, key |-> k] \in Visits
      BY <1>2 DEF Visits
    <2>q. QED BY <1>1, <1>2, <1>4, <2>1, <2>2 DEF Miss, cache
  <1>5. CASE Fetch(v)
    <2>1. p.since \in Nat /\ p.key \in Keys
      BY <1>0, <1>5, VisitType DEF Fetch, Idle
    <2>2. ASSUME Matches(p.key)
          PROVE  [at |-> "fetched", since |-> p.since, key |-> p.key,
                  row |-> documents[p.key[1]]] \in Visits
      <3>1. documents[p.key[1]] \in Rows
        BY <2>1, <2>2 DEF Matches, TypeOK, Keys
      <3>q. QED BY <2>1, <3>1 DEF Visits
    <2>q. QED BY <1>1, <1>2, <1>3, <1>5, <2>2 DEF Fetch, cache
  <1>6. CASE Store(v)
    <2>1. p.since \in Nat /\ p.key \in Keys /\ p.row \in Rows
      BY <1>0, <1>6, VisitType DEF Store, Idle
    <2>2. [at |-> "stored", since |-> p.since, key |-> p.key, group |-> GroupOf(p.row)] \in Visits
      BY <2>1, GroupType DEF Visits
    <2>3. cached' \in [Keys -> [row : Rows, expires : Nat] \cup {NoEntry}]
      BY <1>2, <1>6, <2>1, ExpiresType DEF Store
    <2>q. QED BY <1>1, <1>2, <1>6, <2>2, <2>3 DEF Store
  <1>7. CASE ReadIndex(v)
    <2>1. p.since \in Nat /\ p.key \in Keys /\ p.group \in Groups
      BY <1>0, <1>7, VisitType DEF ReadIndex, Idle
    <2>2. [at |-> "indexing", since |-> p.since, key |-> p.key, group |-> p.group,
           keys |-> KeysIn(p.group)] \in Visits
      BY <2>1, KeysInType DEF Visits
    <2>q. QED BY <1>1, <1>2, <1>3, <1>7, <2>2 DEF ReadIndex, cache
  <1>8. CASE WriteIndex(v)
    <2>1. p.key \in Keys /\ p.group \in Groups /\ p.keys \in SUBSET Keys
      BY <1>0, <1>8, VisitType DEF WriteIndex, Idle
    <2>2. index' \in [Groups -> [keys : SUBSET Keys, expires : Nat] \cup {NoEntry}]
      BY <1>2, <1>8, <2>1, ExpiresType DEF WriteIndex
    <2>q. QED BY <1>1, <1>2, <1>3, <1>8, <2>2 DEF WriteIndex
  <1>9. CASE VisitorFault(v)
    BY <1>1, <1>2, <1>3, <1>9 DEF VisitorFault, cache
  <1>q. QED BY <1>4, <1>5, <1>6, <1>7, <1>8, <1>9

\* The steps of an editor's request
LEMMA EditorTypes ==
  ASSUME TypeOK, NEW e \in Editors,
         \/ Create(e) \/ Find(e) \/ Update(e) \/ Delete(e) \/ WriteFails(e)
         \/ DeleteEntity(e)
         \/ ReadKeys(e) \/ DropKeys(e) \/ DropIndex(e) \/ EditorFault(e)
  PROVE  TypeOK'
  <1> DEFINE p == editor[e]
             Cached == [Keys -> [row : Rows, expires : Nat] \cup {NoEntry}]
             Index == [Groups -> [keys : SUBSET Keys, expires : Nat] \cup {NoEntry}]
             Documented == [Documents -> Rows \cup {NoRow}]
  <1>0. p \in Edits /\ Idle \in Edits
    BY DEF TypeOK, Edits
  <1>1. /\ cached \in Cached /\ index \in Index /\ documents \in Documented
        /\ clock \in Nat /\ entities \subseteq Entities
    BY DEF TypeOK
  <1>2. ASSUME NEW next \in Edits, Acts(e, next), UNCHANGED <<settings, clock, visitor>>,
               cached' \in Cached, index' \in Index,
               UNCHANGED database
        PROVE  TypeOK'
    BY <1>2 DEF TypeOK, Acts, settings, database
  <1>3. ASSUME NEW next \in Edits, Acts(e, next) \/ UNCHANGED editor,
               UNCHANGED <<settings, clock, visitor, cache>>,
               entities' \subseteq Entities,
               NEW rows \in Documented, Writes(rows)
        PROVE  TypeOK'
    <2>1. /\ documents' \in Documented
          /\ writes' \in 0..MaxWrites
          /\ changedAt' \in [Documents -> Nat \cup {NotYet}]
      BY <1>3, WritesType
    <2>q. QED BY <1>3, <2>1 DEF TypeOK, Acts, settings, cache
  <1>4. ASSUME NEW d \in Documents, NEW x \in entities, NEW t \in Types, writes < MaxWrites
        PROVE  /\ [documents EXCEPT ![d] = NewRow(x, t)] \in Documented
               /\ <<x, t>> \in Groups
    BY <1>1, <1>4, NewRowType DEF Groups
  <1>5. CASE Create(e)
    <2>1. PICK d \in Documents, x \in entities, t \in Types :
            /\ Writes([documents EXCEPT ![d] = NewRow(x, t)])
            /\ Acts(e, Invalidating(<<<<x, t>>>>, clock))
      BY <1>5 DEF Create
    <2>2. writes < MaxWrites
      BY <2>1 DEF Writes
    <2>3. Invalidating(<<<<x, t>>>>, clock) \in Edits
      BY <1>1, <1>4, <2>2, InvalidatingType, FewGroups
    <2>q. QED BY <1>1, <1>3, <1>4, <1>5, <2>1, <2>2, <2>3 DEF Create
  <1>6. CASE Find(e)
    <2>1. PICK d \in Documents, aim \in {"update", "delete"} :
            /\ documents[d] # NoRow
            /\ Acts(e, [at |-> aim, since |-> clock, doc |-> d, previous |-> documents[d]])
      BY <1>6 DEF Find
    <2>2. [at |-> aim, since |-> clock, doc |-> d, previous |-> documents[d]] \in Edits
      BY <1>1, <2>1 DEF Edits
    <2>q. QED BY <1>1, <1>2, <1>6, <2>1, <2>2 DEF Find, cache
  <1>7. CASE Update(e)
    <2>1. p.since \in Nat /\ p.doc \in Documents /\ GroupOf(p.previous) \in Groups
      BY <1>0, <1>7, EditType, GroupType DEF Update, Idle
    <2>2. PICK x \in entities, t \in Types :
            /\ Writes(IF documents[p.doc] = NoRow THEN documents
                      ELSE [documents EXCEPT ![p.doc] = NewRow(x, t)])
            /\ Acts(e, Invalidating(<<GroupOf(p.previous), <<x, t>>>>, p.since))
      BY <1>7 DEF Update
    <2>3. writes < MaxWrites
      BY <2>2 DEF Writes
    <2>4. Invalidating(<<GroupOf(p.previous), <<x, t>>>>, p.since) \in Edits
      BY <1>4, <2>1, <2>3, InvalidatingType, FewGroups
    <2>q. QED BY <1>1, <1>3, <1>4, <1>7, <2>1, <2>2, <2>3, <2>4 DEF Update
  <1>8. CASE Delete(e)
    <2>1. p.since \in Nat /\ p.doc \in Documents /\ GroupOf(p.previous) \in Groups
      BY <1>0, <1>8, EditType, GroupType DEF Delete, Idle
    <2>2. Invalidating(<<GroupOf(p.previous)>>, p.since) \in Edits
      BY <2>1, InvalidatingType, FewGroups
    <2>q. QED BY <1>1, <1>3, <1>8, <2>1, <2>2 DEF Delete
  <1>9. CASE WriteFails(e)
    BY <1>0, <1>1, <1>2, <1>9 DEF WriteFails, cache
  <1>10. CASE DeleteEntity(e)
    BY <1>0, <1>1, <1>3, <1>10 DEF DeleteEntity
  <1>11. CASE ReadKeys(e)
    <2>1. /\ p.since \in Nat /\ p.groups \in SomeGroups
          /\ KeysIn(Group(e)) \in SUBSET Keys
      BY <1>0, <1>11, EditType, KeysInType DEF ReadKeys, Idle, Group, SomeGroups
    <2>2. [at |-> "dropping", since |-> p.since, groups |-> p.groups,
           keys |-> KeysIn(Group(e))] \in Edits
      BY <2>1 DEF Edits
    <2>q. QED BY <1>1, <1>2, <1>11, <2>2 DEF ReadKeys, cache
  <1>12. CASE DropKeys(e)
    <2>1. p.since \in Nat /\ p.groups \in SomeGroups
      BY <1>0, <1>12, EditType DEF DropKeys, Idle, SomeGroups
    <2>2. [at |-> "unlisting", since |-> p.since, groups |-> p.groups] \in Edits
      BY <2>1 DEF Edits
    <2>3. cached' \in Cached
      BY <1>1, <1>12 DEF DropKeys
    <2>q. QED BY <1>1, <1>2, <1>12, <2>2, <2>3 DEF DropKeys
  <1>13. CASE DropIndex(e)
    <2>1. NextGroup(e) \in Edits
      BY <1>13, NextGroupType DEF DropIndex
    <2>2. index' \in Index
      BY <1>1, <1>13 DEF DropIndex
    <2>q. QED BY <1>1, <1>2, <1>13, <2>1, <2>2 DEF DropIndex
  <1>14. CASE EditorFault(e)
    <2>1. NextGroup(e) \in Edits
      BY <1>14, NextGroupType DEF EditorFault
    <2>q. QED BY <1>0, <1>1, <1>2, <1>14, <2>1 DEF EditorFault, cache
  <1>q. QED BY <1>5, <1>6, <1>7, <1>8, <1>9, <1>10, <1>11, <1>12, <1>13, <1>14

LEMMA TypeInitially == Init => TypeOK
  <1> SUFFICES ASSUME Init PROVE TypeOK
    OBVIOUS
  <1>1. FirstRows \subseteq Rows
    BY PublishingAssumption DEF FirstRows, Rows
  <1>2. documents \in [Documents -> Rows \cup {NoRow}]
    BY <1>1 DEF Init
  <1>q. QED BY <1>2, PublishingAssumption DEF Init, TypeOK, Visits, Edits, NotYet

LEMMA TypeInductive == TypeOK /\ [Next]_vars => TypeOK'
  <1> SUFFICES ASSUME TypeOK, [Next]_vars PROVE TypeOK'
    OBVIOUS
  <1>1. CASE Tick
    <2>1. /\ cached' \in [Keys -> [row : Rows, expires : Nat] \cup {NoEntry}]
          /\ index' \in [Groups -> [keys : SUBSET Keys, expires : Nat] \cup {NoEntry}]
      BY <1>1 DEF Tick, TypeOK, Unexpired
    <2>q. QED BY <1>1, <2>1 DEF Tick, TypeOK, settings, database
  <1>2. CASE UNCHANGED vars
    BY <1>2 DEF vars, TypeOK
  <1>q. QED BY <1>1, <1>2, VisitorTypes, EditorTypes DEF Next

\* Tables, cache and requests keep their types.
THEOREM PublishingTypeCorrect == Spec => []TypeOK
  <1>q. QED BY TypeInitially, TypeInductive, PTL DEF Spec

---------------------------------------------------------------------------
(* Never a document of another type *)

(* A row on its way into the cache is one of its key's type, too.           *)
TypesAgree ==
  /\ NeverOtherType
  /\ \A v \in Visitors :
       visitor[v].at = "fetched" => visitor[v].row.type = visitor[v].key[2]

LEMMA TypesAgreeInductive == TypeOK /\ TypesAgree /\ [Next]_vars => TypesAgree'
  <1> SUFFICES ASSUME TypeOK, TypesAgree, [Next]_vars PROVE TypesAgree'
    OBVIOUS
  <1>1. ASSUME NEW v \in Visitors, Store(v)
        PROVE  TypesAgree'
    <2>1. visitor[v].key \in Keys /\ visitor[v].row.type = visitor[v].key[2]
      BY <1>1, VisitType DEF Store, TypeOK, Idle, TypesAgree
    <2>2. cached' = [cached EXCEPT
            ![visitor[v].key] = [row |-> visitor[v].row, expires |-> ExpiresAt]]
      BY <1>1 DEF Store
    <2>3. NeverOtherType'
      BY <2>1, <2>2 DEF TypesAgree, NeverOtherType, TypeOK
    <2>q. QED BY <1>1, <2>3 DEF Store, Goes, TypesAgree, TypeOK
  <1>2. ASSUME NEW v \in Visitors, Fetch(v)
        PROVE  TypesAgree'
    <2>1. ASSUME visitor'[v].at = "fetched"
          PROVE  visitor'[v].row.type = visitor'[v].key[2]
      BY <1>2, <2>1 DEF Fetch, Goes, Idle, Matches, TypeOK
    <2>2. NeverOtherType'
      BY <1>2 DEF Fetch, cache, TypesAgree, NeverOtherType
    <2>q. QED BY <1>2, <2>1, <2>2 DEF Fetch, Goes, TypesAgree, TypeOK
  <1>3. ASSUME NEW v \in Visitors,
               Miss(v) \/ ReadIndex(v) \/ WriteIndex(v) \/ VisitorFault(v)
        PROVE  TypesAgree'
    <2>1. /\ \A w \in Visitors \ {v} : visitor'[w] = visitor[w]
          /\ visitor'[v].at # "fetched"
          /\ cached' = cached
      BY <1>3 DEF Miss, ReadIndex, WriteIndex, VisitorFault, Goes, Idle, cache, TypeOK
    <2>q. QED BY <2>1 DEF TypesAgree, NeverOtherType
  <1>4. CASE UNCHANGED visitor /\ \A k \in Keys : cached'[k] \in {cached[k], NoEntry}
    BY <1>4 DEF TypesAgree, NeverOtherType
  <1>5. ASSUME NEW e \in Editors, DropKeys(e)
        PROVE  UNCHANGED visitor /\ \A k \in Keys : cached'[k] \in {cached[k], NoEntry}
    BY <1>5 DEF DropKeys
  <1>6. CASE Tick
    BY <1>4, <1>6 DEF Tick, Unexpired
  <1>q. QED BY <1>1, <1>2, <1>3, <1>4, <1>5, <1>6
     DEF Next, vars, cache, Create, Find, Update, Delete, WriteFails, DeleteEntity,
         ReadKeys, DropIndex, EditorFault

\* DocumentHandler.php:39: a hash never shows a document of another type, whatever
\* the cache keeps while documents change theirs.
THEOREM NoOtherType == Spec => []NeverOtherType
  <1>1. Init => TypesAgree
    BY DEF Init, TypesAgree, NeverOtherType, Idle
  <1>2. TypesAgree => NeverOtherType
    BY DEF TypesAgree
  <1>q. QED BY <1>1, <1>2, TypeInitially, TypeInductive, TypesAgreeInductive, PTL DEF Spec

---------------------------------------------------------------------------
(* Stale pages expire *)

(* A request is no longer under way than Patience, nothing changed later    *)
(* than now; what is cached has not expired, nor will it outlive a lifetime *)
(* from now.                                                                *)
Punctual ==
  /\ \A v \in Visitors : visitor[v] # Idle =>
       visitor[v].since <= clock /\ clock <= visitor[v].since + Patience
  /\ \A d \in Documents : changedAt[d] <= clock
  /\ ttl # 0 => \A k \in Keys :
       cached[k] # NoEntry => cached[k].expires \in (clock + 1)..(clock + ttl)

(* A row that was replaced after it was fetched was replaced during the     *)
(* request that is going to store it.                                       *)
FetchedInTime ==
  \A v \in Visitors :
    visitor[v].at = "fetched" /\ visitor[v].row # documents[visitor[v].key[1]]
      => visitor[v].since <= changedAt[visitor[v].key[1]]

(* So the entry it stores expires within the two times of the change.       *)
StaleBound ==
  ttl # 0 =>
    \A k \in Keys :
      cached[k] # NoEntry /\ cached[k].row # documents[k[1]]
        => cached[k].expires <= changedAt[k[1]] + Patience + ttl

StaleInv == Punctual /\ FetchedInTime /\ StaleBound

\* One visitor goes on, and the cache keeps what it holds.
LEMMA StaleVisitor ==
  ASSUME TypeOK, StaleInv, NEW v \in Visitors,
         UNCHANGED <<ttl, clock, documents, changedAt, cached>>,
         \A w \in Visitors \ {v} : visitor'[w] = visitor[w],
         visitor'[v] # Idle =>
           visitor'[v].since <= clock /\ clock <= visitor'[v].since + Patience,
         visitor'[v].at = "fetched" =>
           visitor'[v].row = documents[visitor'[v].key[1]]
  PROVE  StaleInv'
  <1>1. Punctual'
    BY DEF StaleInv, Punctual
  <1>2. FetchedInTime'
    BY DEF StaleInv, FetchedInTime
  <1>q. QED BY <1>1, <1>2 DEF StaleInv, StaleBound

\* Rows are written: what is cached now expires in time for those that change.
LEMMA StaleWrite ==
  ASSUME TypeOK, StaleInv, NEW rows, Writes(rows),
         UNCHANGED <<ttl, clock, cached, visitor>>
  PROVE  StaleInv'
  <1>0. /\ clock \in Nat /\ ttl \in Nat /\ Patience \in Nat
        /\ \A d \in Documents : changedAt[d] \in Int
    BY PublishingAssumption DEF TypeOK, NotYet
  <1>1. ASSUME NEW d \in Documents
        PROVE  \/ documents'[d] = documents[d] /\ changedAt'[d] = changedAt[d]
               \/ changedAt'[d] = clock
    BY DEF Writes
  <1>2. Punctual'
    BY <1>0, <1>1 DEF StaleInv, Punctual
  <1>3. FetchedInTime'
    <2> SUFFICES ASSUME NEW v \in Visitors, visitor[v].at = "fetched",
                        visitor[v].row # documents'[visitor[v].key[1]]
                 PROVE  visitor[v].since <= changedAt'[visitor[v].key[1]]
      BY DEF FetchedInTime
    <2>1. visitor[v].key[1] \in Documents /\ visitor[v] # Idle
      BY VisitType DEF TypeOK, Idle, Keys
    <2>q. QED BY <1>1, <2>1 DEF StaleInv, FetchedInTime, Punctual
  <1>4. StaleBound'
    <2> SUFFICES ASSUME ttl # 0, NEW k \in Keys, cached[k] # NoEntry,
                        cached[k].row # documents'[k[1]]
                 PROVE  cached[k].expires <= changedAt'[k[1]] + Patience + ttl
      BY DEF StaleBound
    <2>1. k[1] \in Documents
      BY DEF Keys
    <2>2. cached[k].expires \in (clock + 1)..(clock + ttl)
      BY DEF StaleInv, Punctual
    <2>3. CASE changedAt'[k[1]] = clock
      BY <1>0, <2>2, <2>3
    <2>4. CASE documents'[k[1]] = documents[k[1]] /\ changedAt'[k[1]] = changedAt[k[1]]
      BY <2>4 DEF StaleInv, StaleBound
    <2>q. QED BY <1>1, <2>1, <2>3, <2>4
  <1>q. QED BY <1>2, <1>3, <1>4 DEF StaleInv

LEMMA StaleInductive == TypeOK /\ StaleInv /\ [Next]_vars => StaleInv'
  <1> SUFFICES ASSUME TypeOK, StaleInv, [Next]_vars PROVE StaleInv'
    OBVIOUS
  <1>0. /\ clock \in Nat /\ ttl \in Nat /\ Patience \in Nat \ {0}
        /\ \A v \in Visitors : visitor[v] # Idle => visitor[v].since \in Nat
        /\ \A v \in Visitors : visitor[v] # Idle <=> visitor[v].at # "idle"
    BY VisitType, PublishingAssumption DEF TypeOK
  <1>1. ASSUME NEW v \in Visitors, Miss(v)
        PROVE  StaleInv'
    <2>1. PICK k \in Keys : Goes(v, [at |-> "missed", since |-> clock, key |-> k])
      BY <1>1 DEF Miss
    <2>2. visitor'[v].at = "missed" /\ visitor'[v].since = clock
      BY <2>1 DEF Goes, TypeOK
    <2>3. /\ UNCHANGED <<ttl, clock, documents, changedAt, cached>>
          /\ \A w \in Visitors \ {v} : visitor'[w] = visitor[w]
      BY <1>1, <2>1 DEF Miss, Goes, TypeOK, settings, database, cache
    <2>q. QED BY <1>0, <2>2, <2>3, StaleVisitor
  <1>2. ASSUME NEW v \in Visitors,
               Fetch(v) \/ ReadIndex(v) \/ WriteIndex(v) \/ VisitorFault(v)
        PROVE  StaleInv'
    <2>1. /\ UNCHANGED <<ttl, clock, documents, changedAt, cached>>
          /\ \A w \in Visitors \ {v} : visitor'[w] = visitor[w]
          /\ visitor[v] # Idle
      BY <1>2 DEF Fetch, ReadIndex, WriteIndex, VisitorFault, Goes, TypeOK, settings,
                  database, cache, Idle
    <2>2. visitor'[v] # Idle => visitor'[v].since = visitor[v].since
      BY <1>2 DEF Fetch, ReadIndex, WriteIndex, VisitorFault, Goes, TypeOK
    <2>3. visitor'[v].at = "fetched" => visitor'[v].row = documents[visitor'[v].key[1]]
      BY <1>2 DEF Fetch, ReadIndex, WriteIndex, VisitorFault, Goes, TypeOK, Idle
    <2>4. visitor[v].since <= clock /\ clock <= visitor[v].since + Patience
      BY <2>1 DEF StaleInv, Punctual
    <2>q. QED BY <2>1, <2>2, <2>3, <2>4, StaleVisitor
  <1>3. ASSUME NEW v \in Visitors, Store(v)
        PROVE  StaleInv'
    <2> DEFINE k == visitor[v].key
    <2>1. /\ UNCHANGED <<ttl, clock, documents, changedAt>>
          /\ cached' = [cached EXCEPT ![k] = [row |-> visitor[v].row, expires |-> ExpiresAt]]
          /\ visitor[v] # Idle /\ visitor[v].at = "fetched"
          /\ visitor'[v].at = "stored" /\ visitor'[v].since = visitor[v].since
          /\ \A w \in Visitors \ {v} : visitor'[w] = visitor[w]
      BY <1>3 DEF Store, Goes, TypeOK, settings, database, Idle
    <2>2. /\ visitor[v].since <= clock /\ clock <= visitor[v].since + Patience
          /\ visitor[v].since \in Nat /\ k \in Keys /\ k[1] \in Documents
      BY <1>0, <2>1, VisitType DEF StaleInv, Punctual, TypeOK, Keys
    <2>3. ttl # 0 => ExpiresAt = clock + ttl
      BY DEF ExpiresAt
    <2>4. Punctual'
      <3>1. ASSUME ttl # 0, NEW j \in Keys, cached'[j] # NoEntry
            PROVE  cached'[j].expires \in (clock + 1)..(clock + ttl)
        BY <1>0, <2>1, <2>3, <3>1 DEF StaleInv, Punctual, TypeOK
      <3>q. QED BY <2>1, <3>1 DEF StaleInv, Punctual
    <2>5. FetchedInTime'
      BY <2>1 DEF StaleInv, FetchedInTime
    <2>6. StaleBound'
      <3> SUFFICES ASSUME ttl # 0, NEW j \in Keys, cached'[j] # NoEntry,
                          cached'[j].row # documents[j[1]]
                   PROVE  cached'[j].expires <= changedAt[j[1]] + Patience + ttl
        BY <2>1 DEF StaleBound
      <3>1. CASE j = k
        <4>1. cached'[j].row = visitor[v].row /\ cached'[j].expires = clock + ttl
          BY <2>1, <2>3, <3>1 DEF TypeOK
        <4>2. visitor[v].since <= changedAt[k[1]] /\ changedAt[k[1]] \in Int
          BY <2>1, <2>2, <3>1, <4>1 DEF StaleInv, FetchedInTime, TypeOK, NotYet
        <4>q. QED BY <1>0, <2>2, <3>1, <4>1, <4>2
      <3>2. CASE j # k
        BY <2>1, <3>2 DEF StaleInv, StaleBound, TypeOK
      <3>q. QED BY <3>1, <3>2
    <2>q. QED BY <2>4, <2>5, <2>6 DEF StaleInv
  <1>4. ASSUME NEW e \in Editors, Create(e) \/ Update(e) \/ Delete(e) \/ DeleteEntity(e)
        PROVE  StaleInv'
    <2>1. /\ \E rows : Writes(rows)
          /\ UNCHANGED <<ttl, clock, cached, visitor>>
      BY <1>4 DEF Create, Update, Delete, DeleteEntity, settings, cache
    <2>q. QED BY <2>1, StaleWrite
  <1>5. ASSUME UNCHANGED <<ttl, clock, documents, changedAt, visitor>>,
               \A k \in Keys : cached'[k] \in {cached[k], NoEntry}
        PROVE  StaleInv'
    BY <1>5 DEF StaleInv, Punctual, FetchedInTime, StaleBound
  <1>6. ASSUME NEW e \in Editors, Find(e) \/ WriteFails(e) \/ ReadKeys(e) \/ DropKeys(e)
                                   \/ DropIndex(e) \/ EditorFault(e)
        PROVE  StaleInv'
    <2>1. UNCHANGED <<ttl, clock, documents, changedAt, visitor>>
      BY <1>6 DEF Find, WriteFails, ReadKeys, DropKeys, DropIndex, EditorFault, settings, database
    <2>2. \A k \in Keys : cached'[k] \in {cached[k], NoEntry}
      BY <1>6 DEF Find, WriteFails, ReadKeys, DropKeys, DropIndex, EditorFault, cache
    <2>q. QED BY <1>5, <2>1, <2>2
  <1>7. CASE Tick
    <2>1. /\ clock' = clock + 1 /\ UNCHANGED <<ttl, documents, changedAt, visitor>>
          /\ \A k \in Keys : cached'[k] \in {cached[k], NoEntry}
      BY <1>7 DEF Tick, Unexpired, settings, database
    <2>2. Punctual'
      <3>1. ASSUME NEW v \in Visitors, visitor[v] # Idle
            PROVE  visitor[v].since <= clock + 1 /\ clock + 1 <= visitor[v].since + Patience
        BY <1>0, <1>7, <3>1 DEF Tick, InTime, StaleInv, Punctual
      <3>2. ASSUME ttl # 0, NEW k \in Keys, cached'[k] # NoEntry
            PROVE  cached'[k].expires \in (clock + 1 + 1)..(clock + 1 + ttl)
        <4>1. cached[k].expires \in (clock + 1)..(clock + ttl) /\ cached'[k] = cached[k]
          BY <2>1, <3>2 DEF StaleInv, Punctual
        <4>2. ~(cached[k].expires <= clock + 1)
          BY <1>0, <1>7, <3>2, <4>1 DEF Tick, Unexpired
        <4>q. QED BY <1>0, <4>1, <4>2
      <3>3. \A d \in Documents : changedAt[d] <= clock + 1
        BY <1>0 DEF StaleInv, Punctual, TypeOK, NotYet
      <3>q. QED BY <2>1, <3>1, <3>2, <3>3 DEF Punctual
    <2>q. QED BY <2>1, <2>2 DEF StaleInv, FetchedInTime, StaleBound
  <1>8. CASE UNCHANGED vars
    BY <1>5, <1>8 DEF vars
  <1>q. QED BY <1>1, <1>2, <1>3, <1>4, <1>6, <1>7, <1>8 DEF Next

\* DocumentService.php:187: whatever readers, writers and failing cache operations
\* do, a page whose row has changed is gone one lifetime of an entry and one
\* lifetime of a request later.
THEOREM StaleIsForgotten == Spec => []StaleExpires
  <1>1. Init => StaleInv
    BY DEF Init, StaleInv, Punctual, FetchedInTime, StaleBound, Idle, NotYet
  <1>2. TypeOK /\ StaleInv => StaleExpires
    <2> SUFFICES ASSUME TypeOK, StaleInv, ttl # 0, NEW k \in Keys, cached[k] # NoEntry,
                        cached[k].row # documents[k[1]]
                 PROVE  clock < changedAt[k[1]] + Patience + ttl
      BY DEF StaleExpires
    <2>1. /\ clock \in Nat /\ ttl \in Nat /\ Patience \in Nat
          /\ k[1] \in Documents /\ changedAt[k[1]] \in Int
      BY PublishingAssumption DEF TypeOK, NotYet, Keys
    <2>2. cached[k].expires \in (clock + 1)..(clock + ttl)
      BY DEF StaleInv, Punctual
    <2>3. cached[k].expires <= changedAt[k[1]] + Patience + ttl
      BY DEF StaleInv, StaleBound
    <2>q. QED BY <2>1, <2>2, <2>3
  <1>q. QED BY <1>1, <1>2, TypeInitially, TypeInductive, StaleInductive, PTL DEF Spec

---------------------------------------------------------------------------
(* Published at once *)

(* Requests that do not overlap come one at a time.                         *)
Alone ==
  calm =>
    /\ \A v, w \in Visitors : visitor[v] # Idle /\ visitor[w] # Idle => v = w
    /\ \A e, f \in Editors : editor[e] # Idle /\ editor[f] # Idle => e = f
    /\ \A v \in Visitors, e \in Editors : visitor[v] = Idle \/ editor[e] = Idle

LEMMA AloneInductive == TypeOK /\ Alone /\ [Next]_vars => Alone'
  <1> SUFFICES ASSUME TypeOK, Alone, [Next]_vars, calm' PROVE Alone'
    BY DEF Alone
  <1>0. calm
    BY DEF Next, vars, Miss, Fetch, Store, ReadIndex, WriteIndex, VisitorFault, Create, Find,
           Update, Delete, WriteFails, DeleteEntity, ReadKeys, DropKeys, DropIndex, EditorFault,
           Tick, settings
  <1>1. ASSUME NEW v \in Visitors,
               Miss(v) \/ Fetch(v) \/ Store(v) \/ ReadIndex(v) \/ WriteIndex(v)
        PROVE  Alone'
    <2>1. /\ visitor[v] # Idle \/ AllIdle
          /\ \A w \in Visitors \ {v} : visitor'[w] = visitor[w]
          /\ editor' = editor
      BY <1>0, <1>1 DEF Miss, Fetch, Store, ReadIndex, WriteIndex, Goes, Idle, MayBegin, TypeOK
    <2>q. QED BY <1>0, <2>1 DEF Alone, AllIdle
  <1>2. ASSUME NEW e \in Editors,
               \/ Create(e) \/ Find(e) \/ Update(e) \/ Delete(e) \/ WriteFails(e)
               \/ DeleteEntity(e) \/ ReadKeys(e) \/ DropKeys(e) \/ DropIndex(e)
        PROVE  Alone'
    <2>1. /\ editor[e] # Idle \/ AllIdle
          /\ \A f \in Editors \ {e} : editor'[f] = editor[f]
          /\ visitor' = visitor
      <3>1. CASE Create(e) \/ Find(e) \/ DeleteEntity(e)
        BY <1>0, <3>1 DEF Create, Find, DeleteEntity, Acts, MayBegin, TypeOK
      <3>2. CASE Update(e)
        BY <3>2 DEF Update, Acts, Idle, TypeOK
      <3>3. CASE Delete(e) \/ WriteFails(e)
        BY <3>3 DEF Delete, WriteFails, Acts, Idle, TypeOK
      <3>4. CASE ReadKeys(e) \/ DropKeys(e) \/ DropIndex(e)
        BY <3>4 DEF ReadKeys, DropKeys, DropIndex, Acts, Idle, TypeOK
      <3>q. QED BY <1>2, <3>1, <3>2, <3>3, <3>4
    <2>q. QED BY <1>0, <2>1 DEF Alone, AllIdle
  <1>3. CASE Tick \/ UNCHANGED vars
    BY <1>0, <1>3 DEF Tick, vars, Alone
  <1>q. QED BY <1>0, <1>1, <1>2, <1>3 DEF Next, VisitorFault, EditorFault

(* An editor is going to invalidate a group; a visitor to list a key in one.*)
Pending(g) ==
  \E e \in Editors :
    /\ editor[e].at \in {"invalidate", "dropping", "unlisting"}
    /\ \E i \in 1..Len(editor[e].groups) : editor[e].groups[i] = g

Listing(k, g) ==
  \E v \in Visitors :
    visitor[v].at \in {"stored", "indexing"} /\ visitor[v].key = k /\ visitor[v].group = g

NothingExpires ==
  /\ \A k \in Keys : cached[k] # NoEntry => cached[k].expires = 0 /\ cached[k].row # NoRow
  /\ \A g \in Groups : index[g] # NoEntry => index[g].expires = 0

FreshOrPending ==
  \A k \in Keys :
    cached[k] # NoEntry /\ cached[k].row.entity \in entities
      /\ cached[k].row # documents[k[1]]
      => Pending(GroupOf(cached[k].row))

Listed ==
  \A k \in Keys : cached[k] # NoEntry =>
    LET g == GroupOf(cached[k].row) IN k \in KeysIn(g) \/ Listing(k, g)

(* What a request has read is so still, and what it has dropped stays away. *)
Undisturbed ==
  /\ \A v \in Visitors : visitor[v].at = "fetched" =>
       visitor[v].row = documents[visitor[v].key[1]] /\ visitor[v].row # NoRow
  /\ \A v \in Visitors : visitor[v].at = "indexing" =>
       visitor[v].keys = KeysIn(visitor[v].group)
  /\ \A e \in Editors : editor[e].at \in {"update", "delete"} =>
       documents[editor[e].doc] = editor[e].previous /\ editor[e].previous # NoRow
  /\ \A e \in Editors : editor[e].at = "dropping" => editor[e].keys = KeysIn(Group(e))
  /\ \A e \in Editors : editor[e].at = "unlisting" =>
       \A k \in Keys : cached[k] # NoEntry => GroupOf(cached[k].row) # Group(e)
  /\ \A d \in Documents : changedAt[d] = NotYet => documents[d] = NoRow

Tidy == NothingExpires /\ FreshOrPending /\ Listed /\ Undisturbed
AtOnceInv == ttl = 0 /\ calm => Tidy

\* The steps of a visitor who is alone
LEMMA TidyVisitor ==
  ASSUME TypeOK, Alone, Tidy, calm, ttl = 0, NEW v \in Visitors,
         Miss(v) \/ Fetch(v) \/ Store(v) \/ ReadIndex(v) \/ WriteIndex(v)
  PROVE  Tidy'
  <1> DEFINE p == visitor[v]
  <1>0. /\ p \in Visits
        /\ UNCHANGED <<entities, documents, changedAt, editor>>
        /\ \A e \in Editors : editor[e] = Idle
        /\ \A w \in Visitors \ {v} : visitor[w] = Idle /\ visitor'[w] = Idle
    BY DEF Miss, Fetch, Store, ReadIndex, WriteIndex, Goes, TypeOK, Alone, MayBegin, AllIdle,
           database, Idle
  <1>1. \A g : ~Pending(g) /\ ~Pending(g)'
    BY <1>0 DEF Pending, Idle
  <1>2. ASSUME UNCHANGED cache,
               p.at \notin {"stored", "indexing"},
               visitor'[v].at = "fetched" =>
                 visitor'[v].row = documents[visitor'[v].key[1]] /\ visitor'[v].row # NoRow,
               visitor'[v].at # "indexing"
        PROVE  Tidy'
    <2>1. NothingExpires'
      BY <1>2 DEF Tidy, NothingExpires, cache
    <2>2. FreshOrPending'
      BY <1>0, <1>1, <1>2 DEF Tidy, FreshOrPending, cache
    <2>3. Listed'
      <3>1. \A k, g : ~Listing(k, g)
        BY <1>0, <1>2 DEF Listing, Idle
      <3>q. QED BY <1>2, <3>1 DEF Tidy, Listed, KeysIn, cache
    <2>4. Undisturbed'
      BY <1>0, <1>2 DEF Tidy, Undisturbed, KeysIn, cache, Idle
    <2>q. QED BY <2>1, <2>2, <2>3, <2>4 DEF Tidy
  <1>3. CASE Miss(v)
    BY <1>2, <1>3 DEF Miss, Goes, TypeOK, Idle
  <1>4. CASE Fetch(v)
    BY <1>2, <1>4 DEF Fetch, Goes, TypeOK, Idle, Matches
  <1>5. CASE Store(v)
    <2> DEFINE k == p.key
               stored == [row |-> p.row, expires |-> 0]
    <2>1. /\ cached' = [cached EXCEPT ![k] = stored] /\ index' = index
          /\ visitor'[v].at = "stored" /\ visitor'[v].key = k
          /\ visitor'[v].group = GroupOf(p.row)
          /\ k \in Keys /\ p.row = documents[k[1]] /\ p.row # NoRow
      BY <1>0, <1>5, VisitType DEF Store, Goes, TypeOK, ExpiresAt, Idle, Tidy, Undisturbed
    <2>2. \A j \in Keys : cached'[j] = IF j = k THEN stored ELSE cached[j]
      BY <2>1 DEF TypeOK
    <2>3. NothingExpires'
      BY <2>1, <2>2 DEF Tidy, NothingExpires
    <2>4. FreshOrPending'
      BY <1>0, <1>1, <2>1, <2>2 DEF Tidy, FreshOrPending
    <2>5. Listed'
      <3>1. \A j, g : ~Listing(j, g)
        BY <1>0, <1>5 DEF Listing, Store, Idle
      <3>2. ASSUME NEW j \in Keys, j = k, cached'[j] # NoEntry
            PROVE  Listing(j, GroupOf(cached[j].row))'
        BY <2>1, <2>2, <3>2 DEF Listing, GroupOf
      <3>3. ASSUME NEW j \in Keys, j # k, cached'[j] # NoEntry
            PROVE  j \in KeysIn(GroupOf(cached[j].row))'
        BY <2>1, <2>2, <3>1, <3>3 DEF Tidy, Listed, KeysIn, GroupOf
      <3>q. QED BY <3>2, <3>3 DEF Listed
    <2>6. Undisturbed'
      BY <1>0, <2>1 DEF Tidy, Undisturbed, Idle
    <2>q. QED BY <2>3, <2>4, <2>5, <2>6 DEF Tidy
  <1>6. CASE ReadIndex(v)
    <2>1. p.key \in Keys /\ p.group \in Groups /\ p.at = "stored" /\ UNCHANGED cache
      BY <1>0, <1>6, VisitType DEF ReadIndex
    <2>2. visitor'[v] = IF p.key \in KeysIn(p.group) THEN Idle
                        ELSE [at |-> "indexing", since |-> p.since, key |-> p.key,
                              group |-> p.group, keys |-> KeysIn(p.group)]
      BY <1>6 DEF ReadIndex, Goes, TypeOK
    <2>3. NothingExpires'
      BY <2>1 DEF Tidy, NothingExpires, cache
    <2>4. FreshOrPending'
      BY <1>0, <1>1, <2>1 DEF Tidy, FreshOrPending, cache
    <2>5. Listed'
      <3>1. ASSUME NEW k, NEW g, Listing(k, g)
            PROVE  k \in KeysIn(g) \/ Listing(k, g)'
        <4>1. k = p.key /\ g = p.group
          BY <1>0, <3>1 DEF Listing, Idle
        <4>2. CASE p.key \in KeysIn(p.group)
          BY <4>1, <4>2
        <4>3. CASE p.key \notin KeysIn(p.group)
          BY <2>2, <4>1, <4>3 DEF Listing
        <4>q. QED BY <4>2, <4>3
      <3>q. QED BY <2>1, <3>1 DEF Tidy, Listed, KeysIn, cache
    <2>6. Undisturbed'
      <3>1. visitor'[v].at = "indexing" => visitor'[v].keys = (KeysIn(visitor[v].group))'
        BY <2>1, <2>2 DEF KeysIn, cache, Idle
      <3>q. QED BY <1>0, <2>1, <2>2, <3>1 DEF Tidy, Undisturbed, cache, Idle
    <2>q. QED BY <2>3, <2>4, <2>5, <2>6 DEF Tidy
  <1>7. CASE WriteIndex(v)
    <2> DEFINE written == [keys |-> p.keys \cup {p.key}, expires |-> 0]
    <2>1. /\ p.key \in Keys /\ p.group \in Groups /\ p.keys \in SUBSET Keys
          /\ p.keys = KeysIn(p.group) /\ p.at = "indexing"
      BY <1>0, <1>7, VisitType DEF WriteIndex, Tidy, Undisturbed, Idle
    <2>2. /\ index' = [index EXCEPT ![p.group] = written] /\ cached' = cached
          /\ visitor'[v] = Idle
      BY <1>7 DEF WriteIndex, ExpiresAt, Goes, TypeOK
    <2>3. written # NoEntry
      BY <2>1, NoEntryIsNoEntry DEF Keys
    <2>4. \A g \in Groups :
            index'[g] = IF g = p.group THEN written ELSE index[g]
      BY <2>1, <2>2 DEF TypeOK
    <2>5. \A g \in Groups :
            KeysIn(g)' = IF g = p.group THEN KeysIn(g) \cup {p.key} ELSE KeysIn(g)
      BY <2>1, <2>3, <2>4 DEF KeysIn
    <2>6. NothingExpires'
      BY <2>2, <2>4 DEF Tidy, NothingExpires
    <2>7. FreshOrPending'
      BY <1>0, <1>1, <2>2 DEF Tidy, FreshOrPending
    <2>8. Listed'
      <3>1. ASSUME NEW k \in Keys, cached[k] # NoEntry
            PROVE  k \in KeysIn(GroupOf(cached[k].row))'
        <4>1. GroupOf(cached[k].row) \in Groups
          BY <3>1, GroupType DEF TypeOK
        <4>2. CASE k \in KeysIn(GroupOf(cached[k].row))
          BY <2>2, <2>5, <4>1, <4>2 DEF GroupOf
        <4>3. CASE Listing(k, GroupOf(cached[k].row))
          <5>1. k = p.key /\ GroupOf(cached[k].row) = p.group
            BY <1>0, <4>3 DEF Listing, Idle
          <5>q. QED BY <2>1, <2>2, <2>5, <5>1 DEF GroupOf
        <4>q. QED BY <3>1, <4>2, <4>3 DEF Tidy, Listed
      <3>q. QED BY <2>2, <3>1 DEF Listed
    <2>9. Undisturbed'
      BY <1>0, <2>2 DEF Tidy, Undisturbed, Idle
    <2>q. QED BY <2>6, <2>7, <2>8, <2>9 DEF Tidy
  <1>q. QED BY <1>3, <1>4, <1>5, <1>6, <1>7

\* An editor who is alone writes rows: their pages were fresh or their entity gone, and
\* a changed page belongs to a group that is going to be invalidated.
LEMMA TidyWrite ==
  ASSUME TypeOK, Tidy, NEW e \in Editors, NEW rows, Writes(rows),
         UNCHANGED <<cached, index, visitor>>,
         entities' \subseteq entities,
         \A g : ~Pending(g),
         \A v \in Visitors : visitor[v] = Idle,
         \A f \in Editors : editor'[f].at \in {"idle", "invalidate"},
         \A k \in Keys :
           cached[k] # NoEntry /\ cached[k].row.entity \in entities'
             /\ cached[k].row = documents[k[1]] /\ rows[k[1]] # documents[k[1]]
             => Pending(GroupOf(cached[k].row))'
  PROVE  Tidy'
  <1>1. NothingExpires'
    BY DEF Tidy, NothingExpires
  <1>2. FreshOrPending'
    <2> SUFFICES ASSUME NEW k \in Keys, cached[k] # NoEntry,
                        cached[k].row.entity \in entities', cached[k].row # rows[k[1]]
                 PROVE  Pending(GroupOf(cached[k].row))'
      BY DEF FreshOrPending, Writes, GroupOf
    <2>1. cached[k].row = documents[k[1]]
      BY DEF Tidy, FreshOrPending
    <2>q. QED BY <2>1
  <1>3. Listed'
    BY DEF Tidy, Listed, KeysIn, Listing
  <1>4. Undisturbed'
    <2>1. ASSUME NEW d \in Documents, changedAt'[d] = NotYet
          PROVE  documents'[d] = NoRow
      <3>1. clock # NotYet
        BY DEF TypeOK, NotYet
      <3>2. rows[d] = documents[d] /\ changedAt[d] = NotYet
        BY <2>1, <3>1 DEF Writes
      <3>q. QED BY <3>2 DEF Writes, Tidy, Undisturbed
    <2>2. \A v \in Visitors : visitor'[v].at = "idle"
      BY DEF Idle
    <2>q. QED BY <2>1, <2>2 DEF Undisturbed
  <1>q. QED BY <1>1, <1>2, <1>3, <1>4 DEF Tidy

\* An editor who is alone writes.
LEMMA TidyChange ==
  ASSUME TypeOK, Alone, Tidy, calm, NEW e \in Editors,
         Create(e) \/ Update(e) \/ Delete(e) \/ DeleteEntity(e)
  PROVE  Tidy'
  <1> DEFINE p == editor[e]
  <1>0. /\ p \in Edits
        /\ \A v \in Visitors : visitor[v] = Idle
        /\ \A f \in Editors \ {e} : editor[f] = Idle /\ editor'[f] = Idle
        /\ UNCHANGED <<cached, index, visitor>>
        /\ p.at \in {"idle", "update", "delete"}
    <2>1. /\ p \in Edits /\ UNCHANGED <<cached, index, visitor>>
          /\ \A f \in Editors \ {e} : editor'[f] = editor[f]
      BY DEF Create, Update, Delete, DeleteEntity, Acts, TypeOK, cache
    <2>2. CASE Create(e) \/ DeleteEntity(e)
      BY <2>1, <2>2 DEF Create, DeleteEntity, MayBegin, AllIdle, Idle
    <2>3. CASE Update(e) \/ Delete(e)
      <3>1. p # Idle /\ p.at \in {"idle", "update", "delete"}
        BY <2>3 DEF Update, Delete, Idle
      <3>q. QED BY <2>1, <3>1 DEF Alone
    <2>q. QED BY <2>2, <2>3
  <1>1. \A g : ~Pending(g)
    BY <1>0 DEF Pending, Idle
  <1>2. ASSUME NEW groups \in Seq(Groups), NEW since, editor'[e] = Invalidating(groups, since),
               NEW i \in 1..Len(groups)
        PROVE  \A g : g = groups[i] => Pending(g)'
    BY <1>2 DEF Pending, Invalidating
  <1>3. CASE Create(e)
    <2>1. PICK d \in Documents, x \in entities, t \in Types :
            /\ changedAt[d] = NotYet
            /\ Writes([documents EXCEPT ![d] = NewRow(x, t)])
            /\ Acts(e, Invalidating(<<<<x, t>>>>, clock))
      BY <1>3 DEF Create
    <2>2. editor'[e].at = "invalidate" /\ entities' = entities
      BY <1>3, <2>1 DEF Create, Acts, Invalidating, TypeOK
    <2>3. documents[d] = NoRow
      BY <2>1 DEF Tidy, Undisturbed
    <2>4. ASSUME NEW k \in Keys, cached[k] # NoEntry, cached[k].row = documents[k[1]]
          PROVE  [documents EXCEPT ![d] = NewRow(x, t)][k[1]] = documents[k[1]]
      <3>1. k[1] # d
        BY <2>3, <2>4 DEF Tidy, NothingExpires
      <3>q. QED BY <3>1, <2>4 DEF TypeOK, Keys
    <2>5. \A f \in Editors : editor'[f].at \in {"idle", "invalidate"}
      BY <1>0, <2>2 DEF Idle
    <2> DEFINE rows == [documents EXCEPT ![d] = NewRow(x, t)]
    <2>6. Writes(rows) /\ entities' \subseteq entities
      BY <2>1, <2>2
    <2>7. \A k \in Keys : cached[k] # NoEntry /\ cached[k].row = documents[k[1]]
                          => rows[k[1]] = documents[k[1]]
      BY <2>4
    <2> HIDE DEF rows
    <2>q. QED BY <1>0, <1>1, <2>5, <2>6, <2>7, TidyWrite
  <1>4. CASE Update(e)
    <2>1. PICK x \in entities, t \in Types :
            /\ Writes(IF documents[p.doc] = NoRow THEN documents
                      ELSE [documents EXCEPT ![p.doc] = NewRow(x, t)])
            /\ Acts(e, Invalidating(<<GroupOf(p.previous), <<x, t>>>>, p.since))
      BY <1>4 DEF Update
    <2> DEFINE rows == IF documents[p.doc] = NoRow THEN documents
                       ELSE [documents EXCEPT ![p.doc] = NewRow(x, t)]
               groups == <<GroupOf(p.previous), <<x, t>>>>
    <2>2. /\ editor'[e] = Invalidating(groups, p.since) /\ entities' = entities
          /\ editor'[e].at = "invalidate"
      BY <1>4, <2>1 DEF Update, Acts, Invalidating, TypeOK
    <2>3. p.previous = documents[p.doc] /\ GroupOf(p.previous) \in Groups
      BY <1>0, <1>4, EditType, GroupType DEF Update, Tidy, Undisturbed
    <2>4. groups \in Seq(Groups) /\ 1 \in 1..Len(groups) /\ groups[1] = GroupOf(p.previous)
      BY <2>3, FewGroups DEF TypeOK, Groups
    <2>5. ASSUME NEW k \in Keys, cached[k].row = documents[k[1]], rows[k[1]] # documents[k[1]]
          PROVE  Pending(GroupOf(cached[k].row))'
      <3>1. k[1] = p.doc
        BY <2>5 DEF TypeOK, Keys
      <3>2. GroupOf(cached'[k].row) = groups[1]
        BY <1>0, <2>3, <2>4, <2>5, <3>1
      <3>q. QED BY <1>2, <2>2, <2>4, <3>2
    <2>6. \A f \in Editors : editor'[f].at \in {"idle", "invalidate"}
      BY <1>0, <2>2 DEF Idle
    <2>7. Writes(rows) /\ entities' \subseteq entities
      BY <2>1, <2>2
    <2> HIDE DEF rows
    <2>q. QED BY <1>0, <1>1, <2>5, <2>6, <2>7, TidyWrite
  <1>5. CASE Delete(e)
    <2> DEFINE rows == [documents EXCEPT ![p.doc] = NoRow]
               groups == <<GroupOf(p.previous)>>
    <2>1. Writes(rows) /\ Acts(e, Invalidating(groups, p.since))
      BY <1>5 DEF Delete
    <2>2. /\ editor'[e] = Invalidating(groups, p.since) /\ entities' = entities
          /\ editor'[e].at = "invalidate"
      BY <1>5, <2>1 DEF Delete, Acts, Invalidating, TypeOK
    <2>3. p.previous = documents[p.doc] /\ GroupOf(p.previous) \in Groups
      BY <1>0, <1>5, EditType, GroupType DEF Delete, Tidy, Undisturbed
    <2>4. groups \in Seq(Groups) /\ 1 \in 1..Len(groups) /\ groups[1] = GroupOf(p.previous)
      BY <2>3, FewGroups
    <2>5. ASSUME NEW k \in Keys, cached[k].row = documents[k[1]], rows[k[1]] # documents[k[1]]
          PROVE  Pending(GroupOf(cached[k].row))'
      <3>1. k[1] = p.doc
        BY <2>5 DEF TypeOK, Keys
      <3>2. GroupOf(cached'[k].row) = groups[1]
        BY <1>0, <2>3, <2>4, <2>5, <3>1
      <3>q. QED BY <1>2, <2>2, <2>4, <3>2
    <2>6. \A f \in Editors : editor'[f].at \in {"idle", "invalidate"}
      BY <1>0, <2>2 DEF Idle
    <2>7. Writes(rows) /\ entities' \subseteq entities
      BY <2>1, <2>2
    <2> HIDE DEF rows
    <2>q. QED BY <1>0, <1>1, <2>5, <2>6, <2>7, TidyWrite
  <1>6. CASE DeleteEntity(e)
    <2>1. PICK x \in entities :
            /\ entities' = entities \ {x}
            /\ Writes([d \in Documents |->
                         IF documents[d] # NoRow /\ documents[d].entity = x
                         THEN NoRow ELSE documents[d]])
      BY <1>6 DEF DeleteEntity
    <2> DEFINE rows == [d \in Documents |->
                          IF documents[d] # NoRow /\ documents[d].entity = x
                          THEN NoRow ELSE documents[d]]
    <2>2. ASSUME NEW k \in Keys, cached[k].row.entity \in entities',
                 cached[k].row = documents[k[1]]
          PROVE  rows[k[1]] = documents[k[1]]
      BY <2>1, <2>2 DEF Keys
    <2>3. \A f \in Editors : editor'[f].at = "idle"
      BY <1>0, <1>6 DEF DeleteEntity, Idle
    <2>q. QED BY <1>0, <1>1, <2>1, <2>2, <2>3, TidyWrite
  <1>q. QED BY <1>3, <1>4, <1>5, <1>6

\* The rest of the groups is what is left to invalidate.
LEMMA RestOfGroups ==
  ASSUME TypeOK, NEW e \in Editors, editor[e].at = "unlisting",
         NEW i \in 1..Len(editor[e].groups), editor[e].groups[i] # Group(e)
  PROVE  /\ NextGroup(e).at = "invalidate"
         /\ \E j \in 1..Len(NextGroup(e).groups) :
              NextGroup(e).groups[j] = editor[e].groups[i]
  <1> DEFINE groups == editor[e].groups
  <1>1. groups \in Seq(Groups) /\ groups # <<>> /\ Group(e) = groups[1]
    BY EditType DEF TypeOK, Group
  <1>2. i - 1 \in 1..(Len(groups) - 1) /\ Len(groups) # 1 /\ Len(groups) \in Nat
    BY <1>1
  <1>3. Len(Tail(groups)) = Len(groups) - 1 /\ Tail(groups)[i - 1] = groups[i]
    BY <1>1, <1>2
  <1>4. NextGroup(e) = Invalidating(Tail(groups), editor[e].since)
    BY <1>2 DEF NextGroup
  <1>5. NextGroup(e).at = "invalidate" /\ NextGroup(e).groups = Tail(groups)
    BY <1>4 DEF Invalidating
  <1>q. QED BY <1>2, <1>3, <1>5

\* An editor who is alone invalidates, or begins.
LEMMA TidyEditor ==
  ASSUME TypeOK, Alone, Tidy, calm, NEW e \in Editors,
         \/ Find(e) \/ WriteFails(e) \/ ReadKeys(e) \/ DropKeys(e) \/ DropIndex(e)
  PROVE  Tidy'
  <1> DEFINE p == editor[e]
  <1>0. /\ p \in Edits
        /\ UNCHANGED <<entities, documents, changedAt, visitor>>
        /\ \A v \in Visitors : visitor[v] = Idle
        /\ \A f \in Editors \ {e} : editor[f] = Idle /\ editor'[f] = Idle
    BY DEF Find, WriteFails, ReadKeys, DropKeys, DropIndex, Acts, TypeOK, Alone, MayBegin,
           AllIdle, database, Idle
  <1>1. \A k \in Keys : cached[k] # NoEntry => k \in KeysIn(GroupOf(cached[k].row))
    BY <1>0 DEF Tidy, Listed, Listing, Idle
  <1>2. CASE Find(e) \/ WriteFails(e)
    <2>1. UNCHANGED cache
      BY <1>2 DEF Find, WriteFails
    <2>2. \A g : ~Pending(g)
      BY <1>0, <1>2 DEF Pending, Find, WriteFails, Idle
    <2>3. NothingExpires'
      BY <2>1 DEF Tidy, NothingExpires, cache
    <2>4. FreshOrPending'
      BY <1>0, <2>1, <2>2 DEF Tidy, FreshOrPending, cache
    <2>5. Listed'
      BY <1>1, <2>1 DEF Listed, KeysIn, cache
    <2>6. /\ editor'[e].at \in {"idle", "update", "delete"}
          /\ editor'[e].at \in {"update", "delete"} =>
               documents[editor'[e].doc] = editor'[e].previous /\ editor'[e].previous # NoRow
      BY <1>2 DEF Find, WriteFails, Acts, TypeOK, Idle
    <2>7. Undisturbed'
      BY <1>0, <2>6 DEF Tidy, Undisturbed, Idle
    <2>q. QED BY <2>3, <2>4, <2>5, <2>7 DEF Tidy
  <1>3. CASE ReadKeys(e)
    <2>1. /\ UNCHANGED cache /\ p.at = "invalidate"
          /\ editor'[e].at = "dropping" /\ editor'[e].groups = p.groups
          /\ editor'[e].keys = KeysIn(Group(e))
      BY <1>3 DEF ReadKeys, Acts, TypeOK
    <2>2. ASSUME NEW g, Pending(g) PROVE Pending(g)'
      BY <1>0, <2>1, <2>2 DEF Pending, Idle
    <2>3. NothingExpires'
      BY <2>1 DEF Tidy, NothingExpires, cache
    <2>4. FreshOrPending'
      BY <1>0, <2>1, <2>2 DEF Tidy, FreshOrPending, cache
    <2>5. Listed'
      BY <1>1, <2>1 DEF Listed, KeysIn, cache
    <2>6. Undisturbed'
      BY <1>0, <2>1 DEF Tidy, Undisturbed, KeysIn, Group, cache, Idle
    <2>q. QED BY <2>3, <2>4, <2>5, <2>6 DEF Tidy
  <1>4. CASE DropKeys(e)
    <2>1. /\ index' = index /\ p.at = "dropping"
          /\ editor'[e].at = "unlisting" /\ editor'[e].groups = p.groups
          /\ p.keys = KeysIn(Group(e))
      BY <1>4 DEF DropKeys, Acts, TypeOK, Tidy, Undisturbed
    <2>2. \A k \in Keys : cached'[k] # NoEntry => cached'[k] = cached[k] /\ k \notin p.keys
      BY <1>4 DEF DropKeys
    <2>3. ASSUME NEW g, Pending(g) PROVE Pending(g)'
      BY <1>0, <2>1, <2>3 DEF Pending, Idle
    <2>4. NothingExpires'
      BY <2>1, <2>2 DEF Tidy, NothingExpires
    <2>5. FreshOrPending'
      BY <1>0, <2>2, <2>3 DEF Tidy, FreshOrPending
    <2>6. Listed'
      BY <1>1, <2>1, <2>2 DEF Listed, KeysIn
    <2>7. \A k \in Keys : cached'[k] # NoEntry => GroupOf(cached'[k].row) # Group(e)
      BY <1>1, <2>1, <2>2
    <2>8. Undisturbed'
      BY <1>0, <2>1, <2>7 DEF Tidy, Undisturbed, Group, GroupOf, Idle
    <2>q. QED BY <2>4, <2>5, <2>6, <2>8 DEF Tidy
  <1>5. CASE DropIndex(e)
    <2>1. /\ cached' = cached /\ p.at = "unlisting" /\ editor'[e] = NextGroup(e)
          /\ editor'[e].at \in {"idle", "invalidate"}
          /\ \A g \in Groups : g # Group(e) => index'[g] = index[g]
          /\ index' = [index EXCEPT ![Group(e)] = NoEntry]
      BY <1>5 DEF DropIndex, Acts, TypeOK, NextGroup, Invalidating, Idle
    <2>2. \A k \in Keys : cached[k] # NoEntry => GroupOf(cached[k].row) # Group(e)
      BY <2>1 DEF Tidy, Undisturbed
    <2>3. ASSUME NEW g, g # Group(e), Pending(g) PROVE Pending(g)'
      <3>1. PICK i \in 1..Len(p.groups) : p.groups[i] = g
        BY <1>0, <2>3 DEF Pending, Idle
      <3>q. QED BY <2>1, <2>3, <3>1, RestOfGroups DEF Pending
    <2>4. NothingExpires'
      BY <2>1 DEF Tidy, NothingExpires, TypeOK
    <2>5. FreshOrPending'
      BY <1>0, <2>1, <2>2, <2>3 DEF Tidy, FreshOrPending
    <2>6. Listed'
      <3>1. ASSUME NEW k \in Keys, cached[k] # NoEntry
            PROVE  k \in KeysIn(GroupOf(cached[k].row))'
        <4>1. GroupOf(cached[k].row) \in Groups /\ GroupOf(cached[k].row) # Group(e)
          BY <2>2, <3>1, GroupType DEF TypeOK
        <4>q. QED BY <1>1, <2>1, <3>1, <4>1 DEF KeysIn, GroupOf
      <3>q. QED BY <2>1, <3>1 DEF Listed
    <2>7. Undisturbed'
      BY <1>0, <2>1 DEF Tidy, Undisturbed, Idle
    <2>q. QED BY <2>4, <2>5, <2>6, <2>7 DEF Tidy
  <1>q. QED BY <1>2, <1>3, <1>4, <1>5

LEMMA AtOnceInductive == TypeOK /\ Alone /\ AtOnceInv /\ [Next]_vars => AtOnceInv'
  <1> SUFFICES ASSUME TypeOK, Alone, AtOnceInv, [Next]_vars, ttl' = 0, calm' PROVE Tidy'
    BY DEF AtOnceInv
  <1>0. UNCHANGED settings
    BY DEF Next, vars, Miss, Fetch, Store, ReadIndex, WriteIndex, VisitorFault, Create, Find,
           Update, Delete, WriteFails, DeleteEntity, ReadKeys, DropKeys, DropIndex, EditorFault,
           Tick, settings
  <1>1. ttl = 0 /\ calm /\ Tidy
    BY <1>0 DEF AtOnceInv, settings
  <1>2. ASSUME UNCHANGED <<entities, documents, changedAt, cached, index, visitor, editor>>
        PROVE  Tidy'
    <2>1. NothingExpires'
      BY <1>1, <1>2 DEF Tidy, NothingExpires
    <2>2. FreshOrPending'
      BY <1>1, <1>2 DEF Tidy, FreshOrPending, Pending, GroupOf
    <2>3. Listed'
      BY <1>1, <1>2 DEF Tidy, Listed, Listing, KeysIn, GroupOf
    <2>4. Undisturbed'
      BY <1>1, <1>2 DEF Tidy, Undisturbed, KeysIn, Group, GroupOf
    <2>q. QED BY <2>1, <2>2, <2>3, <2>4 DEF Tidy
  <1>3. CASE Tick
    <2>1. /\ \A k \in Keys : cached'[k] = cached[k]
          /\ \A g \in Groups : index'[g] = index[g]
      BY <1>1, <1>3 DEF Tick, Tidy, NothingExpires, Unexpired
    <2>2. cached' = cached /\ index' = index
      <3>1. cached' = [k \in Keys |-> cached'[k]] /\ index' = [g \in Groups |-> index'[g]]
        BY <1>3 DEF Tick
      <3>2. cached = [k \in Keys |-> cached[k]] /\ index = [g \in Groups |-> index[g]]
        BY DEF TypeOK
      <3>q. QED BY <2>1, <3>1, <3>2
    <2>q. QED BY <1>2, <1>3, <2>2 DEF Tick, database
  <1>4. CASE UNCHANGED vars
    BY <1>2, <1>4 DEF vars
  <1>q. QED BY <1>1, <1>3, <1>4, TidyVisitor, TidyChange, TidyEditor
     DEF Next, VisitorFault, EditorFault

\* Alone and with a cache that keeps its entries, an editor's change is public when the
\* request returns: create, update and delete of DocumentService find every page that has
\* to go, for any number of documents, entities and types.
THEOREM ChangesArePublished == Spec => []PublishedAtOnce
  <1>1. Init => Alone /\ AtOnceInv
    BY DEF Init, Alone, AtOnceInv, Tidy, NothingExpires, FreshOrPending, Listed, Undisturbed,
           Idle, NotYet
  <1>2. AtOnceInv => PublishedAtOnce
    BY DEF AtOnceInv, Tidy, FreshOrPending, Pending, PublishedAtOnce, AllIdle, Idle
  <1>q. QED BY <1>1, <1>2, TypeInitially, TypeInductive, AloneInductive, AtOnceInductive, PTL
     DEF Spec
=============================================================================
