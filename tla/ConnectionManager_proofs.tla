---------------------- MODULE ConnectionManager_proofs ----------------------
(* What the operators on the connection table do to its keys, its stamps    *)
(* and its size.  The proofs about Daemon cite these facts and leave the    *)
(* operators unexpanded.                                                    *)
EXTENDS ConnectionManager, FiniteSetTheorems, TLAPS

(* A daemon starts with no connections. *)
LEMMA EmptyTableFacts ==
  ASSUME NEW keys, NEW now \in Nat
  PROVE  /\ DOMAIN EmptyTable = {}
         /\ IsTable(EmptyTable, keys, now)
         /\ Size(EmptyTable) = 0
  BY FS_EmptySet DEF EmptyTable, IsTable, Size

(* The size of a table is a number. *)
LEMMA SizeType ==
  ASSUME NEW keys, NEW now, NEW table, IsTable(table, keys, now)
  PROVE  Size(table) \in Nat
  BY FS_CardinalityType DEF IsTable, Size

(* Time passing leaves a table a table. *)
LEMMA LaterTable ==
  ASSUME NEW keys, NEW now \in Nat, NEW table, IsTable(table, keys, now)
  PROVE  IsTable(table, keys, now + 1)
  BY DEF IsTable

(* insert_new adds its key and keeps the table a table. *)
LEMMA InsertNewDomain ==
  ASSUME NEW now, NEW table, NEW key
  PROVE  DOMAIN InsertNew(table, key, now) = DOMAIN table \cup {key}
  BY DEF InsertNew

LEMMA InsertNewType ==
  ASSUME NEW keys, NEW now \in Nat, NEW table, IsTable(table, keys, now),
         NEW key \in keys
  PROVE  IsTable(InsertNew(table, key, now), keys, now)
<1>1. IsFiniteSet(DOMAIN table \cup {key})
  BY FS_AddElement DEF IsTable
<1>2. QED
  BY <1>1, InsertNewDomain DEF IsTable, InsertNew

(* insert_new grows the table by at most one. *)
LEMMA InsertNewSize ==
  ASSUME NEW now, NEW table, IsFiniteSet(DOMAIN table), NEW key
  PROVE  Size(InsertNew(table, key, now)) <= Size(table) + 1
<1>1. Cardinality(DOMAIN table \cup {key}) =
        IF key \in DOMAIN table THEN Cardinality(DOMAIN table)
                                ELSE Cardinality(DOMAIN table) + 1
  BY FS_AddElement
<1>2. Cardinality(DOMAIN table) \in Nat
  BY FS_CardinalityType
<1>3. QED
  BY <1>1, <1>2, InsertNewDomain DEF Size

(* mark_reused and touch keep the keys, so the size. *)
LEMMA TouchDomain ==
  ASSUME NEW now, NEW table, NEW key
  PROVE  /\ DOMAIN Touch(table, key, now) = DOMAIN table
         /\ Size(Touch(table, key, now)) = Size(table)
  BY DEF Touch, Size

LEMMA TouchType ==
  ASSUME NEW keys, NEW now \in Nat, NEW table, IsTable(table, keys, now),
         NEW key
  PROVE  IsTable(Touch(table, key, now), keys, now)
  BY DEF IsTable, Touch

(* remove takes out its key and nothing else. *)
LEMMA RemoveDomain ==
  ASSUME NEW table, NEW key
  PROVE  DOMAIN Remove(table, key) = DOMAIN table \ {key}
  BY DEF Remove

LEMMA RemoveType ==
  ASSUME NEW keys, NEW now \in Nat, NEW table, IsTable(table, keys, now),
         NEW key
  PROVE  IsTable(Remove(table, key), keys, now)
<1>1. IsFiniteSet(DOMAIN table \ {key})
  BY FS_RemoveElement DEF IsTable
<1>2. QED
  BY <1>1, RemoveDomain DEF IsTable, Remove

(* The table shrinks by one when the key was there, and not at all when it *)
(* was not.                                                                *)
LEMMA RemoveSize ==
  ASSUME NEW table, IsFiniteSet(DOMAIN table), NEW key
  PROVE  /\ key \in DOMAIN table => Size(Remove(table, key)) = Size(table) - 1
         /\ key \notin DOMAIN table => Size(Remove(table, key)) = Size(table)
  BY FS_RemoveElement, RemoveDomain DEF Size

(* A second remove never undoes what a first one gained: the health loop   *)
(* dropping an entry leaves an eviction under way at least as much room.   *)
LEMMA RemoveTwice ==
  ASSUME NEW keys, NEW now \in Nat, NEW table, IsTable(table, keys, now),
         NEW key, NEW other
  PROVE  Size(Remove(Remove(table, key), other)) <= Size(Remove(table, other))
<1>1. DOMAIN Remove(Remove(table, key), other) \subseteq
        DOMAIN Remove(table, other)
  BY DEF Remove
<1>2. IsFiniteSet(DOMAIN Remove(table, other))
  BY RemoveType DEF IsTable
<1>3. QED
  BY <1>1, <1>2, FS_Subset DEF Size

(* With no entry there is nothing to count. *)
LEMMA NoEntries ==
  ASSUME NEW table, DOMAIN table = {}
  PROVE  Size(table) = 0
  BY FS_EmptySet DEF Size

(* least_recently_used chooses among the entries. *)
LEMMA LeastRecentlyUsedFacts ==
  ASSUME NEW table
  PROVE  LeastRecentlyUsed(table) \subseteq DOMAIN table
  BY DEF LeastRecentlyUsed
=============================================================================
