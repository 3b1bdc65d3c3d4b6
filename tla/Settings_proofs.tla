--------------------------- MODULE Settings_proofs ---------------------------
(***************************************************************************)
(* Proofs about a setting, for any number of lookups, commands, names,     *)
(* failures and restarts: when nothing is going on, Redis, access_roles    *)
(* and the entry of a blacklisted user say what MySQL says.                *)
(***************************************************************************)
EXTENDS Settings, TLAPS

\* Each task is of a kind that the setting has, and where such a task can be.
Legal ==
  /\ \A x \in Tasks : pc[x] # "idle" => does[x] \in Kinds[setting]
  /\ \A x \in Tasks : pc[x] = "write" => does[x] \notin {"read", "refresh"}
  /\ \A x \in Tasks : pc[x] = "redis" => does[x] \in {"ban", "unban", "remove"}
  /\ setting = "blacklist" =>
       \A x \in Tasks : pc[x] \in {"idle", "ask", "write", "redis", "tell", "ended"}
  /\ setting # "roles" =>
       \A x \in Tasks : pc[x] \notin {"select", "assign", "expire", "reexpire"}
  /\ setting = "roles" => \A x \in Tasks : pc[x] \notin {"redis"}

\* A configuration, once it exists, stays; ticket types come with the row of one.
Shaped ==
  /\ setting = "config" =>
       /\ rows \subseteq Tasks \cup {"row", "on"}
       /\ rows # {} => "row" \in rows
       /\ entry # None => rows # {}
       /\ \A x \in Tasks : pc[x] \in {"store", "restore"} => rows # {}
  /\ setting = "types" => rows = {} \/ Exist(rows)

Storing == {"store", "restore", "expire", "reexpire"}

\* Somebody is going to replace the entry, or to mark it as stale.
Replaces(x) ==
  \/ pc[x] = "restore"
  \/ pc[x] = "redis" /\ does[x] = "remove"
  \/ (rows # {} \/ setting = "snips") /\ (pc[x] = "reload" \/ (pc[x] = "tell" /\ does[x] = "toggle"))

Replaced ==
  setting \in {"config", "types", "snips"} /\ hurt = {} /\ ~lag /\ entry \notin {None, rows} =>
    \E x \in Tasks : Replaces(x)

\* A task that will load the permissions anew, or is about to store the role r.
Brings(x, r) == pc[x] \in {"select", "assign", "reload"} \/ (pc[x] \in Storing /\ r \in todo[x])

\* The roles an entry lacks.
Lacks == rows \ (IF entry = None THEN {} ELSE entry)

\* Permissions are only added; those that an entry lacks, or one that is being
\* stored, will be brought.
Stocked ==
  setting = "roles" =>
    /\ entry # None => entry \subseteq rows
    /\ \A x \in Tasks : todo[x] \subseteq rows
    /\ hurt = {} /\ ~lag /\ (entry # None \/ \E y \in Tasks : pc[y] \in Storing) =>
         \A r \in Lacks : \E x \in Tasks : Brings(x, r)

\* access_roles is the table, or somebody is going to assign it.
Assigned ==
  setting = "roles" /\ hurt = {} /\ ~behind =>
    known = rows \/ \E x \in Tasks : pc[x] \in {"select", "assign"}

\* The user's entry goes with his row, but for one task between the two.
Blocked ==
  setting = "blacklist" /\ hurt = {} /\ ~crossed =>
    /\ \A x, y \in Tasks : pc[x] = "redis" /\ pc[y] = "redis" => x = y
    /\ \A x \in Tasks : pc[x] = "redis" => (does[x] = "ban" <=> rows # {})
    /\ (\A x \in Tasks : pc[x] # "redis") => (entry # None <=> rows # {})

IInv == TypeOK /\ Legal /\ Shaped /\ Replaced /\ Stocked /\ Assigned /\ Blocked

-----------------------------------------------------------------------------
\* The kinds of tasks, setting by setting.
LEMMA KindsOf ==
  ASSUME NEW k, setting \in Settings, k \in Kinds[setting]
  PROVE  /\ setting = "config" => k \in {"read", "refresh", "setup", "write", "toggle"}
         /\ setting = "types" => k \in {"read", "refresh", "write", "ping", "clear", "remove"}
         /\ setting = "snips" => k \in {"read", "add", "drop"}
         /\ setting = "roles" => k \in {"read", "grant", "regrant"}
         /\ setting = "blacklist" => k \in {"ban", "unban"}
         /\ k \in UNION {Kinds[s] : s \in Settings}
BY DEF Kinds, Settings, Cached

\* A statement leaves items.
LEMMA EffectType ==
  ASSUME IInv, NEW x \in Tasks
  PROVE  Effect(x, rows) \subseteq Items
<1>1. rows \subseteq Items /\ item[x] \in Items /\ x \in Items /\ {"row", "on"} \subseteq Items
  BY DEF IInv, TypeOK, Items
<1>2. QED
  BY <1>1 DEF Effect, Put

LEMMA StepType ==
  ASSUME IInv, [Next]_vars
  PROVE  TypeOK'
<1> USE SettingsAssumption DEF IInv, TypeOK, Items, Labels, Cached, Settings, store, task, faults, Goto, Legal
<1>1. ASSUME NEW x \in Tasks, NEW k \in Used, NEW n \in Names, Start(x, k, n) PROVE TypeOK'
  BY <1>1, KindsOf DEF Start, FirstStep
<1>2. ASSUME NEW x \in Tasks, Ask(x) PROVE TypeOK'
  <2>1. (IF entry = None THEN {} ELSE entry) \subseteq Items
    <3>1. entry \in (SUBSET Items) \cup {None}
      OBVIOUS
    <3>2. QED
      BY <3>1, Zenon
  <2>2. pc' \in [Tasks -> Labels] /\ seen' \in [Tasks -> SUBSET Items]
    BY <1>2, <2>1 DEF Ask, AfterRead
  <2>3. QED
    BY <1>2, <2>2 DEF Ask
<1>3. ASSUME NEW x \in Tasks, Load(x) PROVE TypeOK'
  BY <1>3, KindsOf DEF Load, AfterRead, AfterReload
<1>4. ASSUME NEW x \in Tasks, Store(x) PROVE TypeOK'
  BY <1>4, KindsOf DEF Store, Stored, AfterRead, AfterReload, WithExpiry
<1>5. ASSUME NEW x \in Tasks, StoreRole(x) PROVE TypeOK'
  BY <1>5 DEF StoreRole
<1>6. ASSUME NEW x \in Tasks, ExpireRoles(x) PROVE TypeOK'
  BY <1>6, KindsOf DEF ExpireRoles, Stored, AfterRead, AfterReload
<1>7. ASSUME NEW x \in Tasks, Write(x) PROVE TypeOK'
  <2>1. rows' \subseteq Items
    BY <1>7, EffectType DEF Write
  <2>2. pc' \in [Tasks -> Labels] /\ hurt' \subseteq Tasks
    BY <1>7 DEF Write, AfterWrite, Fails
  <2>3. lag' \in BOOLEAN
    <3>1. CASE lag' = (lag \/ (does[x] = "clear" /\ entry # None))
      BY <3>1, Zenon
    <3>2. CASE UNCHANGED lag
      BY <3>2
    <3>3. QED
      BY <1>7, <3>1, <3>2 DEF Write
  <2>4. crossed' \in BOOLEAN
    <3>1. CASE crossed' = (crossed \/ \E y \in Tasks \ {x} : pc[y] = "redis")
      BY <3>1, Zenon
    <3>2. CASE UNCHANGED crossed
      BY <3>2
    <3>3. QED
      BY <1>7, <3>1, <3>2 DEF Write
  <2>5. QED
    BY <1>7, <2>1, <2>2, <2>3, <2>4 DEF Write
<1>8. ASSUME NEW x \in Tasks, SetEntry(x) PROVE TypeOK'
  <2>1. setting = "blacklist"
    BY <1>8, KindsOf DEF SetEntry
  <2>2. entry' \in (SUBSET Items) \cup {None} /\ pc' \in [Tasks -> Labels]
    <3>1. {"row"} \in SUBSET Items
      OBVIOUS
    <3>2. entry' = {"row"} \/ entry' = None
      BY <1>8 DEF SetEntry
    <3>3. pc' \in [Tasks -> Labels]
      BY <1>8 DEF SetEntry
    <3>4. QED
      BY <3>1, <3>2, <3>3
  <2>3. QED
    BY <1>8, <2>1, <2>2 DEF SetEntry
<1>9. ASSUME NEW x \in Tasks, HdelType(x) PROVE TypeOK'
  BY <1>9, KindsOf DEF HdelType
<1>10. ASSUME NEW x \in Tasks, Select(x) PROVE TypeOK'
  BY <1>10 DEF Select
<1>11. ASSUME NEW x \in Tasks, Assign(x) PROVE TypeOK'
  BY <1>11 DEF Assign
<1>12. ASSUME NEW x \in Tasks, Tell(x) PROVE TypeOK'
  BY <1>12 DEF Tell
<1>13. ASSUME NEW x \in Tasks, Fault(x) PROVE TypeOK'
  BY <1>13 DEF Fault, Fails, Halfway
<1>14. CASE Expire
  <2>1. lag' \in BOOLEAN
    BY <1>14, Zenon DEF Expire
  <2>2. {lag', behind', crossed'} \subseteq BOOLEAN
    BY <1>14, <2>1 DEF Expire
  <2>3. entry' = None /\ ttl' = FALSE
    BY <1>14 DEF Expire
  <2>4. QED
    BY <1>14, <2>2, <2>3 DEF Expire
<1>15. CASE Restart
  <2>1. pc' \in [Tasks -> Labels]
    BY <1>15 DEF Restart
  <2>2. hurt' \subseteq Tasks
    BY <1>15 DEF Restart, Running
  <2>3. known' \subseteq Items
    BY <1>15 DEF Restart
  <2>4. lag' = lag /\ crossed' = crossed /\ behind' = FALSE /\ restarts' = restarts + 1
    BY <1>15 DEF Restart
  <2>5. behind' \in BOOLEAN /\ lag' \in BOOLEAN /\ crossed' \in BOOLEAN
    <3>1. {lag, behind, crossed} \subseteq BOOLEAN
      OBVIOUS
    <3>2. QED
      BY <2>4, <3>1
  <2>6. UNCHANGED <<setting, rows, entry, ttl, does, item, seen, todo>>
    BY <1>15 DEF Restart
  <2>7. QED
    BY <2>1, <2>2, <2>3, <2>4, <2>5, <2>6
<1>16. CASE UNCHANGED vars
  BY <1>16 DEF vars
<1>17. QED
  BY <1>1, <1>2, <1>3, <1>4, <1>5, <1>6, <1>7, <1>8, <1>9, <1>10, <1>11, <1>12, <1>13, <1>14, <1>15, <1>16 DEF Next, Step

LEMMA StepLegal ==
  ASSUME IInv, [Next]_vars
  PROVE  Legal'
<1> USE SettingsAssumption DEF IInv, TypeOK, Items, Labels, Cached, Settings, store, task, faults, Goto, Legal
<1>1. ASSUME NEW x \in Tasks, NEW k \in Used, NEW n \in Names, Start(x, k, n) PROVE Legal'
  BY <1>1, KindsOf DEF Start, FirstStep
<1>2. ASSUME NEW x \in Tasks, Ask(x) PROVE Legal'
  BY <1>2, KindsOf DEF Ask, AfterRead
<1>3. ASSUME NEW x \in Tasks, Load(x) PROVE Legal'
  BY <1>3, KindsOf DEF Load, AfterRead, AfterReload
<1>4. ASSUME NEW x \in Tasks, Store(x) PROVE Legal'
  BY <1>4, KindsOf DEF Store, Stored, AfterRead, AfterReload, WithExpiry
<1>5. ASSUME NEW x \in Tasks, StoreRole(x) PROVE Legal'
  BY <1>5 DEF StoreRole
<1>6. ASSUME NEW x \in Tasks, ExpireRoles(x) PROVE Legal'
  BY <1>6, KindsOf DEF ExpireRoles, Stored, AfterRead, AfterReload
<1>7. ASSUME NEW x \in Tasks, Write(x) PROVE Legal'
  BY <1>7, KindsOf DEF Write, Effect, Put, Exist, Refused, AfterWrite, Fails, Halfway
<1>8. ASSUME NEW x \in Tasks, SetEntry(x) PROVE Legal'
  BY <1>8, KindsOf DEF SetEntry
<1>9. ASSUME NEW x \in Tasks, HdelType(x) PROVE Legal'
  BY <1>9, KindsOf DEF HdelType
<1>10. ASSUME NEW x \in Tasks, Select(x) PROVE Legal'
  BY <1>10 DEF Select
<1>11. ASSUME NEW x \in Tasks, Assign(x) PROVE Legal'
  BY <1>11 DEF Assign
<1>12. ASSUME NEW x \in Tasks, Tell(x) PROVE Legal'
  <2>1. pc[x] = "tell" /\ pc' = [pc EXCEPT ![x] = IF does[x] = "toggle" THEN "reload" ELSE "ended"]
    BY <1>12 DEF Tell
  <2>2. UNCHANGED <<setting, does>>
    BY <1>12 DEF Tell
  <2>3. setting = "blacklist" => does[x] # "toggle"
    BY <2>1, KindsOf
  <2>4. QED
    BY <2>1, <2>2, <2>3
<1>13. ASSUME NEW x \in Tasks, Fault(x) PROVE Legal'
  BY <1>13 DEF Fault, Fails, Halfway
<1>14. CASE Expire
  BY <1>14 DEF Expire
<1>15. CASE Restart
  BY <1>15 DEF Restart, Running, Halfway
<1>16. CASE UNCHANGED vars
  BY <1>16 DEF vars
<1>17. QED
  BY <1>1, <1>2, <1>3, <1>4, <1>5, <1>6, <1>7, <1>8, <1>9, <1>10, <1>11, <1>12, <1>13, <1>14, <1>15, <1>16 DEF Next, Step

LEMMA StepShaped ==
  ASSUME IInv, [Next]_vars
  PROVE  Shaped'
<1> USE SettingsAssumption DEF IInv, TypeOK, Items, Labels, Cached, Settings, store, task, faults, Goto, Legal, Shaped, Exist
<1>1. ASSUME NEW x \in Tasks, NEW k \in Used, NEW n \in Names, Start(x, k, n) PROVE Shaped'
  BY <1>1, KindsOf DEF Start, FirstStep
<1>2. ASSUME NEW x \in Tasks, Ask(x) PROVE Shaped'
  BY <1>2, KindsOf DEF Ask, AfterRead
<1>3. ASSUME NEW x \in Tasks, Load(x) PROVE Shaped'
  BY <1>3, KindsOf DEF Load, AfterRead, AfterReload
<1>4. ASSUME NEW x \in Tasks, Store(x) PROVE Shaped'
  BY <1>4, KindsOf DEF Store, Stored, AfterRead, AfterReload, WithExpiry
<1>5. ASSUME NEW x \in Tasks, StoreRole(x) PROVE Shaped'
  BY <1>5 DEF StoreRole
<1>6. ASSUME NEW x \in Tasks, ExpireRoles(x) PROVE Shaped'
  BY <1>6, KindsOf DEF ExpireRoles, Stored, AfterRead, AfterReload
<1>7. ASSUME NEW x \in Tasks, Write(x) PROVE Shaped'
  BY <1>7, KindsOf DEF Write, Effect, Put, Exist, Refused, AfterWrite, Fails, Halfway
<1>8. ASSUME NEW x \in Tasks, SetEntry(x) PROVE Shaped'
  BY <1>8, KindsOf DEF SetEntry
<1>9. ASSUME NEW x \in Tasks, HdelType(x) PROVE Shaped'
  BY <1>9, KindsOf DEF HdelType
<1>10. ASSUME NEW x \in Tasks, Select(x) PROVE Shaped'
  BY <1>10 DEF Select
<1>11. ASSUME NEW x \in Tasks, Assign(x) PROVE Shaped'
  BY <1>11 DEF Assign
<1>12. ASSUME NEW x \in Tasks, Tell(x) PROVE Shaped'
  BY <1>12 DEF Tell
<1>13. ASSUME NEW x \in Tasks, Fault(x) PROVE Shaped'
  BY <1>13 DEF Fault, Fails, Halfway
<1>14. CASE Expire
  BY <1>14 DEF Expire
<1>15. CASE Restart
  BY <1>15 DEF Restart, Running, Halfway
<1>16. CASE UNCHANGED vars
  BY <1>16 DEF vars
<1>17. QED
  BY <1>1, <1>2, <1>3, <1>4, <1>5, <1>6, <1>7, <1>8, <1>9, <1>10, <1>11, <1>12, <1>13, <1>14, <1>15, <1>16 DEF Next, Step

LEMMA StepReplaced ==
  ASSUME IInv, [Next]_vars
  PROVE  Replaced'
<1> USE SettingsAssumption DEF IInv, TypeOK, Items, Labels, Cached, Settings, store, task, faults, Goto, Legal, Shaped, Replaced, Replaces
<1>1. ASSUME NEW x \in Tasks, NEW k \in Used, NEW n \in Names, Start(x, k, n) PROVE Replaced'
  BY <1>1, KindsOf DEF Start, FirstStep
<1>2. ASSUME NEW x \in Tasks, Ask(x) PROVE Replaced'
  BY <1>2, KindsOf DEF Ask, AfterRead
<1>3. ASSUME NEW x \in Tasks, Load(x) PROVE Replaced'
  BY <1>3, KindsOf DEF Load, AfterRead, AfterReload
<1>4. ASSUME NEW x \in Tasks, Store(x) PROVE Replaced'
  BY <1>4, KindsOf DEF Store, Stored, AfterRead, AfterReload, WithExpiry
<1>5. ASSUME NEW x \in Tasks, StoreRole(x) PROVE Replaced'
  BY <1>5 DEF StoreRole
<1>6. ASSUME NEW x \in Tasks, ExpireRoles(x) PROVE Replaced'
  BY <1>6, KindsOf DEF ExpireRoles, Stored, AfterRead, AfterReload
<1>7. ASSUME NEW x \in Tasks, Write(x) PROVE Replaced'
  BY <1>7, KindsOf DEF Write, Effect, Put, Exist, Refused, AfterWrite, Fails, Halfway
<1>8. ASSUME NEW x \in Tasks, SetEntry(x) PROVE Replaced'
  BY <1>8, KindsOf DEF SetEntry
<1>9. ASSUME NEW x \in Tasks, HdelType(x) PROVE Replaced'
  BY <1>9, KindsOf DEF HdelType
<1>10. ASSUME NEW x \in Tasks, Select(x) PROVE Replaced'
  BY <1>10 DEF Select
<1>11. ASSUME NEW x \in Tasks, Assign(x) PROVE Replaced'
  BY <1>11 DEF Assign
<1>12. ASSUME NEW x \in Tasks, Tell(x) PROVE Replaced'
  BY <1>12 DEF Tell
<1>13. ASSUME NEW x \in Tasks, Fault(x) PROVE Replaced'
  BY <1>13 DEF Fault, Fails, Halfway
<1>14. CASE Expire
  BY <1>14 DEF Expire
<1>15. CASE Restart
  BY <1>15 DEF Restart, Running, Halfway
<1>16. CASE UNCHANGED vars
  BY <1>16 DEF vars
<1>17. QED
  BY <1>1, <1>2, <1>3, <1>4, <1>5, <1>6, <1>7, <1>8, <1>9, <1>10, <1>11, <1>12, <1>13, <1>14, <1>15, <1>16 DEF Next, Step

LEMMA StepStocked ==
  ASSUME IInv, [Next]_vars
  PROVE  Stocked'
<1> USE SettingsAssumption DEF IInv, TypeOK, Items, Labels, Cached, Settings, store, task, faults, Goto, Legal, Stocked, Lacks, Brings, Storing
<1>1. ASSUME NEW x \in Tasks, NEW k \in Used, NEW n \in Names, Start(x, k, n) PROVE Stocked'
  BY <1>1, KindsOf DEF Start, FirstStep
<1>2. ASSUME NEW x \in Tasks, Ask(x) PROVE Stocked'
  BY <1>2, KindsOf DEF Ask, AfterRead
<1>3. ASSUME NEW x \in Tasks, Load(x) PROVE Stocked'
  BY <1>3, KindsOf DEF Load, AfterRead, AfterReload
<1>4. ASSUME NEW x \in Tasks, Store(x) PROVE Stocked'
  BY <1>4, KindsOf DEF Store, Stored, AfterRead, AfterReload, WithExpiry
<1>5. ASSUME NEW x \in Tasks, StoreRole(x) PROVE Stocked'
  BY <1>5 DEF StoreRole
<1>6. ASSUME NEW x \in Tasks, ExpireRoles(x) PROVE Stocked'
  BY <1>6, KindsOf DEF ExpireRoles, Stored, AfterRead, AfterReload
<1>7. ASSUME NEW x \in Tasks, Write(x) PROVE Stocked'
  BY <1>7, KindsOf DEF Write, Effect, Put, Exist, Refused, AfterWrite, Fails, Halfway
<1>8. ASSUME NEW x \in Tasks, SetEntry(x) PROVE Stocked'
  BY <1>8, KindsOf DEF SetEntry
<1>9. ASSUME NEW x \in Tasks, HdelType(x) PROVE Stocked'
  BY <1>9, KindsOf DEF HdelType
<1>10. ASSUME NEW x \in Tasks, Select(x) PROVE Stocked'
  BY <1>10 DEF Select
<1>11. ASSUME NEW x \in Tasks, Assign(x) PROVE Stocked'
  BY <1>11 DEF Assign
<1>12. ASSUME NEW x \in Tasks, Tell(x) PROVE Stocked'
  BY <1>12 DEF Tell
<1>13. ASSUME NEW x \in Tasks, Fault(x) PROVE Stocked'
  BY <1>13 DEF Fault, Fails, Halfway
<1>14. CASE Expire
  BY <1>14 DEF Expire
<1>15. CASE Restart
  BY <1>15 DEF Restart, Running, Halfway
<1>16. CASE UNCHANGED vars
  BY <1>16 DEF vars
<1>17. QED
  BY <1>1, <1>2, <1>3, <1>4, <1>5, <1>6, <1>7, <1>8, <1>9, <1>10, <1>11, <1>12, <1>13, <1>14, <1>15, <1>16 DEF Next, Step

LEMMA StepAssigned ==
  ASSUME IInv, [Next]_vars
  PROVE  Assigned'
<1> USE SettingsAssumption DEF IInv, TypeOK, Items, Labels, Cached, Settings, store, task, faults, Goto, Legal, Assigned
<1>1. ASSUME NEW x \in Tasks, NEW k \in Used, NEW n \in Names, Start(x, k, n) PROVE Assigned'
  BY <1>1, KindsOf DEF Start, FirstStep
<1>2. ASSUME NEW x \in Tasks, Ask(x) PROVE Assigned'
  BY <1>2, KindsOf DEF Ask, AfterRead
<1>3. ASSUME NEW x \in Tasks, Load(x) PROVE Assigned'
  BY <1>3, KindsOf DEF Load, AfterRead, AfterReload
<1>4. ASSUME NEW x \in Tasks, Store(x) PROVE Assigned'
  BY <1>4, KindsOf DEF Store, Stored, AfterRead, AfterReload, WithExpiry
<1>5. ASSUME NEW x \in Tasks, StoreRole(x) PROVE Assigned'
  BY <1>5 DEF StoreRole
<1>6. ASSUME NEW x \in Tasks, ExpireRoles(x) PROVE Assigned'
  BY <1>6, KindsOf DEF ExpireRoles, Stored, AfterRead, AfterReload
<1>7. ASSUME NEW x \in Tasks, Write(x) PROVE Assigned'
  BY <1>7, KindsOf DEF Write, Effect, Put, Exist, Refused, AfterWrite, Fails, Halfway
<1>8. ASSUME NEW x \in Tasks, SetEntry(x) PROVE Assigned'
  BY <1>8, KindsOf DEF SetEntry
<1>9. ASSUME NEW x \in Tasks, HdelType(x) PROVE Assigned'
  BY <1>9, KindsOf DEF HdelType
<1>10. ASSUME NEW x \in Tasks, Select(x) PROVE Assigned'
  BY <1>10 DEF Select
<1>11. ASSUME NEW x \in Tasks, Assign(x) PROVE Assigned'
  BY <1>11 DEF Assign
<1>12. ASSUME NEW x \in Tasks, Tell(x) PROVE Assigned'
  BY <1>12 DEF Tell
<1>13. ASSUME NEW x \in Tasks, Fault(x) PROVE Assigned'
  BY <1>13 DEF Fault, Fails, Halfway
<1>14. CASE Expire
  BY <1>14 DEF Expire
<1>15. CASE Restart
  BY <1>15 DEF Restart, Running, Halfway
<1>16. CASE UNCHANGED vars
  BY <1>16 DEF vars
<1>17. QED
  BY <1>1, <1>2, <1>3, <1>4, <1>5, <1>6, <1>7, <1>8, <1>9, <1>10, <1>11, <1>12, <1>13, <1>14, <1>15, <1>16 DEF Next, Step

LEMMA StepBlocked ==
  ASSUME IInv, [Next]_vars
  PROVE  Blocked'
<1> USE SettingsAssumption DEF IInv, TypeOK, Items, Labels, Cached, Settings, store, task, faults, Goto, Legal, Blocked
<1>1. ASSUME NEW x \in Tasks, NEW k \in Used, NEW n \in Names, Start(x, k, n) PROVE Blocked'
  BY <1>1, KindsOf DEF Start, FirstStep
<1>2. ASSUME NEW x \in Tasks, Ask(x) PROVE Blocked'
  BY <1>2, KindsOf DEF Ask, AfterRead
<1>3. ASSUME NEW x \in Tasks, Load(x) PROVE Blocked'
  BY <1>3, KindsOf DEF Load, AfterRead, AfterReload
<1>4. ASSUME NEW x \in Tasks, Store(x) PROVE Blocked'
  BY <1>4, KindsOf DEF Store, Stored, AfterRead, AfterReload, WithExpiry
<1>5. ASSUME NEW x \in Tasks, StoreRole(x) PROVE Blocked'
  BY <1>5 DEF StoreRole
<1>6. ASSUME NEW x \in Tasks, ExpireRoles(x) PROVE Blocked'
  BY <1>6, KindsOf DEF ExpireRoles, Stored, AfterRead, AfterReload
<1>7. ASSUME NEW x \in Tasks, Write(x) PROVE Blocked'
  <2>1. SUFFICES ASSUME setting = "blacklist", hurt' = {}, ~crossed' PROVE Blocked'
    BY <1>7 DEF Write
  <2>2. does[x] \in {"ban", "unban"} /\ pc[x] = "write"
    BY <1>7, <2>1, KindsOf DEF Write
  <2>3. CASE rows' = rows /\ pc' = [pc EXCEPT ![x] = "ended"] /\ UNCHANGED <<hurt, crossed>>
    BY <1>7, <2>1, <2>2, <2>3 DEF Write
  <2>4. CASE /\ ~Refused(x)
             /\ rows' = Effect(x, rows)
             /\ pc' = [pc EXCEPT ![x] = "redis"] /\ UNCHANGED hurt
             /\ \A y \in Tasks \ {x} : pc[y] # "redis"
    <3>1. does[x] = "ban" <=> rows' # {}
      BY <2>2, <2>4 DEF Effect
    <3>2. UNCHANGED <<setting, does, entry>>
      BY <1>7 DEF Write
    <3>3. QED
      BY <2>1, <2>4, <3>1, <3>2
  <2>5. QED
    <3>1. crossed' = (crossed \/ \E y \in Tasks \ {x} : pc[y] = "redis") => \A y \in Tasks \ {x} : pc[y] # "redis"
      BY <2>1
    <3>2. QED
      BY <1>7, <2>1, <2>2, <2>3, <2>4, <3>1 DEF Write, AfterWrite, Fails, Halfway
<1>8. ASSUME NEW x \in Tasks, SetEntry(x) PROVE Blocked'
  BY <1>8, KindsOf DEF SetEntry
<1>9. ASSUME NEW x \in Tasks, HdelType(x) PROVE Blocked'
  BY <1>9, KindsOf DEF HdelType
<1>10. ASSUME NEW x \in Tasks, Select(x) PROVE Blocked'
  BY <1>10 DEF Select
<1>11. ASSUME NEW x \in Tasks, Assign(x) PROVE Blocked'
  BY <1>11 DEF Assign
<1>12. ASSUME NEW x \in Tasks, Tell(x) PROVE Blocked'
  BY <1>12 DEF Tell
<1>13. ASSUME NEW x \in Tasks, Fault(x) PROVE Blocked'
  BY <1>13 DEF Fault, Fails, Halfway
<1>14. CASE Expire
  BY <1>14 DEF Expire
<1>15. CASE Restart
  BY <1>15 DEF Restart, Running, Halfway
<1>16. CASE UNCHANGED vars
  BY <1>16 DEF vars
<1>17. QED
  BY <1>1, <1>2, <1>3, <1>4, <1>5, <1>6, <1>7, <1>8, <1>9, <1>10, <1>11, <1>12, <1>13, <1>14, <1>15, <1>16 DEF Next, Step

LEMMA InitIInv ==
  ASSUME Init
  PROVE  IInv
<1> USE SettingsAssumption DEF Init
<1>1. rows \subseteq Items /\ (setting = "config" => rows = {} \/ "row" \in rows)
                        /\ (setting = "config" => rows \subseteq {"row", "on"})
                        /\ (setting = "types" => rows = {} \/ Exist(rows))
  <2>1. setting \in {"config", "types", "snips", "roles", "blacklist"} /\ rows \in InitialRows(setting)
    BY DEF Settings, Cached
  <2>2. CASE setting = "config"
    BY <2>1, <2>2 DEF InitialRows, Items
  <2>3. CASE setting = "types"
    <3>1. PICK S \in {{}, {"row"}}, N \in SUBSET Names : rows = {} \/ (rows = S \cup (N \cup {"on"}) /\ N # {})
      BY <2>1, <2>3 DEF InitialRows
    <3>2. QED
      BY <2>3, <3>1 DEF Items, Exist
  <2>4. CASE setting \in {"snips", "roles"}
    BY <2>1, <2>4 DEF InitialRows, Items
  <2>5. CASE setting = "blacklist"
    BY <2>1, <2>5 DEF InitialRows, Items
  <2>6. QED
    BY <2>1, <2>2, <2>3, <2>4, <2>5
<1>2. TypeOK
  <2>1. entry \in (SUBSET Items) \cup {None} /\ known \subseteq Items
    BY <1>1
  <2>2. does \in [Tasks -> UNION {Kinds[s] : s \in Settings}]
    <3>1. "read" \in Kinds["config"] /\ "config" \in Settings
      BY DEF Kinds, Settings, Cached
    <3>2. QED
      BY <3>1
  <2>3. item \in [Tasks -> Names]
    OBVIOUS
  <2>4. setting \notin {"roles", "blacklist"} => (ttl <=> entry # None)
    BY DEF Settings, Cached
  <2>5. ~ttl /\ {lag, behind, crossed} \subseteq BOOLEAN /\ ttl \in BOOLEAN
    OBVIOUS
  <2>6. pc \in [Tasks -> Labels]
    BY DEF Labels
  <2>7. QED
    BY <1>1, <2>1, <2>2, <2>3, <2>4, <2>5, <2>6 DEF TypeOK
<1>3. Legal
  BY DEF Legal
<1>4. Shaped
  BY <1>1 DEF Shaped
<1>5. Replaced /\ Stocked /\ Assigned /\ Blocked
  <2>1. Replaced /\ Assigned
    BY DEF Replaced, Assigned
  <2>2. Stocked
    BY DEF Stocked, Storing
  <2>3. Blocked
    <3>1. setting = "blacklist" => (entry # None <=> rows # {})
      BY <1>1 DEF Items
    <3>2. QED
      BY <3>1 DEF Blocked
  <2>4. QED
    BY <2>1, <2>2, <2>3
<1>6. QED
  BY <1>2, <1>3, <1>4, <1>5 DEF IInv

LEMMA StepIInv ==
  ASSUME IInv, [Next]_vars
  PROVE  IInv'
BY StepType, StepLegal, StepShaped, StepReplaced, StepStocked, StepAssigned, StepBlocked DEF IInv

LEMMA Invariance == Spec => []IInv
<1>1. QED
  BY InitIInv, StepIInv, PTL DEF Spec

-----------------------------------------------------------------------------
\* The types of the state; and an entry has a time to live when it is loaded as a
\* whole, none when it is a blacklisting.
THEOREM TypeCorrect == Spec => []TypeOK
BY Invariance, PTL DEF IInv

LEMMA IInvFollows == IInv => EntryFollows
<1>1. SUFFICES ASSUME IInv, setting \in Cached, Quiet, ~lag, entry # None
               PROVE  entry = rows
  BY DEF EntryFollows
<1>2. hurt = {} /\ \A x \in Tasks : pc[x] \in {"idle", "ended"}
  BY <1>1 DEF Quiet, Running
<1>3. CASE setting = "roles"
  <2>1. entry \subseteq rows /\ \A r \in Lacks : FALSE
    BY <1>1, <1>2, <1>3 DEF IInv, Stocked, Brings, Storing
  <2>2. QED
    BY <1>1, <2>1 DEF Lacks
<1>4. CASE setting # "roles"
  BY <1>1, <1>2, <1>4 DEF IInv, Replaced, Replaces, Cached
<1>5. QED
  BY <1>3, <1>4

\* When nothing is going on, Redis has what MySQL has or nothing, unless the entry
\* was last stored late, or not stored after a change, or a task failed.
THEOREM EntryCorrect == Spec => []EntryFollows
BY Invariance, IInvFollows, PTL

LEMMA IInvKnown == IInv => RolesKnown
BY DEF IInv, Assigned, RolesKnown, Quiet, Running

\* When nothing is going on, access_roles has the roles of the table, unless it was
\* last assigned late or a task failed.
THEOREM RolesCorrect == Spec => []RolesKnown
BY Invariance, IInvKnown, PTL

LEMMA IInvAgrees == IInv => BlacklistAgrees
BY DEF IInv, Blocked, BlacklistAgrees, Quiet, Running

\* When nothing is going on, a user is blocked exactly when he is listed, unless
\* two commands for him overlapped or one failed.
THEOREM BlacklistCorrect == Spec => []BlacklistAgrees
BY Invariance, IInvAgrees, PTL

-----------------------------------------------------------------------------
(* Who sets the time to live                                               *)

\* An entry that could be stale has a time to live, or is the hash of the
\* permissions and a task is about to set it, or one failed on the way.
Timed ==
  setting \in Cached /\ entry # None /\ ~ttl =>
    /\ setting = "roles"
    /\ hurt # {} \/ \E x \in Tasks : pc[x] \in {"expire", "reexpire"}

LEMMA StepTimed ==
  ASSUME IInv, Timed, [Next]_vars
  PROVE  Timed'
<1> SUFFICES ASSUME setting' = "roles", entry' # None, ~ttl', hurt' = {}
             PROVE  \E x \in Tasks : pc'[x] \in {"expire", "reexpire"}
  <2>1. TypeOK'
    BY StepType
  <2>2. setting' \in Cached /\ setting' # "roles" => (ttl' <=> entry' # None)
    BY <2>1 DEF TypeOK, Cached
  <2>3. QED
    BY <2>2 DEF Timed
<1> USE DEF IInv, TypeOK, Legal, Timed, Cached, store, task, faults, Goto
<1> DEFINE Setter == \E x \in Tasks : pc'[x] \in {"expire", "reexpire"}
<1>1. ASSUME NEW x \in Tasks, NEW k \in Used, NEW n \in Names, Start(x, k, n) PROVE Setter
  BY <1>1 DEF Start, FirstStep
<1>2. ASSUME NEW x \in Tasks, Ask(x) PROVE Setter
  BY <1>2 DEF Ask, AfterRead
<1>3. ASSUME NEW x \in Tasks, Load(x) PROVE Setter
  BY <1>3 DEF Load, AfterRead, AfterReload
<1>4. ASSUME NEW x \in Tasks, Store(x) PROVE Setter
  BY <1>4 DEF Store
<1>5. ASSUME NEW x \in Tasks, StoreRole(x) PROVE Setter
  BY <1>5 DEF StoreRole
<1>6. ASSUME NEW x \in Tasks, ExpireRoles(x) PROVE Setter
  BY <1>6 DEF ExpireRoles
<1>7. ASSUME NEW x \in Tasks, Write(x) PROVE Setter
  BY <1>7 DEF Write, Fails
<1>8. ASSUME NEW x \in Tasks, SetEntry(x) PROVE Setter
  BY <1>8 DEF SetEntry
<1>9. ASSUME NEW x \in Tasks, HdelType(x) PROVE Setter
  BY <1>9 DEF HdelType
<1>10. ASSUME NEW x \in Tasks, Select(x) PROVE Setter
  BY <1>10 DEF Select
<1>11. ASSUME NEW x \in Tasks, Assign(x) PROVE Setter
  BY <1>11 DEF Assign
<1>12. ASSUME NEW x \in Tasks, Tell(x) PROVE Setter
  BY <1>12 DEF Tell
<1>13. ASSUME NEW x \in Tasks, Fault(x) PROVE Setter
  BY <1>13 DEF Fault, Fails, Halfway
<1>14. CASE Expire
  BY <1>14 DEF Expire
<1>15. CASE Restart
  BY <1>15 DEF Restart, Running, Halfway
<1>16. CASE UNCHANGED vars
  BY <1>16 DEF vars
<1>17. QED
  BY <1>1, <1>2, <1>3, <1>4, <1>5, <1>6, <1>7, <1>8, <1>9, <1>10, <1>11, <1>12, <1>13, <1>14, <1>15, <1>16 DEF Next, Step

\* The safety half of StaleEnds: whatever loads, commands, expiry and restarts do,
\* an entry in Redis has a time to live or gets one from the next call of a task
\* that is there, unless a task failed halfway.
THEOREM EntryIsTimed == Spec => []Timed
<1>1. Init => Timed
  BY DEF Init, Timed, Cached
<1>2. IInv /\ Timed /\ [Next]_vars => Timed'
  BY StepTimed
<1>3. QED
  BY <1>1, <1>2, Invariance, PTL DEF Spec
=============================================================================
