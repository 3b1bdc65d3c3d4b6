------------------------------ MODULE Settings ------------------------------
(***************************************************************************)
(* One setting of one server - its configuration, ticket types, snips,     *)
(* role permissions, or the blacklisting of one user - as rows in MySQL    *)
(* and as an entry in Redis, and the commands and lookups that use it.     *)
(*                                                                         *)
(* A lookup (get_or_load_...) asks Redis and, when there is no entry, reads  *)
(* MySQL and stores what it read.  A command writes to MySQL and then, in  *)
(* most cases, reads it again for Redis.  Every call is awaited, so other  *)
(* tasks run between any two of them.  Entries expire, but not that of a   *)
(* blacklisted user, which is written and deleted beside its row and never *)
(* loaded.  Permissions have a second copy, access_roles, in the bot.      *)
(*                                                                         *)
(* Rows are abstracted to items: "row" for the server's configuration, the *)
(* ticket types other than the named ones, or the user's row; a name for a *)
(* type, snip or role; "on" for what a toggle or +pingrole sets; and the   *)
(* task that last wrote a text such as the greeting or a form.             *)
(***************************************************************************)
EXTENDS FiniteSets, Naturals

CONSTANTS
  Tasks,        \* lookups and commands
  Names,        \* ticket types, snips and roles that commands are about
  Used,         \* the kinds of tasks
  Failing,      \* which calls may fail: "mysql", "redis" or "send"
  MaxRestarts,  \* bound on the restarts of the bot
  None          \* no entry

Cached == {"config", "types", "snips", "roles"}
Settings == Cached \cup {"blacklist"}

\* What tasks there are for each setting.  "write" is +greeting, +closing and
\* /form set; "toggle" is +anon and +accepting; "refresh" the owner's reload.
Kinds == [
  config    |-> {"read", "refresh", "setup", "write", "toggle"},
  types     |-> {"read", "refresh", "write", "ping", "clear", "remove"},
  snips     |-> {"read", "add", "drop"},
  roles     |-> {"read", "grant", "regrant"},
  blacklist |-> {"ban", "unban"}]

ASSUME SettingsAssumption ==
  /\ Tasks \cap Names = {} /\ {"row", "on"} \cap (Tasks \cup Names) = {}
  /\ Used \subseteq UNION {Kinds[s] : s \in Settings}
  /\ Failing \subseteq {"mysql", "redis", "send"}
  /\ MaxRestarts \in Nat
  /\ Names # {}
  /\ \A S \in SUBSET (Tasks \cup Names \cup {"row", "on"}) : None # S

Items == Tasks \cup Names \cup {"row", "on"}

VARIABLES
  setting,      \* which setting this is
  rows,         \* its rows in MySQL
  entry,        \* its entry in Redis
  ttl,          \* whether the entry will expire
  known,        \* access_roles
  pc,           \* where each task is
  does,         \* its kind
  item,         \* the name it is about
  seen,         \* what it has read
  todo,         \* roles it has yet to store
  restarts,
  hurt,         \* history: tasks that failed halfway
  lag,          \* history: the entry was stored late, or not after a change
  behind,       \* history: access_roles was assigned late
  crossed       \* history: the user's row changed while another task was
                \* between the row and its entry

store == <<rows, entry, ttl>>
task  == <<does, item>>
faults == <<behind, crossed>>
vars == <<setting, rows, entry, ttl, known, pc, does, item, seen, todo,
          restarts, hurt, lag, behind, crossed>>

\* What there can be when the bot starts.
InitialRows(s) ==
  CASE s = "config" -> {{}, {"row"}, {"row", "on"}}
    [] s = "types" -> {{}} \cup {S \cup T : S \in {{}, {"row"}}, T \in {N \cup {"on"} : N \in (SUBSET Names) \ {{}}}}
    [] s \in {"snips", "roles"} -> SUBSET Names
    [] s = "blacklist" -> {{}, {"row"}}

Init ==
  /\ setting \in Settings
  /\ rows \in InitialRows(setting)
  /\ entry = IF setting = "blacklist" /\ rows # {} THEN rows ELSE None
  /\ ttl = FALSE
  /\ known = IF setting = "roles" THEN rows ELSE {}
  /\ pc = [x \in Tasks |-> "idle"]
  /\ does = [x \in Tasks |-> "read"]
  /\ item = [x \in Tasks |-> CHOOSE n \in Names : TRUE]
  /\ seen = [x \in Tasks |-> {}]
  /\ todo = [x \in Tasks |-> {}]
  /\ restarts = 0
  /\ hurt = {} /\ lag = FALSE /\ behind = FALSE /\ crossed = FALSE

Goto(x, l) == pc' = [pc EXCEPT ![x] = l]

\* The rows are changed, or a hash is stored in part.
Halfway(x) == pc[x] \notin {"ask", "load", "write"} /\ (pc[x] = "store" => setting = "roles")

\* A task ends with an exception.
Fails(x) ==
  /\ Goto(x, "ended")
  /\ hurt' = IF Halfway(x) THEN hurt \cup {x} ELSE hurt

-----------------------------------------------------------------------------
(* Lookups                                                                 *)

\* Which step a task begins with.
FirstStep(k) ==
  CASE k \in {"refresh"} -> "load"
    [] k \in {"write", "drop", "remove", "grant", "regrant"} -> "write"
    [] OTHER -> "ask"

\* A task about a name.  edit_permissions sees in access_roles whether the role
\* is there already.
Start(x, k, n) ==
  /\ pc[x] = "idle" /\ k \in Used \cap Kinds[setting]
  /\ k \in {"grant", "regrant"} => (k = "regrant" <=> n \in known)
  /\ k \in {"remove", "add", "drop", "grant", "regrant"} \/ n = item[x]
  /\ does' = [does EXCEPT ![x] = k]
  /\ item' = [item EXCEPT ![x] = n]
  /\ Goto(x, FirstStep(k))
  /\ UNCHANGED <<setting, store, known, seen, todo, restarts, hurt, lag, faults>>

\* Early returns: a server that is set up (where the code fails on a channel it
\* has not made), a snip that is there, a user who is blacklisted already.
FoundSetUp(x, s) == does[x] = "setup" /\ s # {}
FoundSnip(x, s) == does[x] = "add" /\ item[x] \in s
FoundUser(x, s) == does[x] = "ban" /\ s # {}

\* Or one who is not.
NotFound(x, s) == does[x] = "unban" /\ s = {}

\* What a task does once it knows the setting.
AfterRead(x, s) ==
  IF \/ does[x] \in {"read", "refresh"}
     \/ FoundSetUp(x, s) \/ FoundSnip(x, s) \/ FoundUser(x, s) \/ NotFound(x, s)
  THEN "ended"
  ELSE "write"

\* What a task does once the entry is stored after its change.
AfterReload(x) == IF does[x] = "toggle" THEN "ended" ELSE "tell"

\* redis.get: an empty list of snips is an entry, an empty hash is none.
Ask(x) ==
  LET answer == IF entry = None THEN {} ELSE entry IN
  /\ pc[x] = "ask"
  /\ IF entry # None \/ setting = "blacklist"
     THEN Goto(x, AfterRead(x, answer)) /\ seen' = [seen EXCEPT ![x] = answer]
     ELSE Goto(x, "load") /\ UNCHANGED seen
  /\ UNCHANGED <<setting, store, known, task, todo, restarts, hurt, lag, faults>>

\* The query.  When it finds no rows, only the snips are stored as a list.
Load(x) ==
  LET next == IF pc[x] = "load" THEN "store" ELSE "restore"
      done == IF pc[x] = "load" THEN AfterRead(x, rows) ELSE AfterReload(x) IN
  /\ pc[x] \in {"load", "reload"}
  /\ Goto(x, IF rows # {} \/ setting = "snips" THEN next ELSE done)
  /\ seen' = [seen EXCEPT ![x] = rows]
  /\ todo' = [todo EXCEPT ![x] = IF setting = "roles" THEN rows ELSE {}]
  /\ UNCHANGED <<setting, store, known, task, restarts, hurt, lag, faults>>

\* Faulty variant: redis.set without ex.
NoExpiry == FALSE

\* set_with_expiry gives the entry a time to live.
WithExpiry == TRUE

\* What follows the last call of a load.
Stored(x) == IF pc[x] \in {"store", "expire"} THEN AfterRead(x, seen[x]) ELSE AfterReload(x)

Store(x) ==
  /\ pc[x] \in {"store", "restore"} /\ setting # "roles"
  /\ entry' = seen[x]
  /\ ttl' = WithExpiry
  /\ lag' = (seen[x] # rows)
  /\ Goto(x, Stored(x))
  /\ UNCHANGED <<setting, rows, known, task, seen, todo, restarts, hurt, faults>>

\* The permissions are a hash, stored role by role: HSET, then EXPIRE.
StoreRole(x) ==
  /\ pc[x] \in {"store", "restore"} /\ setting = "roles"
  /\ \E r \in todo[x] :
       /\ entry' = IF entry = None THEN {r} ELSE entry \cup {r}
       /\ todo' = [todo EXCEPT ![x] = @ \ {r}]
  /\ Goto(x, IF pc[x] = "store" THEN "expire" ELSE "reexpire")
  /\ UNCHANGED <<setting, rows, ttl, known, task, seen, restarts, hurt, lag, faults>>

ExpireRoles(x) ==
  /\ pc[x] \in {"expire", "reexpire"}
  /\ ttl' = (entry # None)
  /\ Goto(x, IF todo[x] = {} THEN Stored(x)
             ELSE IF pc[x] = "expire" THEN "store" ELSE "restore")
  /\ UNCHANGED <<setting, rows, entry, known, task, seen, todo, restarts, hurt, lag, faults>>

-----------------------------------------------------------------------------
(* Commands                                                                *)

\* Whether there is a configuration, or a ticket type, at all.
Exist(rs) == rs \ (Tasks \cup {"on"}) # {}

Put(rs, i, yes) == IF yes THEN rs \cup {i} ELSE rs \ {i}

\* The rows after the statement of x.  An UPDATE changes the rows there are.
Effect(x, rs) ==
  CASE does[x] \in {"setup", "ban"} -> rs \cup {"row"}
    [] does[x] = "write" -> IF Exist(rs) THEN (rs \ Tasks) \cup {x} ELSE rs
    [] does[x] = "toggle" -> IF Exist(rs) THEN Put(rs, "on", "on" \notin seen[x]) ELSE rs
    [] does[x] = "ping" -> IF Exist(rs) THEN rs \cup {"on"} ELSE rs
    [] does[x] = "clear" -> rs \ {"on"}
    [] does[x] = "remove" -> IF Exist(rs \ {item[x]}) THEN rs \ {item[x]} ELSE {}
    [] does[x] \in {"add", "grant"} -> rs \cup {item[x]}
    [] does[x] = "drop" -> rs \ {item[x]}
    [] does[x] = "unban" -> {}
    [] OTHER -> rs

\* Statements MySQL refuses: an INSERT of a key that is there, IN () when no
\* types were found, and the UPDATE and DELETE of edit_permissions, which name
\* columns that the table does not have.  A toggle fails without a configuration.
Refused(x) ==
  \/ does[x] \in {"setup", "ban"} /\ "row" \in rows
  \/ does[x] \in {"add", "grant"} /\ item[x] \in rows
  \/ does[x] \in {"ping", "clear", "toggle"} /\ ~Exist(seen[x])
  \/ does[x] = "regrant"

\* Commands with a row and an entry of their own to change.
Paired == {"ban", "unban", "remove"}

\* Faulty variants: a greeting is not reloaded; the entry of a user who is
\* whitelisted stays; access_roles is not updated.
NoReload(x) == IF does[x] \in Paired THEN "redis" ELSE IF does[x] = "grant" THEN "select" ELSE "tell"
KeepsEntry(x) == IF does[x] = "unban" THEN "tell" ELSE IF does[x] = "ban" THEN "redis" ELSE "reload"
NoUpdate(x) == IF does[x] \in Paired THEN "redis" ELSE "reload"

\* Commands reload the setting; toggles say so first; setup and the clearing of
\* the ping roles do without.
AfterWrite(x) ==
  CASE does[x] \in {"write", "ping", "add", "drop"} -> "reload"
    [] does[x] \in {"toggle", "clear", "setup"} -> "tell"
    [] does[x] \in {"grant", "regrant"} -> "select"
    [] OTHER -> "redis"

\* execute_query, after its attempts: done, refused, or failed with the change
\* made or not.
Write(x) ==
  /\ pc[x] = "write"
  /\ \/ /\ Refused(x)
        /\ Fails(x)
        /\ UNCHANGED <<rows, lag, crossed>>
     \/ /\ ~Refused(x)
        /\ rows' = Effect(x, rows)
        /\ \/ Goto(x, AfterWrite(x)) /\ UNCHANGED hurt
           \/ "mysql" \in Failing /\ Goto(x, "ended") /\ hurt' = hurt \cup {x}
        /\ lag' = (lag \/ (does[x] = "clear" /\ entry # None))
        /\ crossed' = (crossed \/ \E y \in Tasks \ {x} : pc[y] = "redis")
     \/ /\ "mysql" \in Failing
        /\ Fails(x)
        /\ UNCHANGED <<rows, lag, crossed>>
  /\ UNCHANGED <<setting, entry, ttl, known, task, seen, todo, restarts, behind>>

\* The Redis half of a blacklisting.
SetEntry(x) ==
  /\ pc[x] = "redis" /\ does[x] \in {"ban", "unban"}
  /\ entry' = IF does[x] = "ban" THEN {"row"} ELSE None
  /\ Goto(x, "tell")
  /\ UNCHANGED <<setting, rows, ttl, known, task, seen, todo, restarts, hurt, lag, faults>>

\* hdel, after the removal of a type, fails on a key that is no hash: the entry
\* and the category stay.
HdelType(x) ==
  /\ pc[x] = "redis" /\ does[x] = "remove"
  /\ Goto(x, IF entry = None THEN "tell" ELSE "ended")
  /\ lag' = (lag \/ entry # None)
  /\ UNCHANGED <<setting, store, known, task, seen, todo, restarts, hurt, faults>>

\* update_cache(0): the query, and the assignment when its answer is there.
Select(x) ==
  /\ pc[x] = "select"
  /\ seen' = [seen EXCEPT ![x] = rows]
  /\ Goto(x, "assign")
  /\ UNCHANGED <<setting, store, known, task, todo, restarts, hurt, lag, faults>>

Assign(x) ==
  /\ pc[x] = "assign"
  /\ known' = seen[x]
  /\ behind' = (seen[x] # rows)
  /\ Goto(x, "reload")
  /\ UNCHANGED <<setting, store, task, seen, todo, restarts, hurt, lag, crossed>>

\* The success message; a toggle goes on to reload the configuration.
Tell(x) ==
  /\ pc[x] = "tell"
  /\ Goto(x, IF does[x] = "toggle" THEN "reload" ELSE "ended")
  /\ UNCHANGED <<setting, store, known, task, seen, todo, restarts, hurt, lag, faults>>

-----------------------------------------------------------------------------

\* A query, a call to Redis or a message fails.
Fault(x) ==
  /\ \/ "mysql" \in Failing /\ pc[x] \in {"load", "reload", "select"}
     \/ "redis" \in Failing /\ pc[x] \in {"ask", "store", "restore", "expire", "reexpire", "redis"}
     \/ "send" \in Failing /\ pc[x] = "tell"
  /\ Fails(x)
  /\ UNCHANGED <<setting, store, known, task, seen, todo, restarts, lag, faults>>

\* The time to live of an entry is over.  A hash that is being stored begins anew.
Expire ==
  /\ entry # None /\ ttl
  /\ entry' = None /\ ttl' = FALSE
  /\ lag' = (setting = "roles" /\ \E x \in Tasks : pc[x] \in {"store", "restore", "expire", "reexpire"})
  /\ UNCHANGED <<setting, rows, known, pc, task, seen, todo, restarts, hurt, faults>>

Running == {x \in Tasks : pc[x] \notin {"idle", "ended"}}

\* The bot ends and starts again, and loads access_roles.
Restart ==
  /\ restarts < MaxRestarts /\ Running # {}
  /\ restarts' = restarts + 1
  /\ pc' = [x \in Tasks |-> IF x \in Running THEN "ended" ELSE pc[x]]
  /\ hurt' = hurt \cup {x \in Running : Halfway(x)}
  /\ known' = IF setting = "roles" THEN rows ELSE {}
  /\ behind' = FALSE
  /\ UNCHANGED <<setting, store, task, seen, todo, lag, crossed>>

Step(x) ==
  Ask(x) \/ Load(x) \/ Store(x) \/ StoreRole(x) \/ ExpireRoles(x) \/ Write(x)
    \/ SetEntry(x) \/ HdelType(x) \/ Select(x) \/ Assign(x) \/ Tell(x)

Next ==
  \/ \E x \in Tasks : (\E k \in Used, n \in Names : Start(x, k, n)) \/ Step(x) \/ Fault(x)
  \/ Expire
  \/ Restart

Spec == Init /\ [][Next]_vars

\* Tasks go on, and time passes in Redis; nobody has to give a command.
Fairness == WF_vars(Expire) /\ \A x \in Tasks : WF_vars(Step(x))

FairSpec == Spec /\ Fairness

-----------------------------------------------------------------------------
(* Properties                                                              *)

Labels ==
  {"idle", "ask", "load", "store", "expire", "write", "redis", "select", "assign",
   "reload", "restore", "reexpire", "tell", "ended"}

\* Types; and an entry has a time to live when it is loaded as a whole, none when
\* it is a blacklisting.
TypeOK ==
  /\ setting \in Settings
  /\ rows \subseteq Items
  /\ entry \in (SUBSET Items) \cup {None}
  /\ ttl \in BOOLEAN
  /\ setting \notin {"roles", "blacklist"} => (ttl <=> entry # None)
  /\ setting = "blacklist" => ~ttl
  /\ known \subseteq Items
  /\ pc \in [Tasks -> Labels]
  /\ does \in [Tasks -> UNION {Kinds[s] : s \in Settings}]
  /\ item \in [Tasks -> Names]
  /\ seen \in [Tasks -> SUBSET Items]
  /\ todo \in [Tasks -> SUBSET Items]
  /\ hurt \subseteq Tasks
  /\ restarts \in Nat
  /\ {lag, behind, crossed} \subseteq BOOLEAN

Quiet == Running = {} /\ hurt = {}

\* When nothing is going on, Redis has what MySQL has or nothing - unless a load
\* was overtaken by a change, or a command failed, was +pingrole without roles,
\* or removed a type that was in Redis.
EntryFollows == setting \in Cached /\ Quiet /\ ~lag => entry \in {None, rows}

\* access_roles has the roles of the table when nothing is going on, unless two
\* updates assigned it in the wrong order.
RolesKnown == setting = "roles" /\ Quiet /\ ~behind => known = rows

\* A user has an entry in Redis, which decides, exactly when he has a row, which
\* +blacklist_view shows, unless two commands for him overlapped.
BlacklistAgrees == setting = "blacklist" /\ Quiet /\ ~crossed => (entry # None <=> rows # {})

\* An entry that is stale does not stay: the commands end and it expires, unless
\* a failure left a hash without its time to live.
StaleEnds ==
  setting \in Cached /\ entry \notin {None, rows} ~>
    entry \in {None, rows} \/ (setting = "roles" /\ ~ttl)
=============================================================================
