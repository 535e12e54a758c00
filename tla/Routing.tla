------------------------------ MODULE Routing ------------------------------
(***************************************************************************)
(* One user's way to a pool (src/vfs/hub.rs): the row of settings, created *)
(* by the first request, the hub's copy of it, the pool that an engine is  *)
(* built for, and the plan for the protected root that an engine resolves  *)
(* once (src/vfs/scoped/internal.rs).  Beside them an administrator, who   *)
(* changes or deletes the row and then drops the copy (the caller is not   *)
(* in this repository), and restarts, perhaps with another configuration.  *)
(***************************************************************************)
EXTENDS Integers, FiniteSets

CONSTANTS
    StoragePools,   \* names of the pools that are built
    HubConfigs,     \* configurations: [role, default, quota, mode], see below
    AdminChanges,   \* changes of one field: <<field, value>>
    UserRequests,   \* engines, each for one request
    KeyRequests,    \* requests for new S3 keys
    MaxAdminChanges, MaxHubRestarts, MaxHubFaults, \* bounds
    NoValue         \* no row, no setting

\* What the columns of a row may hold.
Asked(f) == {change[2] : change \in {c \in AdminChanges : c[1] = f}}
SettingsRows == [pool : StoragePools \cup Asked("pool"),
                 quota : {c.quota : c \in HubConfigs} \cup Asked("quota"),
                 mode : Asked("mode") \cup {NoValue},
                 keys : KeyRequests \cup {NoValue}, used : Nat]
ASSUME RoutingAssumption ==
    /\ \A change \in AdminChanges : change[1] \in {"pool", "quota", "mode"}
    /\ NoValue \notin StoragePools /\ NoValue \notin SettingsRows

VARIABLES
    hubConfig,  \* the role's pool and the default pool, the role's quota, the protected mode
    anyPool,    \* the first pool of the map, in the order of this process
    settings,   \* the row, or NoValue
    settingsCache, \* the copy of it, or NoValue
    routing,    \* [UserRequests -> local state]
    keyTask,    \* [KeyRequests -> local state]
    admin,      \* whether the copy has still to be dropped
    asked,      \* history: [fields -> what was last asked for, or NoValue]
    charged,    \* history: what was charged to this row
    home,       \* history: the pool of the user's files, or NoValue
    cacheBehind,\* history: the copy was read before a change and put in after it
    hubBounds
routeVars == <<hubConfig, anyPool, settings, settingsCache, routing, keyTask, admin,
               asked, charged, home, cacheBehind, hubBounds>>

Fields == {"pool", "quota", "mode", "keys"}
NewRouting == [pc |-> "new", seen |-> NoValue, quota |-> NoValue, behind |-> FALSE,
               pool |-> NoValue, plan |-> "unresolved", wrote |-> "nothing"]
RouteInit ==
    /\ hubConfig \in HubConfigs /\ anyPool \in StoragePools
    /\ settings = NoValue /\ settingsCache = NoValue
    /\ routing = [r \in UserRequests |-> NewRouting]
    /\ keyTask = [r \in KeyRequests |-> "new"]
    /\ admin = "idle" /\ asked = [f \in Fields |-> NoValue]
    /\ charged = 0 /\ home = NoValue /\ cacheBehind = FALSE
    /\ hubBounds = [changes |-> 0, restarts |-> 0, faults |-> 0]

HubFault == hubBounds.faults < MaxHubFaults /\ hubBounds' = [hubBounds EXCEPT !.faults = @ + 1]
Routes(r, pc) == routing[r].pc = pc
Gone == [NewRouting EXCEPT !.pc = "end"]
\* Requests that have read the row, or an engine that was built from it, are behind a change.
LeftBehind(rs) == [r \in UserRequests |->
    IF r \in rs /\ routing[r].pc \notin {"new", "read", "end"} THEN [routing[r] EXCEPT !.behind = TRUE] ELSE routing[r]]
UnchangedRow == UNCHANGED <<settings, asked, charged, home>>
UnchangedHub == UNCHANGED <<hubConfig, anyPool, keyTask, admin>>

-----------------------------------------------------------------------------
(* ensure_user_settings, and the engine                                     *)

FindSettings(r) ==
    /\ Routes(r, "new")
    /\ routing' = [routing EXCEPT ![r] =
         IF settingsCache # NoValue THEN [@ EXCEPT !.pc = "create", !.seen = settingsCache, !.behind = cacheBehind \/ admin = "changed"]
         ELSE [@ EXCEPT !.pc = "read"]]
    /\ UNCHANGED <<settingsCache, cacheBehind, hubBounds>> /\ UnchangedRow /\ UnchangedHub
ReadSettings(r) ==
    /\ Routes(r, "read")
    /\ \/ /\ routing' = [routing EXCEPT ![r].pc = IF settings = NoValue THEN "role" ELSE "insert", ![r].seen = settings]
          /\ UNCHANGED hubBounds
       \/ HubFault /\ routing' = [routing EXCEPT ![r] = Gone]
    /\ UNCHANGED <<settingsCache, cacheBehind>> /\ UnchangedRow /\ UnchangedHub
\* The role's row, or the policy when there is none.
ReadRoleQuota(r) ==
    /\ Routes(r, "role")
    /\ routing' = [routing EXCEPT ![r].pc = "upsert", ![r].quota = hubConfig.quota]
    /\ UNCHANGED <<settingsCache, cacheBehind, hubBounds>> /\ UnchangedRow /\ UnchangedHub
RouteByRole ==
    IF hubConfig.role \in StoragePools THEN hubConfig.role
    ELSE IF hubConfig.default \in StoragePools THEN hubConfig.default ELSE anyPool
\* On conflict only the pool, the directory and the quota are set.
NewSettings(quota) == [pool |-> RouteByRole, quota |-> quota, mode |-> NoValue, keys |-> NoValue, used |-> 0]
ReplaceRow(row, quota) == NewSettings(quota)
OnConflict(row, quota) == [row EXCEPT !.pool = RouteByRole, !.quota = quota]
UpsertSettings(r) ==
    /\ Routes(r, "upsert")
    /\ LET row == IF settings = NoValue THEN NewSettings(routing[r].quota)
                  ELSE OnConflict(settings, routing[r].quota)
       IN /\ settings' = row
          /\ routing' = [LeftBehind(UserRequests \ {r}) EXCEPT ![r].pc = "insert", ![r].seen = row,
                                          ![r].quota = NoValue, ![r].behind = FALSE]
          /\ charged' = IF settings = NoValue THEN 0 ELSE charged
          /\ cacheBehind' = (settingsCache # NoValue)
          \* an administrator's change between the read and here is undone
          /\ asked' = IF routing[r].behind THEN [asked EXCEPT !["pool"] = NoValue, !["quota"] = NoValue] ELSE asked
          /\ home' = IF routing[r].behind THEN NoValue ELSE home
    /\ UNCHANGED <<settingsCache, hubBounds>> /\ UnchangedHub
CacheSettings(r) ==
    /\ Routes(r, "insert")
    /\ settingsCache' = routing[r].seen /\ cacheBehind' = routing[r].behind
    /\ routing' = [routing EXCEPT ![r].pc = "create"]
    /\ UNCHANGED hubBounds /\ UnchangedRow /\ UnchangedHub
RoleAlone(row) == RouteByRole
PoolOf(row) == IF row.pool \in StoragePools THEN row.pool ELSE RouteByRole
CreateEngine(r) ==
    /\ Routes(r, "create")
    /\ routing' = [routing EXCEPT ![r].pc = "ready", ![r].pool = PoolOf(routing[r].seen), ![r].seen = NoValue]
    /\ UNCHANGED <<settingsCache, cacheBehind, hubBounds>> /\ UnchangedRow /\ UnchangedHub

-----------------------------------------------------------------------------
(* An engine: a write below the protected root, and its charge              *)

\* A plan that cannot be used is an error, and no plan is kept.
PlanOrPlain(mode) == IF mode = hubConfig.mode THEN mode ELSE "plain"
PlanFor(mode) == IF mode = hubConfig.mode THEN mode ELSE "unresolved"
ResolvePlan == IF settings = NoValue \/ settings.mode = NoValue THEN "plain" ELSE PlanFor(settings.mode)
WriteBelowRoot(r) ==
    /\ Routes(r, "ready")
    /\ LET plan == IF routing[r].plan = "unresolved" THEN ResolvePlan ELSE routing[r].plan IN
       IF plan = "unresolved" THEN routing' = [routing EXCEPT ![r] = Gone] /\ UNCHANGED home
       ELSE /\ routing' = [routing EXCEPT ![r].plan = plan, ![r].wrote = plan, ![r].pc = "charge"]
            /\ home' = IF routing[r].behind \/ settings = NoValue \/ settings.pool \notin StoragePools
                       THEN home ELSE routing[r].pool
    /\ UNCHANGED <<settings, asked, charged, settingsCache, cacheBehind, hubBounds>> /\ UnchangedHub
\* An update of no row is no error.
ChargeUser(r) ==
    /\ Routes(r, "charge")
    /\ routing' = [routing EXCEPT ![r].pc = "ready"]
    /\ charged < Cardinality(UserRequests)
    /\ IF settings = NoValue THEN UNCHANGED <<settings, charged>>
       ELSE settings' = [settings EXCEPT !.used = @ + 1] /\ charged' = charged + 1
    /\ UNCHANGED <<asked, home, settingsCache, cacheBehind, hubBounds>> /\ UnchangedHub
EndEngine(r) ==
    /\ Routes(r, "ready") /\ routing' = [routing EXCEPT ![r] = Gone]
    /\ UNCHANGED <<settingsCache, cacheBehind, hubBounds>> /\ UnchangedRow /\ UnchangedHub

-----------------------------------------------------------------------------
(* The administrator, new keys, restarts                                    *)

\* Only the columns of the patch are set.
Patched(row, f, v) == [row EXCEPT ![f] = v]
AdminChange ==
    /\ admin = "idle" /\ hubBounds.changes < MaxAdminChanges
    /\ \E change \in AdminChanges :
         LET f == change[1] v == change[2] IN
         /\ settings' = IF settings = NoValue THEN NoValue ELSE Patched(settings, f, v)
         /\ asked' = IF settings = NoValue THEN asked ELSE [asked EXCEPT ![f] = v]
         /\ home' = IF f = "pool" THEN NoValue ELSE home
    /\ admin' = "changed" /\ routing' = LeftBehind(UserRequests)
    /\ hubBounds' = [hubBounds EXCEPT !.changes = @ + 1]
    /\ UNCHANGED <<hubConfig, anyPool, settingsCache, keyTask, charged, cacheBehind>>
DeleteSettings ==
    /\ admin = "idle" /\ hubBounds.changes < MaxAdminChanges /\ settings # NoValue
    /\ settings' = NoValue /\ asked' = [f \in Fields |-> NoValue] /\ charged' = 0 /\ home' = NoValue
    /\ admin' = "changed" /\ routing' = LeftBehind(UserRequests)
    /\ hubBounds' = [hubBounds EXCEPT !.changes = @ + 1]
    /\ UNCHANGED <<hubConfig, anyPool, settingsCache, keyTask, cacheBehind>>
KeepCached == UNCHANGED settingsCache
DropCached == settingsCache' = NoValue
InvalidateSettings ==
    /\ admin = "changed" /\ admin' = "idle"
    /\ DropCached /\ cacheBehind' = FALSE
    /\ UNCHANGED <<hubConfig, anyPool, settings, routing, keyTask, asked, charged, home, hubBounds>>

FindKeyOwner(t) ==
    /\ keyTask[t] = "new"
    /\ keyTask' = [keyTask EXCEPT ![t] = IF settings = NoValue THEN "refused" ELSE "patch"]
    /\ UNCHANGED <<hubConfig, anyPool, settingsCache, routing, admin, cacheBehind, hubBounds>> /\ UnchangedRow
SetKeys(t) ==
    /\ keyTask[t] = "patch" /\ keyTask' = [keyTask EXCEPT ![t] = "answered"]
    /\ IF settings = NoValue THEN UNCHANGED <<settings, asked>>
       ELSE settings' = Patched(settings, "keys", t) /\ asked' = [asked EXCEPT !["keys"] = t]
    /\ UNCHANGED <<hubConfig, anyPool, settingsCache, routing, admin, charged, home, cacheBehind, hubBounds>>

RestartHub ==
    /\ hubBounds.restarts < MaxHubRestarts
    /\ hubBounds' = [hubBounds EXCEPT !.restarts = @ + 1]
    /\ hubConfig' \in HubConfigs /\ anyPool' \in StoragePools
    /\ settingsCache' = NoValue /\ cacheBehind' = FALSE
    /\ routing' = [r \in UserRequests |->
         IF Routes(r, "new") THEN routing[r] ELSE Gone]
    /\ keyTask' = [t \in KeyRequests |-> IF keyTask[t] = "patch" THEN "cut" ELSE keyTask[t]]
    /\ admin' = "idle"
    /\ UNCHANGED <<settings, asked, charged, home>>

RouteStep(r) ==
    \/ FindSettings(r) \/ ReadSettings(r) \/ ReadRoleQuota(r) \/ UpsertSettings(r) \/ CacheSettings(r)
    \/ CreateEngine(r) \/ WriteBelowRoot(r) \/ ChargeUser(r) \/ EndEngine(r)
RouteNext ==
    \/ \E r \in UserRequests : RouteStep(r)
    \/ \E t \in KeyRequests : FindKeyOwner(t) \/ SetKeys(t)
    \/ AdminChange \/ DeleteSettings \/ InvalidateSettings \/ RestartHub
RouteSpec == RouteInit /\ [][RouteNext]_routeVars

-----------------------------------------------------------------------------
(* Properties                                                               *)

\* What was charged to a row is still charged, and what was asked for last, field by
\* field, is in it: neither another change nor a request that creates the settings once
\* more undoes it, unless that request had looked for the row before the change.
SettingsSurvive ==
    settings # NoValue =>
        /\ settings.used = charged
        /\ \A g \in Fields : asked[g] # NoValue => settings[g] = asked[g]

\* The hub's copy routes as the row does, once a change has been followed by its
\* invalidation; except when it was read before a change and put in after it.
CacheFollowsRow ==
    settingsCache # NoValue /\ ~cacheBehind /\ admin = "idle" =>
        settings # NoValue /\ \A f \in Fields \ {"keys"} : settingsCache[f] = settings[f]

\* A user's files go to one pool until an administrator moves the user, whatever the
\* configuration says of the role after a restart; engines built from stale settings,
\* and rows that name no pool, are left out.
FilesStayInOnePool == [][home # NoValue /\ home' # NoValue => home' = home]_routeVars

\* An engine that has no plan yet never writes plain below a root that is protected.
NeverPlain ==
    [][\A r \in UserRequests :
         Routes(r, "ready") /\ routing'[r].pc = "charge" /\ routing[r].plan = "unresolved"
         /\ settings # NoValue /\ settings.mode # NoValue => routing'[r].wrote = settings.mode]_routeVars
=============================================================================
