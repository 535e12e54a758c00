---------------------------- MODULE RoutingProofs ----------------------------
(***************************************************************************)
(* A user's settings, the hub's copy of them and the pool of the user's    *)
(* files (Routing), and what the user stores there, what the index says of *)
(* it and what is charged (Usage): for every number of requests,           *)
(* administrator's changes, failures and restarts, and whatever the pools, *)
(* configurations, files and sizes.                                        *)
(***************************************************************************)
EXTENDS Storage, Sums

\* The parts of Storage share nothing: a step either is one of the hub's or leaves the
\* hub alone.
LEMMA RouteSteps == [Next]_storageVars => RouteMoves \/ UNCHANGED routeVars
    BY DEF Next, storageVars, ReadsMoves, UsageMoves, BinMoves, PoolMoves, VaultMoves, ConfigMoves, ThumbsMoves,
           RenderMoves, VideosMoves, BatchesMoves, MountsMoves, BesideReads, BesideUsage, BesideBin, BesidePool,
           BesideVault, BesideConfig, BesideThumbs, BesideRender, BesideVideos, BesideBatches, BesideMounts

LEMMA RouteActions == RouteMoves => RouteNext
    BY DEF RouteMoves, RouteNext, RouteStep

-----------------------------------------------------------------------------
(* Types                                                                    *)

Plans == Asked("mode") \cup {NoValue, "unresolved", "plain", "nothing"}
EnginePCs == {"new", "read", "role", "upsert", "insert", "create", "ready", "charge", "end"}
EngineState == [pc : EnginePCs, seen : SettingsRows \cup {NoValue},
                quota : {c.quota : c \in HubConfigs} \cup {NoValue},
                behind : BOOLEAN, pool : StoragePools \cup {NoValue}, plan : Plans, wrote : Plans]

RouteTypes ==
    /\ hubConfig \in HubConfigs /\ anyPool \in StoragePools
    /\ settings \in SettingsRows \cup {NoValue}
    /\ settingsCache \in SettingsRows \cup {NoValue}
    /\ routing \in [UserRequests -> EngineState]
    /\ admin \in {"idle", "changed"} /\ cacheBehind \in BOOLEAN
    /\ DOMAIN asked = Fields /\ charged \in Nat

-----------------------------------------------------------------------------
(* The inductive invariant                                                  *)

Given(x) == x # NoValue

\* Two rows say the same of all but what was charged and the keys.
Fits(this, other) == \A f \in Fields \ {"keys"} : this[f] = other[f]

\* Nothing is asked of a row, or kept for it, that is not there.
RowsAsked == ~Given(settings) => asked = [f \in Fields |-> NoValue] /\ ~Given(home)

\* What a request that is not behind has seen is how the settings are.
SeenInv ==
    \A r \in UserRequests : LET me == routing[r] IN
        /\ me.pc \in {"new", "read"} => ~me.behind
        /\ me.pc = "upsert" => me.quota \in {c.quota : c \in HubConfigs}
        /\ me.pc \in {"insert", "create"} => Given(me.seen)
        /\ ~me.behind =>
            /\ me.pc \in {"role", "upsert"} => ~Given(settings)
            /\ me.pc \in {"insert", "create"} => Given(settings) /\ Fits(me.seen, settings)
            /\ me.pc \in {"ready", "charge"} =>
                   Given(settings) /\ (settings.pool \in StoragePools => me.pool = settings.pool)

\* The user's files are where the settings say.
HomeInv == Given(home) => Given(settings) /\ home \in StoragePools
                        /\ (settings.pool \in StoragePools => home = settings.pool)

RouteInv == RouteTypes /\ RowsAsked /\ SeenInv /\ HomeInv /\ SettingsSurvive /\ CacheFollowsRow

-----------------------------------------------------------------------------
(* The proof                                                                *)

LEMMA NoValueApart == NoValue \notin SettingsRows /\ NoValue \notin StoragePools
    BY RoutingAssumption

LEMMA RoutesToPool == ASSUME RouteTypes PROVE RouteByRole \in StoragePools /\ \A x : PoolOf(x) \in StoragePools
    BY DEF RouteTypes, RouteByRole, PoolOf

\* Whoever has read the row falls behind; nothing else changes.
LEMMA Behind ==
    ASSUME RouteTypes, NEW rs \in SUBSET UserRequests
    PROVE /\ LeftBehind(rs) \in [UserRequests -> EngineState]
          /\ \A r \in UserRequests : LET left == LeftBehind(rs)[r] IN
                /\ left.pc = routing[r].pc /\ left.seen = routing[r].seen /\ left.quota = routing[r].quota
                /\ left.pool = routing[r].pool /\ left.plan = routing[r].plan /\ left.wrote = routing[r].wrote
                /\ left.behind = (routing[r].behind \/ (r \in rs /\ routing[r].pc \notin {"new", "read", "end"}))
<1> SUFFICES ASSUME NEW r \in UserRequests
             PROVE LET left == LeftBehind(rs)[r] IN
                /\ left \in EngineState
                /\ left.pc = routing[r].pc /\ left.seen = routing[r].seen /\ left.quota = routing[r].quota
                /\ left.pool = routing[r].pool /\ left.plan = routing[r].plan /\ left.wrote = routing[r].wrote
                /\ left.behind = (routing[r].behind \/ (r \in rs /\ routing[r].pc \notin {"new", "read", "end"}))
    BY DEF LeftBehind
<1>1. routing[r] \in EngineState
    BY DEF RouteTypes
<1> QED
    BY <1>1 DEF LeftBehind, EngineState

\* A change of the settings after which every request that had read them is behind.
LEMMA AllBehind ==
    ASSUME RouteInv, routing' = LeftBehind(UserRequests) PROVE SeenInv'
<1>1. \A r \in UserRequests : LET me == routing'[r] IN
        /\ me.pc = routing[r].pc /\ me.seen = routing[r].seen /\ me.quota = routing[r].quota
        /\ ~me.behind => me.pc \in {"new", "read", "end"}
        /\ me.pc \in {"new", "read"} => me.behind = routing[r].behind
  <2>1. RouteTypes /\ UserRequests \in SUBSET UserRequests
    BY DEF RouteInv
  <2>2. \A r \in UserRequests : routing[r] \in EngineState
    BY <2>1 DEF RouteTypes
  <2> QED
    BY <2>1, <2>2, Behind DEF EngineState, EnginePCs
<1> QED
    BY <1>1 DEF RouteInv, SeenInv

LEMMA RouteInit1 == Init => RouteInv
<1> SUFFICES ASSUME RouteInit PROVE RouteInv
    BY DEF Init
<1>1. NewRouting \in EngineState
    BY DEF NewRouting, EngineState, EnginePCs, Plans
<1> QED
    BY <1>1 DEF RouteInit, RouteInv, RouteTypes, RowsAsked, SeenInv, HomeInv, SettingsSurvive, CacheFollowsRow,
                Given, NewRouting, Fields

LEMMA GoneTypes == Gone \in EngineState /\ Gone.pc = "end"
    BY DEF Gone, NewRouting, EngineState, EnginePCs, Plans

\* A request's own steps that leave the row, the copy and the user's files alone.
LEMMA SameSettings ==
    ASSUME RouteInv, UNCHANGED <<hubConfig, anyPool, settings, settingsCache, admin, cacheBehind, asked, charged, home>>,
           routing' \in [UserRequests -> EngineState], SeenInv'
    PROVE RouteInv'
    BY DEF RouteInv, RouteTypes, RowsAsked, HomeInv, SettingsSurvive, CacheFollowsRow, Given

LEMMA EngineSteps ==
    ASSUME RouteInv, NEW r \in UserRequests,
           FindSettings(r) \/ ReadSettings(r) \/ ReadRoleQuota(r) \/ CreateEngine(r) \/ EndEngine(r)
    PROVE RouteInv'
<1> USE DEF RouteInv, UnchangedRow, UnchangedHub
<1>1. UNCHANGED <<hubConfig, anyPool, settings, settingsCache, admin, cacheBehind, asked, charged, home>>
    BY DEF FindSettings, ReadSettings, ReadRoleQuota, CreateEngine, EndEngine
<1>2. routing[r] \in EngineState
    BY DEF RouteTypes
<1>3. PICK me \in EngineState :
         /\ routing' = [routing EXCEPT ![r] = me]
         /\ me.pc \in {"new", "read"} => ~me.behind
         /\ me.pc = "upsert" => me.quota \in {c.quota : c \in HubConfigs}
         /\ me.pc \in {"insert", "create"} => Given(me.seen)
         /\ ~me.behind =>
             /\ me.pc \in {"role", "upsert"} => ~Given(settings)
             /\ me.pc \in {"insert", "create"} => Given(settings) /\ Fits(me.seen, settings)
             /\ me.pc \in {"ready", "charge"} =>
                    Given(settings) /\ (settings.pool \in StoragePools => me.pool = settings.pool)
  <2>1. CASE FindSettings(r)
    <3>1. CASE settingsCache # NoValue
      <4> DEFINE me == [routing[r] EXCEPT !.pc = "create", !.seen = settingsCache, !.behind = cacheBehind \/ admin = "changed"]
      <4>1. routing' = [routing EXCEPT ![r] = me]
        BY <1>2, <2>1, <3>1 DEF FindSettings, EngineState, RouteTypes
      <4>2. me \in EngineState /\ me.pc = "create" /\ me.seen = settingsCache
            /\ me.behind = (cacheBehind \/ admin = "changed")
        BY <1>2 DEF EngineState, EnginePCs, RouteTypes
      <4>3. ~me.behind => Given(settings) /\ Fits(me.seen, settings)
        BY <3>1, <4>2 DEF CacheFollowsRow, RouteTypes, Given, Fits
      <4> HIDE DEF me
      <4> QED
        BY <3>1, <4>1, <4>2, <4>3 DEF Given
    <3>2. CASE settingsCache = NoValue
      <4> DEFINE me == [routing[r] EXCEPT !.pc = "read"]
      <4>1. routing' = [routing EXCEPT ![r] = me]
        BY <1>2, <2>1, <3>2 DEF FindSettings, EngineState, RouteTypes
      <4>2. me \in EngineState /\ me.pc = "read" /\ me.behind = routing[r].behind
        BY <1>2 DEF EngineState, EnginePCs, RouteTypes
      <4>3. ~routing[r].behind
        BY <2>1 DEF FindSettings, Routes, SeenInv
      <4> HIDE DEF me
      <4> QED
        BY <4>1, <4>2, <4>3
    <3> QED
      BY <3>1, <3>2
  <2>2. CASE ReadSettings(r)
    <3>1. CASE routing' = [routing EXCEPT ![r] = Gone]
      BY <1>2, <3>1, GoneTypes
    <3>2. CASE ~(routing' = [routing EXCEPT ![r] = Gone])
      <4> DEFINE me == [routing[r] EXCEPT !.pc = IF settings = NoValue THEN "role" ELSE "insert", !.seen = settings]
      <4>1. routing' = [routing EXCEPT ![r] = me]
        BY <1>2, <2>2, <3>2 DEF ReadSettings, EngineState, RouteTypes
      <4>2. me \in EngineState /\ ~me.behind /\ me.seen = settings
            /\ me.pc = IF settings = NoValue THEN "role" ELSE "insert"
        BY <1>2, <2>2 DEF ReadSettings, Routes, EngineState, EnginePCs, RouteTypes, SeenInv
      <4>3. settings # NoValue => Fits(me.seen, settings)
        BY <4>2 DEF Fits
      <4> HIDE DEF me
      <4> QED
        BY <4>1, <4>2, <4>3 DEF Given
    <3> QED
      BY <3>1, <3>2
  <2>3. CASE ReadRoleQuota(r)
    <3> DEFINE me == [routing[r] EXCEPT !.pc = "upsert", !.quota = hubConfig.quota]
    <3>1. routing' = [routing EXCEPT ![r] = me]
      BY <1>2, <2>3 DEF ReadRoleQuota, EngineState, RouteTypes
    <3>2. me \in EngineState /\ me.pc = "upsert" /\ me.behind = routing[r].behind /\ me.quota = hubConfig.quota
      BY <1>2, <2>3 DEF EngineState, EnginePCs, RouteTypes
    <3>3. me.quota \in {c.quota : c \in HubConfigs}
      BY <3>2 DEF RouteTypes
    <3>4. ~me.behind => ~Given(settings)
      BY <3>2, <2>3 DEF ReadRoleQuota, Routes, SeenInv
    <3> QED
      BY <3>1, <3>2, <3>3, <3>4
  <2>4. CASE CreateEngine(r)
    <3> DEFINE me == [routing[r] EXCEPT !.pc = "ready", !.pool = PoolOf(routing[r].seen), !.seen = NoValue]
    <3>1. routing' = [routing EXCEPT ![r] = me]
      BY <1>2, <2>4 DEF CreateEngine, EngineState, RouteTypes
    <3>2. me \in EngineState /\ me.pc = "ready" /\ me.behind = routing[r].behind /\ me.pool = PoolOf(routing[r].seen)
      BY <1>2, RoutesToPool DEF EngineState, EnginePCs, RouteTypes
    <3>3. ~me.behind => Given(settings) /\ routing[r].seen.pool = settings.pool
      BY <3>2, <2>4 DEF CreateEngine, Routes, SeenInv, Fits, Fields
    <3>4. ~me.behind => Given(settings) /\ (settings.pool \in StoragePools => me.pool = settings.pool)
      BY <3>2, <3>3 DEF PoolOf
    <3> QED
      BY <3>1, <3>2, <3>4
  <2>5. CASE EndEngine(r)
    BY <1>2, <2>5, GoneTypes DEF EndEngine
  <2> QED BY <2>1, <2>2, <2>3, <2>4, <2>5
<1>4. routing' \in [UserRequests -> EngineState]
    BY <1>3 DEF RouteTypes
<1>5. SeenInv'
    BY <1>1, <1>3 DEF SeenInv, RouteTypes, Given, Fits
<1> QED
    BY <1>1, <1>4, <1>5, SameSettings

-----------------------------------------------------------------------------
(* Steps that change the row, the copy or where the files are               *)

\* The rows that the requests write, column by column.
LEMMA UpsertRows ==
    ASSUME RouteTypes, NEW quota \in {c.quota : c \in HubConfigs}
    PROVE /\ NewSettings(quota) \in SettingsRows /\ NewSettings(quota).used = 0
          /\ \A old \in SettingsRows : LET new == OnConflict(old, quota) IN
                new \in SettingsRows /\ new.used = old.used /\ new.mode = old.mode /\ new.keys = old.keys
<1>1. RouteByRole \in StoragePools
    BY RoutesToPool
<1> QED
    BY <1>1 DEF NewSettings, OnConflict, SettingsRows

\* A change of one column leaves the others as they are.
LEMMA PatchedRows ==
    ASSUME NEW old \in SettingsRows, NEW f \in Fields, NEW v,
           f = "keys" => v \in KeyRequests, f # "keys" => v \in Asked(f)
    PROVE /\ Patched(old, f, v) \in SettingsRows /\ Patched(old, f, v).used = old.used
          /\ Patched(old, f, v)[f] = v
          /\ \A g \in Fields \ {f} : Patched(old, f, v)[g] = old[g]
    BY DEF Patched, SettingsRows, Fields

\* Requests of whom one has moved on, while the row routes as it did.
LEMMA OneMoves ==
    ASSUME RouteInv, NEW r \in UserRequests, NEW me \in EngineState, routing' = [routing EXCEPT ![r] = me],
           settings' = settings,
           me.pc \notin {"new", "read", "upsert", "role"},
           me.pc \in {"insert", "create"} => Given(me.seen),
           ~me.behind /\ me.pc \in {"insert", "create"} => Given(settings) /\ Fits(me.seen, settings),
           ~me.behind /\ me.pc \in {"ready", "charge"} =>
               Given(settings) /\ (settings.pool \in StoragePools => me.pool = settings.pool)
    PROVE routing' \in [UserRequests -> EngineState] /\ SeenInv'
    BY DEF RouteInv, RouteTypes, SeenInv, Given, Fits

\* Requests that have not moved, while the row has changed in its keys and charges alone.
LEMMA RowRoutesTheSame ==
    ASSUME RouteInv, NEW new \in SettingsRows, Given(settings), settings' = new, Fits(new, settings),
           \A r \in UserRequests : /\ routing'[r] \in EngineState
               /\ routing'[r].seen = routing[r].seen /\ routing'[r].behind = routing[r].behind
               /\ routing'[r].pool = routing[r].pool /\ routing'[r].quota = routing[r].quota
               /\ \/ routing'[r].pc = routing[r].pc
                  \/ routing[r].pc = "charge" /\ routing'[r].pc = "ready"
    PROVE SeenInv' /\ Given(settings')
<1>1. Given(settings') /\ new.pool = settings.pool
    BY NoValueApart DEF Given, Fits, Fields
<1>2. \A x : Fits(x, settings) => Fits(x, settings')
    BY DEF Fits
<1>3. ASSUME NEW r \in UserRequests
      PROVE LET me == routing'[r] IN
        /\ me.pc \in {"new", "read"} => ~me.behind
        /\ me.pc = "upsert" => me.quota \in {c.quota : c \in HubConfigs}
        /\ me.pc \in {"insert", "create"} => Given(me.seen)
        /\ ~me.behind =>
            /\ me.pc \in {"role", "upsert"} => ~Given(settings')
            /\ me.pc \in {"insert", "create"} => Given(settings') /\ Fits(me.seen, settings')
            /\ me.pc \in {"ready", "charge"} =>
                   Given(settings') /\ (settings'.pool \in StoragePools => me.pool = settings'.pool)
    BY <1>1, <1>2, <1>3 DEF RouteInv, SeenInv
<1> QED
    BY <1>1, <1>3 DEF SeenInv

\* The request that creates the settings: whoever had read them before is behind.
LEMMA UpsertStep == ASSUME RouteInv, NEW r \in UserRequests, UpsertSettings(r) PROVE RouteInv'
<1> DEFINE quota == routing[r].quota
           new == IF settings = NoValue THEN NewSettings(quota) ELSE OnConflict(settings, quota)
           left == LeftBehind(UserRequests \ {r})
           me == [left[r] EXCEPT !.pc = "insert", !.seen = new, !.quota = NoValue, !.behind = FALSE]
<1>1. /\ RouteTypes /\ routing[r] \in EngineState /\ routing[r].pc = "upsert" /\ quota \in {c.quota : c \in HubConfigs}
      /\ ~routing[r].behind => settings = NoValue
    BY DEF RouteInv, RouteTypes, SeenInv, UpsertSettings, Routes, Given
<1>2. /\ new \in SettingsRows /\ Given(new) /\ (settings = NoValue => new.used = 0)
      /\ settings # NoValue => new.used = settings.used /\ new.mode = settings.mode /\ new.keys = settings.keys
  <2>1. new \in SettingsRows /\ (settings = NoValue => new.used = 0)
        /\ (settings # NoValue => new.used = settings.used /\ new.mode = settings.mode /\ new.keys = settings.keys)
    BY <1>1, UpsertRows DEF RouteTypes
  <2> QED
    BY <2>1, NoValueApart DEF Given
<1> HIDE DEF new
<1>3. /\ settings' = new /\ UNCHANGED <<hubConfig, anyPool, settingsCache, admin>>
      /\ routing' = [left EXCEPT ![r] = me]
      /\ cacheBehind' = (settingsCache # NoValue)
      /\ charged' = IF settings = NoValue THEN 0 ELSE charged
      /\ asked' = IF routing[r].behind THEN [asked EXCEPT !["pool"] = NoValue, !["quota"] = NoValue] ELSE asked
      /\ home' = IF routing[r].behind THEN NoValue ELSE home
  <2>1. left \in [UserRequests -> EngineState]
    BY <1>1, Behind
  <2> QED
    BY <2>1 DEF UpsertSettings, UnchangedHub, new, EngineState
<1>4. /\ left \in [UserRequests -> EngineState]
      /\ \A o \in UserRequests :
            /\ left[o].pc = routing[o].pc /\ left[o].seen = routing[o].seen /\ left[o].quota = routing[o].quota
            /\ o # r /\ ~left[o].behind => left[o].pc \in {"new", "read", "end"}
            /\ o # r /\ left[o].pc \in {"new", "read"} => left[o].behind = routing[o].behind
  <2>1. UserRequests \ {r} \in SUBSET UserRequests /\ \A o \in UserRequests : routing[o] \in EngineState
    BY <1>1 DEF RouteTypes
  <2> QED
    BY <1>1, <2>1, Behind DEF EngineState, EnginePCs
<1>5. me \in EngineState /\ me.pc = "insert" /\ me.seen = new /\ ~me.behind
    BY <1>2, <1>4 DEF EngineState, EnginePCs
<1> HIDE DEF left, me, quota
<1>6. routing' \in [UserRequests -> EngineState] /\ routing'[r] = me
      /\ \A o \in UserRequests \ {r} : routing'[o] = left[o]
    BY <1>3, <1>4, <1>5
<1>7. DOMAIN asked = Fields /\ RowsAsked /\ HomeInv /\ SettingsSurvive
    BY <1>1 DEF RouteInv, RouteTypes
<1>8. RouteTypes'
    BY <1>1, <1>2, <1>3, <1>6 DEF RouteTypes
<1>9. RowsAsked' /\ HomeInv'
    BY <1>1, <1>2, <1>3, <1>7 DEF RowsAsked, HomeInv, Given
<1>10. SettingsSurvive'
    BY <1>1, <1>2, <1>3, <1>7 DEF SettingsSurvive, RowsAsked, Given, Fields
<1>11. CacheFollowsRow'
    BY <1>3 DEF CacheFollowsRow
<1>12. SeenInv'
  <2>1. ASSUME NEW o \in UserRequests, o # r
        PROVE /\ routing'[o].pc \in {"new", "read"} => ~routing'[o].behind
              /\ routing'[o].pc = "upsert" => routing'[o].quota \in {c.quota : c \in HubConfigs}
              /\ routing'[o].pc \in {"insert", "create"} => Given(routing'[o].seen)
              /\ ~routing'[o].behind => routing'[o].pc \in {"new", "read", "end"}
    BY <1>4, <1>6, <2>1 DEF RouteInv, SeenInv
  <2>2. Given(settings') /\ Fits(me.seen, settings')
    BY <1>2, <1>3, <1>5 DEF Given, Fits
  <2> QED
    BY <1>2, <1>5, <1>6, <2>1, <2>2 DEF SeenInv
<1> QED
    BY <1>8, <1>9, <1>10, <1>11, <1>12 DEF RouteInv

\* What a request puts into the copy is the row, or was read before a change.
LEMMA CacheStep == ASSUME RouteInv, NEW r \in UserRequests, CacheSettings(r) PROVE RouteInv'
<1> DEFINE me == [routing[r] EXCEPT !.pc = "create"]
<1>1. /\ RouteTypes /\ routing[r] \in EngineState /\ routing[r].pc = "insert" /\ Given(routing[r].seen)
      /\ ~routing[r].behind => Given(settings) /\ Fits(routing[r].seen, settings)
    BY DEF RouteInv, RouteTypes, SeenInv, CacheSettings, Routes
<1>2. routing' = [routing EXCEPT ![r] = me]
    BY <1>1 DEF CacheSettings, RouteTypes, EngineState
<1>3. me \in EngineState /\ me.pc = "create" /\ me.seen = routing[r].seen /\ me.behind = routing[r].behind
    BY <1>1 DEF EngineState, EnginePCs
<1> HIDE DEF me
<1>4. /\ settings' = settings /\ settingsCache' = routing[r].seen /\ cacheBehind' = routing[r].behind
      /\ UNCHANGED <<hubConfig, anyPool, admin, asked, charged, home>>
    BY DEF CacheSettings, UnchangedRow, UnchangedHub
<1>5. routing' \in [UserRequests -> EngineState] /\ SeenInv'
    BY <1>1, <1>2, <1>3, <1>4, OneMoves
<1>6. CacheFollowsRow'
    BY <1>1, <1>4 DEF CacheFollowsRow, Given, Fits
<1>7. RouteTypes'
    BY <1>1, <1>4, <1>5 DEF RouteTypes, EngineState
<1> QED
    BY <1>4, <1>5, <1>6, <1>7 DEF RouteInv, RowsAsked, HomeInv, SettingsSurvive, Given

\* The first write resolves the plan, and finds the user's files where they are.
LEMMA WriteStep == ASSUME RouteInv, NEW r \in UserRequests, WriteBelowRoot(r) PROVE RouteInv'
<1> DEFINE plan == IF routing[r].plan = "unresolved" THEN ResolvePlan ELSE routing[r].plan
           me == [routing[r] EXCEPT !.plan = plan, !.wrote = plan, !.pc = "charge"]
<1>1. /\ RouteTypes /\ routing[r] \in EngineState /\ routing[r].pc = "ready"
      /\ ~routing[r].behind => Given(settings) /\ (settings.pool \in StoragePools => routing[r].pool = settings.pool)
    BY DEF RouteInv, RouteTypes, SeenInv, WriteBelowRoot, Routes
<1>2. plan \in Plans
    BY <1>1 DEF RouteTypes, EngineState, Plans, ResolvePlan, PlanFor, SettingsRows
<1>3. UNCHANGED <<hubConfig, anyPool, settings, settingsCache, admin, cacheBehind, asked, charged>>
    BY DEF WriteBelowRoot, UnchangedHub
<1>4. CASE plan = "unresolved"
  <2>1. routing' = [routing EXCEPT ![r] = Gone] /\ home' = home
    BY <1>4 DEF WriteBelowRoot
  <2>2. routing' \in [UserRequests -> EngineState] /\ SeenInv'
    BY <1>3, <2>1, GoneTypes, OneMoves
  <2> QED
    BY <1>3, <2>1, <2>2, SameSettings
<1>5. CASE plan # "unresolved"
  <2>1. /\ routing' = [routing EXCEPT ![r] = me]
        /\ home' = IF routing[r].behind \/ settings = NoValue \/ settings.pool \notin StoragePools
                   THEN home ELSE routing[r].pool
    BY <1>1, <1>5 DEF WriteBelowRoot, RouteTypes, EngineState
  <2>2. me \in EngineState /\ me.pc = "charge" /\ me.behind = routing[r].behind /\ me.pool = routing[r].pool
    BY <1>1, <1>2 DEF EngineState, EnginePCs
  <2> HIDE DEF me
  <2>3. routing' \in [UserRequests -> EngineState] /\ SeenInv'
    BY <1>1, <1>3, <2>1, <2>2, OneMoves
  <2>4. HomeInv' /\ RowsAsked'
    BY <1>1, <1>3, <2>1 DEF RouteInv, HomeInv, RowsAsked, Given
  <2>5. RouteTypes'
    BY <1>1, <1>3, <2>3 DEF RouteTypes
  <2> QED
    BY <1>3, <2>3, <2>4, <2>5 DEF RouteInv, SettingsSurvive, CacheFollowsRow
<1> QED
    BY <1>4, <1>5

\* A charge goes to the row that is there, and changes nothing a request routes by.
LEMMA ChargeStep == ASSUME RouteInv, NEW r \in UserRequests, ChargeUser(r) PROVE RouteInv'
<1> DEFINE me == [routing[r] EXCEPT !.pc = "ready"]
<1>1. /\ RouteTypes /\ routing[r] \in EngineState /\ routing[r].pc = "charge"
      /\ ~routing[r].behind => Given(settings) /\ (settings.pool \in StoragePools => routing[r].pool = settings.pool)
    BY DEF RouteInv, RouteTypes, SeenInv, ChargeUser, Routes
<1>2. /\ routing' = [routing EXCEPT ![r] = me]
      /\ UNCHANGED <<hubConfig, anyPool, settingsCache, admin, cacheBehind, asked, home>>
    BY <1>1 DEF ChargeUser, UnchangedHub, RouteTypes, EngineState
<1>3. /\ me \in EngineState /\ me.pc = "ready" /\ me.behind = routing[r].behind /\ me.pool = routing[r].pool
      /\ me.seen = routing[r].seen /\ me.quota = routing[r].quota
    BY <1>1 DEF EngineState, EnginePCs
<1> HIDE DEF me
<1>4. CASE settings = NoValue
  <2>1. settings' = settings /\ charged' = charged
    BY <1>4 DEF ChargeUser
  <2>2. routing' \in [UserRequests -> EngineState] /\ SeenInv'
    BY <1>1, <1>2, <1>3, <2>1, OneMoves
  <2> QED
    BY <1>2, <2>1, <2>2, SameSettings
<1>5. CASE settings # NoValue
  <2> DEFINE new == [settings EXCEPT !.used = @ + 1]
  <2>1. settings' = new /\ charged' = charged + 1
    BY <1>5 DEF ChargeUser
  <2>2. /\ new \in SettingsRows /\ new.used = settings.used + 1 /\ Fits(new, settings)
        /\ \A g \in Fields : new[g] = settings[g]
    BY <1>1, <1>5 DEF RouteTypes, SettingsRows, Fits, Fields
  <2> HIDE DEF new
  <2>3. routing' \in [UserRequests -> EngineState]
    BY <1>1, <1>2, <1>3 DEF RouteTypes
  <2>4. SeenInv' /\ Given(settings')
    <3>1. \A o \in UserRequests : /\ routing'[o] \in EngineState
               /\ routing'[o].seen = routing[o].seen /\ routing'[o].behind = routing[o].behind
               /\ routing'[o].pool = routing[o].pool /\ routing'[o].quota = routing[o].quota
               /\ \/ routing'[o].pc = routing[o].pc
                  \/ routing[o].pc = "charge" /\ routing'[o].pc = "ready"
      BY <1>1, <1>2, <1>3, <2>3 DEF RouteTypes
    <3> QED
      BY <1>5, <2>1, <2>2, <3>1, RowRoutesTheSame DEF Given
  <2>5. RouteTypes'
    BY <1>1, <1>2, <2>1, <2>2, <2>3 DEF RouteTypes
  <2>6. RowsAsked' /\ HomeInv'
    BY <1>2, <1>5, <2>1, <2>2, <2>4 DEF RouteInv, RowsAsked, HomeInv, Given, Fields
  <2>7. SettingsSurvive' /\ CacheFollowsRow'
    BY <1>1, <1>2, <1>5, <2>1, <2>2, <2>4 DEF RouteInv, RouteTypes, SettingsSurvive, CacheFollowsRow, Given, Fits
  <2> QED
    BY <2>4, <2>5, <2>6, <2>7 DEF RouteInv
<1> QED
    BY <1>4, <1>5

\* The administrator changes or deletes the row: every request is behind, the copy may be.
LEMMA AdminSteps == ASSUME RouteInv, AdminChange \/ DeleteSettings PROVE RouteInv'
<1>1. /\ RouteTypes /\ routing' = LeftBehind(UserRequests) /\ admin' = "changed"
      /\ UNCHANGED <<hubConfig, anyPool, settingsCache, cacheBehind>>
    BY DEF RouteInv, AdminChange, DeleteSettings
<1>2. SeenInv' /\ CacheFollowsRow'
    BY <1>1, AllBehind DEF CacheFollowsRow
<1>3. routing' \in [UserRequests -> EngineState]
  <2>1. UserRequests \in SUBSET UserRequests
    OBVIOUS
  <2> QED
    BY <1>1, <2>1, Behind
<1>4. CASE DeleteSettings
  <2>1. settings' = NoValue /\ asked' = [f \in Fields |-> NoValue] /\ charged' = 0 /\ home' = NoValue
    BY <1>4 DEF DeleteSettings
  <2> QED
    BY <1>1, <1>2, <1>3, <2>1 DEF RouteInv, RouteTypes, RowsAsked, HomeInv, SettingsSurvive, Given
<1>5. CASE AdminChange
  <2>1. PICK change \in AdminChanges :
          /\ settings' = IF settings = NoValue THEN NoValue ELSE Patched(settings, change[1], change[2])
          /\ asked' = IF settings = NoValue THEN asked ELSE [asked EXCEPT ![change[1]] = change[2]]
          /\ home' = IF change[1] = "pool" THEN NoValue ELSE home
          /\ charged' = charged
    BY <1>5 DEF AdminChange
  <2> DEFINE f == change[1]
             new == Patched(settings, f, change[2])
  <2>2. f \in {"pool", "quota", "mode"} /\ change[2] \in Asked(f)
    BY RoutingAssumption DEF Asked
  <2>3. CASE settings = NoValue
    BY <1>1, <1>2, <1>3, <2>1, <2>3 DEF RouteInv, RouteTypes, RowsAsked, HomeInv, SettingsSurvive, Given
  <2>4. CASE settings # NoValue
    <3>1. settings \in SettingsRows /\ f \in Fields /\ f # "keys"
      BY <1>1, <2>2, <2>4 DEF RouteTypes, Fields
    <3>2. /\ new \in SettingsRows /\ new.used = settings.used /\ new[f] = change[2]
          /\ \A g \in Fields \ {f} : new[g] = settings[g]
      BY <2>2, <3>1, PatchedRows
    <3>3. /\ settings' = new /\ asked' = [asked EXCEPT ![f] = change[2]] /\ charged' = charged
          /\ home' = IF f = "pool" THEN NoValue ELSE home
      BY <2>1, <2>4
    <3> HIDE DEF new, f
    <3>4. new # NoValue
      BY <3>2, NoValueApart
    <3>5. RouteTypes'
      BY <1>1, <1>3, <3>2, <3>3 DEF RouteTypes
    <3>6. RowsAsked' /\ HomeInv'
      BY <2>4, <3>2, <3>3, <3>4 DEF RouteInv, RowsAsked, HomeInv, Given, Fields
    <3>7. SettingsSurvive'
      BY <1>1, <2>4, <3>1, <3>2, <3>3, <3>4 DEF RouteInv, RouteTypes, SettingsSurvive
    <3> QED
      BY <1>2, <3>5, <3>6, <3>7 DEF RouteInv
  <2> QED
    BY <2>3, <2>4
<1> QED
    BY <1>4, <1>5

\* The copy is dropped, keys are set, the hub starts again.
LEMMA InvalidateStep == ASSUME RouteInv, InvalidateSettings PROVE RouteInv'
    BY DEF InvalidateSettings, DropCached, RouteInv, RouteTypes, RowsAsked, SeenInv, HomeInv, SettingsSurvive,
           CacheFollowsRow, Given, Fits

LEMMA KeySteps == ASSUME RouteInv, NEW t \in KeyRequests, FindKeyOwner(t) \/ SetKeys(t) PROVE RouteInv'
<1>1. /\ RouteTypes /\ UNCHANGED <<hubConfig, anyPool, settingsCache, routing, admin, charged, home, cacheBehind>>
    BY DEF RouteInv, FindKeyOwner, SetKeys, UnchangedRow
<1>2. CASE settings' = settings /\ asked' = asked
    BY <1>1, <1>2 DEF RouteInv, RouteTypes, RowsAsked, SeenInv, HomeInv, SettingsSurvive, CacheFollowsRow, Given, Fits
<1>3. CASE ~(settings' = settings /\ asked' = asked)
  <2> DEFINE new == Patched(settings, "keys", t)
  <2>1. settings # NoValue /\ settings' = new /\ asked' = [asked EXCEPT !["keys"] = t]
    BY <1>3 DEF FindKeyOwner, SetKeys, UnchangedRow
  <2>2. settings \in SettingsRows /\ "keys" \in Fields
    BY <1>1, <2>1 DEF RouteTypes, Fields
  <2>3. /\ new \in SettingsRows /\ new.used = settings.used /\ new["keys"] = t
        /\ \A g \in Fields \ {"keys"} : new[g] = settings[g]
    BY <2>2, PatchedRows
  <2> HIDE DEF new
  <2>4. Given(settings) /\ Fits(new, settings)
    BY <2>1, <2>3 DEF Given, Fits
  <2>5. SeenInv' /\ Given(settings')
    BY <1>1, <2>1, <2>3, <2>4, RowRoutesTheSame DEF RouteTypes
  <2>6. RouteTypes' /\ RowsAsked' /\ HomeInv'
    BY <1>1, <2>1, <2>3, <2>5 DEF RouteInv, RouteTypes, RowsAsked, HomeInv, Given, Fields
  <2>7. SettingsSurvive' /\ CacheFollowsRow'
    BY <1>1, <2>1, <2>2, <2>3, <2>5 DEF RouteInv, RouteTypes, SettingsSurvive, CacheFollowsRow, Given
  <2> QED
    BY <2>5, <2>6, <2>7 DEF RouteInv
<1> QED
    BY <1>2, <1>3

LEMMA RestartStep == ASSUME RouteInv, RestartHub PROVE RouteInv'
<1>1. /\ RouteTypes /\ UNCHANGED <<settings, asked, charged, home>>
      /\ hubConfig' \in HubConfigs /\ anyPool' \in StoragePools
      /\ settingsCache' = NoValue /\ cacheBehind' = FALSE /\ admin' = "idle"
      /\ routing' = [r \in UserRequests |-> IF Routes(r, "new") THEN routing[r] ELSE Gone]
    BY DEF RouteInv, RestartHub
<1>2. /\ routing' \in [UserRequests -> EngineState]
      /\ \A r \in UserRequests : routing'[r].pc = "end" \/ (routing[r].pc = "new" /\ routing'[r] = routing[r])
    BY <1>1, GoneTypes DEF RouteTypes, Routes
<1>3. SeenInv'
    BY <1>2 DEF RouteInv, SeenInv
<1> QED
    BY <1>1, <1>2, <1>3 DEF RouteInv, RouteTypes, RowsAsked, HomeInv, SettingsSurvive, CacheFollowsRow

LEMMA RouteInductive == RouteInv /\ [Next]_storageVars => RouteInv'
<1> SUFFICES ASSUME RouteInv, RouteNext \/ UNCHANGED routeVars PROVE RouteInv'
    BY RouteSteps, RouteActions
<1>1. CASE UNCHANGED routeVars
    BY <1>1 DEF routeVars, RouteInv, RouteTypes, RowsAsked, SeenInv, HomeInv, SettingsSurvive, CacheFollowsRow, Given, Fits
<1>2. ASSUME NEW r \in UserRequests, RouteStep(r) PROVE RouteInv'
    BY <1>2, EngineSteps, UpsertStep, CacheStep, WriteStep, ChargeStep DEF RouteStep
<1>3. ASSUME NEW t \in KeyRequests, FindKeyOwner(t) \/ SetKeys(t) PROVE RouteInv'
    BY <1>3, KeySteps
<1> QED
    BY <1>1, <1>2, <1>3, AdminSteps, InvalidateStep, RestartStep DEF RouteNext

LEMMA RouteInvariant == Spec => []RouteInv
    BY RouteInit1, RouteInductive, PTL DEF Spec

-----------------------------------------------------------------------------
(* The theorems                                                             *)

\* The row: what was charged to it and what was last asked for, by an administrator or
\* by who asks for keys, stays, though every request may create the settings again
\* (upsert_user_settings) and charge them.
THEOREM SettingsStay == Spec => []SettingsSurvive
<1>1. RouteInv => SettingsSurvive
    BY DEF RouteInv
<1> QED
    BY <1>1, RouteInvariant, PTL

\* The hub's copy of the row, between one invalidation and the next change.
THEOREM CopyIsCurrent == Spec => []CacheFollowsRow
<1>1. RouteInv => CacheFollowsRow
    BY DEF RouteInv
<1> QED
    BY <1>1, RouteInvariant, PTL

\* The pool that an engine is built for (resolve_pool): no restart with another
\* configuration sends a user's files elsewhere.
THEOREM OnePoolPerUser == Spec => FilesStayInOnePool
<1>1. RouteInv /\ [Next]_storageVars => [home # NoValue /\ home' # NoValue => home' = home]_routeVars
  <2> SUFFICES ASSUME RouteInv, RouteNext, home # NoValue, home' # NoValue PROVE home' = home
      BY RouteSteps, RouteActions
  <2>1. ASSUME NEW r \in UserRequests, WriteBelowRoot(r) PROVE home' = home
      BY <2>1 DEF WriteBelowRoot, Routes, RouteInv, SeenInv, HomeInv, Given
  <2>2. ASSUME NEW r \in UserRequests, RouteStep(r) PROVE home' = home
      BY <2>1, <2>2 DEF RouteStep, FindSettings, ReadSettings, ReadRoleQuota, UpsertSettings, CacheSettings,
                   CreateEngine, ChargeUser, EndEngine, UnchangedRow
  <2>3. ASSUME NEW t \in KeyRequests, FindKeyOwner(t) \/ SetKeys(t) PROVE home' = home
      BY <2>3 DEF FindKeyOwner, SetKeys, UnchangedRow
  <2> QED
      BY <2>2, <2>3 DEF RouteNext, AdminChange, DeleteSettings, InvalidateSettings, RestartHub
<1> QED
    BY <1>1, RouteInvariant, PTL DEF Spec, FilesStayInOnePool

\* The plan for the protected root (scoped/internal.rs): an engine resolves it from the
\* row as it is, or refuses the write.
THEOREM ProtectedIsNeverPlain == Spec => NeverPlain
<1> DEFINE PlanKept == \A r \in UserRequests :
         Routes(r, "ready") /\ routing'[r].pc = "charge" /\ routing[r].plan = "unresolved"
         /\ settings # NoValue /\ settings.mode # NoValue => routing'[r].wrote = settings.mode
<1>1. RouteInv /\ [Next]_storageVars => [PlanKept]_routeVars
  <2> SUFFICES ASSUME RouteInv, RouteNext, NEW r \in UserRequests, Routes(r, "ready"), routing'[r].pc = "charge",
                      routing[r].plan = "unresolved", settings # NoValue, settings.mode # NoValue
               PROVE routing'[r].wrote = settings.mode
      BY RouteSteps, RouteActions
  <2>1. RouteTypes /\ routing \in [UserRequests -> EngineState] /\ routing[r].pc = "ready"
      BY DEF RouteInv, RouteTypes, Routes
  <2>2. ASSUME NEW o \in UserRequests, RouteStep(o) PROVE WriteBelowRoot(r)
    <3>1. CASE UpsertSettings(o)
      <4>1. UserRequests \ {o} \in SUBSET UserRequests
        OBVIOUS
      <4>2. LeftBehind(UserRequests \ {o}) \in [UserRequests -> EngineState]
            /\ LeftBehind(UserRequests \ {o})[r].pc = "ready"
        BY <2>1, <4>1, Behind
      <4>3. routing'[r].pc # "charge"
        BY <3>1, <4>2 DEF UpsertSettings, EngineState
      <4> QED
        BY <4>3
    <3>2. CASE WriteBelowRoot(o)
      BY <2>1, <3>2 DEF WriteBelowRoot, EngineState
    <3>3. CASE FindSettings(o) \/ ReadSettings(o) \/ ReadRoleQuota(o) \/ CacheSettings(o) \/ CreateEngine(o)
               \/ ChargeUser(o) \/ EndEngine(o)
      <4>1. CASE EndEngine(o)
        BY <2>1, <4>1, GoneTypes DEF EndEngine, EngineState
      <4>2. CASE ReadSettings(o)
        BY <2>1, <4>2, GoneTypes DEF ReadSettings, Routes, EngineState
      <4>3. CASE FindSettings(o)
        BY <2>1, <4>3 DEF FindSettings, Routes
      <4>4. CASE ReadRoleQuota(o) \/ CacheSettings(o) \/ CreateEngine(o) \/ ChargeUser(o)
        BY <2>1, <4>4 DEF ReadRoleQuota, CacheSettings, CreateEngine, ChargeUser, Routes
      <4> QED
        BY <3>3, <4>1, <4>2, <4>3, <4>4
    <3> QED
      BY <2>2, <3>1, <3>2, <3>3 DEF RouteStep
  <2>3. ~(AdminChange \/ DeleteSettings)
    <3>1. UserRequests \in SUBSET UserRequests
      OBVIOUS
    <3>2. LeftBehind(UserRequests)[r].pc = "ready"
      BY <2>1, <3>1, Behind
    <3> QED
      BY <3>2 DEF AdminChange, DeleteSettings
  <2>4. ~(InvalidateSettings \/ RestartHub) /\ \A t \in KeyRequests : ~FindKeyOwner(t) /\ ~SetKeys(t)
      BY <2>1, GoneTypes DEF InvalidateSettings, RestartHub, FindKeyOwner, SetKeys, Routes
  <2>5. WriteBelowRoot(r)
      BY <2>2, <2>3, <2>4 DEF RouteNext
  <2> QED
      BY <2>1, <2>5, GoneTypes DEF WriteBelowRoot, ResolvePlan, PlanFor, EngineState
<1> QED
    BY <1>1, RouteInvariant, PTL DEF Spec, NeverPlain, Routes

-----------------------------------------------------------------------------
(* What is charged                                                          *)

LEMMA UsageSteps == [Next]_storageVars => UsageMoves \/ UNCHANGED usageVars
    BY DEF Next, storageVars, ReadsMoves, RouteMoves, BinMoves, PoolMoves, VaultMoves, ConfigMoves, ThumbsMoves,
           RenderMoves, VideosMoves, BatchesMoves, MountsMoves, BesideReads, BesideRoute, BesideBin, BesidePool,
           BesideVault, BesideConfig, BesideThumbs, BesideRender, BesideVideos, BesideBatches, BesideMounts

\* Where a request has measured what it will charge, and where it still will.
DirectPCs == {"measure", "pending", "quota", "store", "chargeFirst", "indexLast", "index", "charge"}
Measured == {"pending", "quota", "store", "chargeFirst", "index", "charge"}
UsagePCs == {"new", "flush", "flushed", "sum", "set", "enqueue", "mark", "task", "end"} \cup DirectPCs
RequestFields == {"pc", "kind", "file", "from", "new", "diff", "seen"}
RequestFits(q) ==
    /\ DOMAIN q = RequestFields /\ q = [x \in RequestFields |-> q[x]]
    /\ q.pc \in UsagePCs /\ q.kind \in AllRequests
    /\ q.pc \notin {"new", "end"} => q.file \in UserFiles /\ q.from \in UserFiles /\ q.new \in Nat
    /\ q.pc \notin {"new", "end"} /\ q.kind = "copy" => q.from # q.file
    /\ q.pc \in {"sum", "set"} => q.kind = "recount"
    /\ q.pc \in {"enqueue", "mark", "task"} => q.kind = "cached"
    /\ q.pc \in DirectPCs \cup {"flush", "flushed"} => q.kind \notin {"recount", "cached"}
    /\ q.pc \in {"chargeFirst", "indexLast"} => q.kind \in {"writeAt", "stream"}
    /\ q.pc \in {"index", "charge"} => q.kind \notin {"writeAt", "stream"}
    /\ q.pc \in Measured => q.diff \in Int
FlushFields == {"at", "prev", "content", "current"}
Turns == {"leave", "index", "quota", "insert"}
FlushFits(f) ==
    LET q == flushing[f] IN
    /\ DOMAIN q = FlushFields /\ q = [x \in FlushFields |-> q[x]]
    /\ q.at \in {"idle", "stat", "write", "drop"} \cup Turns
    /\ q.prev \in Nat /\ q.content \in Nat
    /\ q.at \in {"stat", "write", "leave"} => queued[f] # NoTask

UsageTypes ==
    /\ size \in [UserFiles -> Nat] /\ queued \in [UserFiles -> Nat \cup {NoTask}]
    /\ row \in [UserFiles -> Nat \cup {NoTask}]
    /\ quotaTask \in Int \cup {NoTask} /\ charging \in Int \cup {NoTask}
    /\ request = [r \in Requests |-> request[r]] /\ \A r \in Requests : RequestFits(request[r])
    /\ syncing = [s \in Syncers |-> syncing[s]]
    /\ \A s \in Syncers : /\ DOMAIN syncing[s] = {"at", "listed"} /\ syncing[s] = [x \in {"at", "listed"} |-> syncing[s][x]]
                          /\ syncing[s].at \in {"idle", "list", "commit", "check", "clear"}
                          /\ syncing[s].listed \in [UserFiles -> Nat]
    /\ flushing = [f \in UserFiles |-> flushing[f]] /\ \A f \in UserFiles : FlushFits(f)

\* Two that are under way share no file, and what a request works on is flushed.
Alone ==
    /\ \A q, r \in Requests : q # r /\ Under(q) /\ Under(r) => Files(q) \cap Files(r) = {}
    /\ \A r \in Requests, f \in UserFiles :
          request[r].pc \in DirectPCs /\ f \in Files(r) => flushing[f].at = "idle"

TurnFits(f) == /\ flushing[f].at = "write" => size[f] = flushing[f].prev
               /\ flushing[f].at \in Turns => size[f] = flushing[f].content
TurnsFit == \A f \in UserFiles : TurnFits(f)
SharedInv == ~(Both \subseteq slips) => Alone /\ TurnsFit

\* What a request measured is what its change of the file makes.
GrowthOf(q) == CASE q.kind \in {"write", "stream"} -> q.new - size[q.file]
                 [] q.kind = "writeAt" -> IF q.new > size[q.file] THEN q.new - size[q.file] ELSE 0
                 [] q.kind = "copy" -> size[q.from] - size[q.file]
                 [] q.kind = "delete" -> 0 - size[q.file]
MeasuresFit == \A r \in Requests :
    request[r].pc \in {"pending", "quota", "store"} => request[r].diff = GrowthOf(request[r])

\* What is stored and not charged yet.
Amount(n) == IF n = NoTask THEN 0 ELSE n
FlushOwes(f) == IF flushing[f].at \in Turns THEN flushing[f].content - flushing[f].prev ELSE 0
RequestOwes(r) == IF request[r].pc \in {"chargeFirst", "index", "charge"} THEN request[r].diff ELSE 0
OwedByFlush == [f \in UserFiles |-> FlushOwes(f)]
OwedByRequest == [r \in Requests |-> RequestOwes(r)]
Owed == SumOf(OwedByFlush, UserFiles) + SumOf(OwedByRequest, Requests)
ChargeInv ==
    "charge" \notin slips =>
        /\ MeasuresFit
        /\ used \in Int /\ Stored = used + Amount(quotaTask) + Amount(charging) + Owed

\* A request runs alone and no flush beside what it grows.
Checked(r) == Quota > 0 /\ (request[r].pc = "quota" \/ (request[r].pc = "store" /\ request[r].diff > 0))
QuotaInv ==
    slips \cap {"charge", "quota"} = {} =>
        /\ \A q, r \in Requests : Under(q) /\ Under(r) => q = r
        /\ \A r \in Requests : Checked(r) =>
              /\ \A f \in UserFiles : flushing[f].at = "idle"
              /\ request[r].pc = "store" => Stored + request[r].diff <= Quota

\* A file whose row is wrong is noticed by who works on it, by a flush or by a sync.
RowOf(f) == IF row[f] = NoTask THEN 0 ELSE row[f]
WritesRow == {"chargeFirst", "indexLast", "index"}
ByFlush(f) == queued[f] # NoTask \/ flushing[f].at \in {"leave", "index"}
BySync == indexTask \/ \E s \in Syncers : syncing[s].at = "list"
ByRequest(f) == \E r \in Requests : request[r].pc \in WritesRow /\ request[r].file = f
Noticed(f) == ByFlush(f) \/ BySync \/ ByRequest(f)
Reads(s) == syncing[s].at \in {"list", "commit"}
Crowded == \E q, s \in Syncers : q # s /\ Reads(q) /\ Reads(s)
Followed(f) == /\ \A s \in Syncers : syncing[s].at = "commit" => syncing[s].listed[f] = size[f]
               /\ size[f] = RowOf(f) \/ \E s \in Syncers : syncing[s].at = "commit"
DeletesDone == \A r \in Requests : AtUse(r, "index") /\ request[r].kind = "delete" => size[request[r].file] = 0
RowsFollow == Crowded \/ \A f \in UserFiles : Noticed(f) \/ Followed(f)
IndexInv == "index" \notin slips => DeletesDone /\ RowsFollow

UInv == UsageTypes /\ SharedInv /\ ChargeInv /\ QuotaInv /\ IndexInv

-----------------------------------------------------------------------------
(* Types                                                                    *)

\* One request moves: the fields it keeps, and its new record.
Others(r) == request' = [q \in Requests |-> request'[q]] /\ \A q \in Requests \ {r} : request'[q] = request[q]
Keeps(r) == /\ request'[r].kind = request[r].kind /\ request'[r].file = request[r].file
            /\ request'[r].from = request[r].from /\ request'[r].new = request[r].new
            /\ DOMAIN request'[r] = RequestFields /\ request'[r] = [x \in RequestFields |-> request'[r][x]]
GoesTo(r, pc) == /\ Others(r) /\ request'[r].pc = pc
                 /\ pc = "end" => RequestFits(request'[r])
                 /\ pc # "end" => Keeps(r) /\ request'[r].diff = request[r].diff

LEMMA EndedFits == RequestFits(Ended) /\ Ended.pc = "end"
    BY DEF Ended, FreshRequest, RequestFits, RequestFields, UsagePCs, DirectPCs, Measured, AllRequests

LEMMA Advances ==
    ASSUME UsageTypes, NEW r \in Requests, NEW pc, Advance(r, pc)
    PROVE GoesTo(r, pc)
<1>1. RequestFits(request[r]) /\ request = [q \in Requests |-> request[q]]
    BY DEF UsageTypes
<1>2. CASE pc = "end"
    BY <1>1, <1>2, EndedFits DEF Advance, GoesTo, Others
<1>3. CASE pc # "end"
  <2> DEFINE me == [request[r] EXCEPT !.pc = pc]
  <2>1. request' = [request EXCEPT ![r] = me]
      BY <1>1, <1>3 DEF Advance
  <2>2. /\ me.pc = pc /\ me.kind = request[r].kind /\ me.file = request[r].file /\ me.from = request[r].from
        /\ me.new = request[r].new /\ me.diff = request[r].diff
        /\ DOMAIN me = RequestFields /\ me = [x \in RequestFields |-> me[x]]
      BY <1>1 DEF RequestFits, RequestFields
  <2> HIDE DEF me
  <2> QED
      BY <1>1, <1>3, <2>1, <2>2 DEF GoesTo, Others, Keeps
<1> QED
    BY <1>2, <1>3

\* One flush moves.
OtherFlushes(f) == /\ flushing' = [g \in UserFiles |-> flushing'[g]]
                   /\ \A g \in UserFiles \ {f} : flushing'[g] = flushing[g]
KeepsFlush(f) == /\ flushing'[f].prev = flushing[f].prev /\ flushing'[f].content = flushing[f].content
                 /\ DOMAIN flushing'[f] = FlushFields /\ flushing'[f] = [x \in FlushFields |-> flushing'[f][x]]
LEMMA FlushGoes ==
    ASSUME UsageTypes, NEW f \in UserFiles, NEW at, flushing' = [flushing EXCEPT ![f].at = at]
    PROVE OtherFlushes(f) /\ KeepsFlush(f) /\ flushing'[f].at = at /\ flushing'[f].current = flushing[f].current
<1>1. FlushFits(f) /\ flushing = [g \in UserFiles |-> flushing[g]]
    BY DEF UsageTypes
<1> DEFINE me == [flushing[f] EXCEPT !.at = at]
<1>2. flushing' = [flushing EXCEPT ![f] = me]
    BY <1>1
<1>3. /\ me.at = at /\ me.prev = flushing[f].prev /\ me.content = flushing[f].content /\ me.current = flushing[f].current
      /\ DOMAIN me = FlushFields /\ me = [x \in FlushFields |-> me[x]]
    BY <1>1 DEF FlushFits, FlushFields
<1> HIDE DEF me
<1> QED
    BY <1>1, <1>2, <1>3 DEF OtherFlushes, KeepsFlush
LEMMA FlushNew ==
    ASSUME UsageTypes, NEW f \in UserFiles, NEW me, flushing' = [flushing EXCEPT ![f] = me]
    PROVE OtherFlushes(f) /\ flushing'[f] = me
    BY DEF UsageTypes, OtherFlushes
LEMMA IdleFits == /\ DOMAIN Idle = FlushFields /\ Idle = [x \in FlushFields |-> Idle[x]]
                  /\ Idle.at = "idle" /\ Idle.prev \in Nat /\ Idle.content \in Nat
                  /\ LET begun == [Idle EXCEPT !.at = "stat"] IN
                        /\ DOMAIN begun = FlushFields /\ begun = [x \in FlushFields |-> begun[x]]
                        /\ begun.at = "stat" /\ begun.prev \in Nat /\ begun.content \in Nat
    BY DEF Idle, FlushFields

\* The larger of two numbers.
LEMMA LargerOf == \A a, b \in Int : Max({a, b}) = IF a >= b THEN a ELSE b
    BY DEF Max

LEMMA SizesKnown == ASSUME UsageTypes, NEW f \in UserFiles PROVE SizeOf(f) \in Nat
    BY DEF UsageTypes, SizeOf

\* Who has begun fits with whatever it goes to, as long as its kind goes there.
LEMMA GoingFits ==
    ASSUME UsageTypes, NEW r \in Requests, Under(r), Others(r), Keeps(r), NEW pc \in UsagePCs \ {"new", "end"},
           request'[r].pc = pc,
           pc \in {"sum", "set"} => request[r].kind = "recount",
           pc \in {"enqueue", "mark", "task"} => request[r].kind = "cached",
           pc \in DirectPCs \cup {"flush", "flushed"} => request[r].kind \notin {"recount", "cached"},
           pc \in {"chargeFirst", "indexLast"} => request[r].kind \in {"writeAt", "stream"},
           pc \in {"index", "charge"} => request[r].kind \notin {"writeAt", "stream"},
           pc \in Measured => request'[r].diff \in Int
    PROVE request' = [q \in Requests |-> request'[q]] /\ \A q \in Requests : RequestFits(request'[q])
<1>1. \A q \in Requests : RequestFits(request[q])
    BY DEF UsageTypes
<1>2. RequestFits(request'[r])
    BY <1>1 DEF RequestFits, Keeps, Under
<1> QED
    BY <1>1, <1>2 DEF Others

LEMMA EndFits ==
    ASSUME UsageTypes, NEW r \in Requests, GoesTo(r, "end")
    PROVE request' = [q \in Requests |-> request'[q]] /\ \A q \in Requests : RequestFits(request'[q])
    BY DEF UsageTypes, GoesTo, Others

LEMMA IssuedFits ==
    ASSUME NEW kind \in AllRequests, NEW f \in UserFiles, NEW g \in UserFiles, NEW n \in Nat, kind = "copy" => f # g
    PROVE LET me == Issued(kind, f, g, n) IN
            /\ RequestFits(me) /\ me.kind = kind /\ me.file = f /\ me.new = n
            /\ me.from = IF kind = "copy" THEN g ELSE AnyFile
            /\ me.pc = IF kind = "cached" THEN "enqueue" ELSE IF kind = "recount" THEN "sum"
                       ELSE IF kind = "stream" THEN "measure" ELSE "flush"
<1> DEFINE from == IF kind = "copy" THEN g ELSE AnyFile
           pc == IF kind = "cached" THEN "enqueue" ELSE IF kind = "recount" THEN "sum"
                 ELSE IF kind = "stream" THEN "measure" ELSE "flush"
           me == [pc |-> pc, kind |-> kind, file |-> f, from |-> from, new |-> n, diff |-> 0, seen |-> 0]
<1>1. pc = CASE kind = "cached" -> "enqueue" [] kind = "recount" -> "sum" [] kind = "stream" -> "measure" [] OTHER -> "flush"
    BY DEF AllRequests
<1>5. from = (IF kind = "copy" THEN g ELSE AnyFile)
    OBVIOUS
<1> HIDE DEF pc, from
<1>4. Issued(kind, f, g, n) = me
  <2>1. Issued(kind, f, g, n) = [FreshRequest EXCEPT !.kind = kind, !.file = f, !.new = n, !.from = from, !.pc = pc]
      BY <1>1, <1>5 DEF Issued
  <2> QED
      BY <2>1 DEF FreshRequest
<1> USE DEF pc, from
<1>2. AnyFile \in UserFiles
    BY DEF AnyFile
<1>3. RequestFits(me)
    BY <1>2 DEF RequestFits, RequestFields, UsagePCs, DirectPCs, Measured, AllRequests
<1> QED
    BY <1>3, <1>4

\* Those which note what they read.
LEMMA Measures ==
    ASSUME UsageTypes, NEW r \in Requests, Measure(r)
    PROVE \/ request' = [request EXCEPT ![r] = Ended]
          \/ /\ Others(r) /\ Keeps(r) /\ request'[r].diff = Growth(r) /\ request'[r].pc \in {"pending", "store"}
             /\ request'[r].pc = "store" => Quota = 0 \/ (request[r].kind \notin {"stream", "copy"} /\ ~(Growth(r) > 0))
<1>1. RequestFits(request[r])
    BY DEF UsageTypes
<1>2. ASSUME NEW pc \in {"pending", "store"}, request' = [request EXCEPT ![r] = [@ EXCEPT !.diff = Growth(r), !.pc = pc]]
      PROVE Others(r) /\ Keeps(r) /\ request'[r].diff = Growth(r) /\ request'[r].pc = pc
  <2> DEFINE me == [[request[r] EXCEPT !.diff = Growth(r)] EXCEPT !.pc = pc]
  <2>1. request' = [request EXCEPT ![r] = me]
      BY <1>2 DEF UsageTypes
  <2>2. /\ me.pc = pc /\ me.kind = request[r].kind /\ me.file = request[r].file /\ me.from = request[r].from
        /\ me.new = request[r].new /\ me.diff = Growth(r)
        /\ DOMAIN me = RequestFields /\ me = [x \in RequestFields |-> me[x]]
      BY <1>1 DEF RequestFits, RequestFields
  <2> HIDE DEF me
  <2> QED
      BY <2>1, <2>2 DEF Others, Keeps, UsageTypes
<1>3. \/ request' = [request EXCEPT ![r] = Ended]
      \/ \E pc \in {"pending", "store"} :
            /\ request' = [request EXCEPT ![r] = [@ EXCEPT !.diff = Growth(r), !.pc = pc]]
            /\ pc = "store" => Quota = 0 \/ (request[r].kind \notin {"stream", "copy"} /\ ~(Growth(r) > 0))
  <2> DEFINE missing == \/ request[r].kind = "delete" /\ SizeOf(request[r].file) = 0
                        \/ request[r].kind = "copy" /\ SizeOf(request[r].from) = 0
             checks == Quota > 0 /\ (request[r].kind \in {"stream", "copy"} \/ Growth(r) > 0)
             pc == IF checks THEN "pending" ELSE "store"
  <2>1. request' = [request EXCEPT ![r] = IF missing THEN Ended ELSE [@ EXCEPT !.diff = Growth(r), !.pc = pc]]
      BY DEF Measure
  <2>2. ~checks => Quota = 0 \/ (request[r].kind \notin {"stream", "copy"} /\ ~(Growth(r) > 0))
      BY UsageAssumption
  <2> HIDE DEF missing, checks
  <2>3. CASE missing
      BY <2>1, <2>3
  <2>4. CASE ~missing
    <3>1. request' = [request EXCEPT ![r] = [@ EXCEPT !.diff = Growth(r), !.pc = pc]]
        BY <2>1, <2>4
    <3> QED
        BY <2>2, <3>1
  <2> QED
      BY <2>3, <2>4
<1> QED
    BY <1>2, <1>3

LEMMA Notes ==
    ASSUME UsageTypes, NEW r \in Requests, ReadPendingDelta(r) \/ SumRows(r)
    PROVE /\ Others(r) /\ Keeps(r) /\ request'[r].pc = (IF ReadPendingDelta(r) THEN "quota" ELSE "set")
          /\ ReadPendingDelta(r) => request'[r].diff = request[r].diff /\ request'[r].seen = Delta
<1>1. DOMAIN request[r] = RequestFields /\ request[r] = [x \in RequestFields |-> request[r][x]]
      /\ request = [q \in Requests |-> request[q]]
    BY DEF RequestFits, UsageTypes
<1>2. CASE ReadPendingDelta(r)
  <2> DEFINE me == [[request[r] EXCEPT !.seen = Delta] EXCEPT !.pc = "quota"]
  <2>1. request' = [request EXCEPT ![r] = me]
      BY <1>1, <1>2 DEF ReadPendingDelta
  <2>2. /\ me.pc = "quota" /\ me.kind = request[r].kind /\ me.file = request[r].file /\ me.from = request[r].from
        /\ me.new = request[r].new /\ me.diff = request[r].diff /\ me.seen = Delta
        /\ DOMAIN me = RequestFields /\ me = [x \in RequestFields |-> me[x]]
      BY <1>1 DEF RequestFields
  <2> HIDE DEF me
  <2> QED
      BY <1>1, <1>2, <2>1, <2>2 DEF Others, Keeps
<1>3. CASE SumRows(r) /\ ~ReadPendingDelta(r)
  <2> DEFINE me == [[request[r] EXCEPT !.diff = RowsTotal] EXCEPT !.pc = "set"]
  <2>1. request' = [request EXCEPT ![r] = me]
      BY <1>1, <1>3 DEF SumRows
  <2>2. /\ me.pc = "set" /\ me.kind = request[r].kind /\ me.file = request[r].file /\ me.from = request[r].from
        /\ me.new = request[r].new
        /\ DOMAIN me = RequestFields /\ me = [x \in RequestFields |-> me[x]]
      BY <1>1 DEF RequestFields
  <2> HIDE DEF me
  <2> QED
      BY <1>1, <1>3, <2>1, <2>2 DEF Others, Keeps
<1> QED
    BY <1>2, <1>3

LEMMA RequestTypes ==
    ASSUME UsageTypes, NEW r \in Requests, RequestStep(r)
    PROVE request' = [q \in Requests |-> request'[q]] /\ \A q \in Requests : RequestFits(request'[q])
<1>1. RequestFits(request[r])
    BY DEF UsageTypes
<1>2. CASE BeginRequest(r)
  <2>1. PICK kind \in RequestKinds, f \in UserFiles, g \in UserFiles, n \in FileSizes \cup WriteEnds :
          (kind = "copy" => f # g) /\ request' = [request EXCEPT ![r] = Issued(kind, f, g, n)]
      BY <1>2 DEF BeginRequest
  <2>2. kind \in AllRequests /\ n \in Nat
      BY UsageAssumption
  <2> QED
    <3> DEFINE me == Issued(kind, f, g, n)
    <3>1. RequestFits(me)
        BY <2>1, <2>2, IssuedFits
    <3> HIDE DEF me
    <3>2. request' = [request EXCEPT ![r] = me]
        BY <2>1 DEF me
    <3> QED
        BY <3>1, <3>2 DEF UsageTypes
<1>3. CASE FlushFirst(r) \/ FlushEnded(r)
  <2>1. Under(r) /\ request[r].kind \notin {"recount", "cached"}
      BY <1>1, <1>3 DEF FlushFirst, FlushEnded, AtUse, Under, RequestFits
  <2>2. CASE Advance(r, "flushed") \/ Advance(r, "measure")
      BY <2>1, <2>2, Advances, GoingFits DEF GoesTo, UsagePCs, DirectPCs, Measured
  <2>3. CASE Advance(r, "end")
      BY <2>3, Advances, EndFits
  <2> QED
      BY <1>3, <2>2, <2>3 DEF FlushFirst, FlushEnded
<1>4. CASE Measure(r)
  <2>1. Under(r) /\ request[r].kind \in {"write", "stream", "writeAt", "copy", "delete"}
        /\ request[r].file \in UserFiles /\ request[r].from \in UserFiles /\ request[r].new \in Nat
      BY <1>1, <1>4 DEF Measure, AtUse, Under, RequestFits, DirectPCs, AllRequests
  <2>2. Growth(r) \in Int
    <3>1. SizeOf(request[r].file) \in Nat /\ SizeOf(request[r].from) \in Nat
        BY <2>1, SizesKnown
    <3>2. request[r].kind = "writeAt" => Growth(r) = Max({0, request[r].new - SizeOf(request[r].file)})
        BY DEF Growth
    <3> QED
        BY <2>1, <3>1, <3>2, LargerOf DEF Growth
  <2>3. CASE request' = [request EXCEPT ![r] = Ended]
      BY <2>3, EndedFits DEF UsageTypes
  <2>4. ASSUME NEW pc \in {"pending", "store"}, Others(r), Keeps(r), request'[r].pc = pc, request'[r].diff = Growth(r)
        PROVE request' = [q \in Requests |-> request'[q]] /\ \A q \in Requests : RequestFits(request'[q])
      BY <2>1, <2>2, <2>4, GoingFits DEF UsagePCs, DirectPCs, Measured
  <2> QED
      BY <1>4, <2>3, <2>4, Measures
<1>5. CASE ReadPendingDelta(r) \/ SumRows(r)
  <2>3. /\ Others(r) /\ Keeps(r) /\ request'[r].pc = (IF ReadPendingDelta(r) THEN "quota" ELSE "set")
        /\ ReadPendingDelta(r) => request'[r].diff = request[r].diff
      BY <1>5, Notes
  <2>4. Under(r) /\ (ReadPendingDelta(r) => request[r].kind \notin {"recount", "cached"} /\ request[r].diff \in Int)
        /\ (~ReadPendingDelta(r) => request[r].kind = "recount")
      BY <1>1, <1>5 DEF ReadPendingDelta, SumRows, AtUse, Under, RequestFits, DirectPCs, Measured
  <2> QED
      BY <2>3, <2>4, GoingFits DEF UsagePCs, DirectPCs, Measured
<1>6. CASE CheckQuota(r) \/ ChangeFile(r) \/ ChangeRow(r) \/ Charge(r)
  <2>1. Under(r) /\ request[r].kind \notin {"recount", "cached"}
        /\ (request[r].pc \in {"quota", "store", "index", "chargeFirst", "charge"} => request[r].diff \in Int)
        /\ (request[r].pc \in {"chargeFirst", "indexLast"} => request[r].kind \in {"writeAt", "stream"})
        /\ (request[r].pc \in {"index", "charge"} => request[r].kind \notin {"writeAt", "stream"})
      BY <1>1, <1>6 DEF CheckQuota, ChangeFile, ChangeRow, Charge, AtUse, Under, RequestFits, DirectPCs, Measured
  <2>2. PICK pc \in {"end", "store", "chargeFirst", "index", "charge", "indexLast"} :
           /\ Advance(r, pc)
           /\ pc \in {"store", "chargeFirst", "index", "charge"} =>
                 request[r].pc \in {"quota", "store", "index", "chargeFirst", "charge"}
           /\ pc \in {"chargeFirst", "indexLast"} => request[r].kind \in {"writeAt", "stream"}
           /\ pc \in {"index", "charge"} => request[r].kind \notin {"writeAt", "stream"}
      BY <1>6, <2>1 DEF CheckQuota, ChangeFile, ChangeRow, Charge, AtUse
  <2>3. CASE pc = "end"
      BY <2>2, <2>3, Advances, EndFits
  <2>4. CASE pc # "end"
      BY <2>1, <2>2, <2>4, Advances, GoingFits DEF GoesTo, UsagePCs, DirectPCs, Measured
  <2> QED
      BY <2>3, <2>4
<1>7. CASE SetUsed(r) \/ AddIndexTask(r)
    BY <1>7, Advances, EndFits DEF SetUsed, AddIndexTask
<1>8. CASE EnqueueFile(r) \/ MarkDirty(r)
  <2>1. Under(r) /\ request[r].kind = "cached" /\ (Advance(r, "mark") \/ Advance(r, "task"))
      BY <1>1, <1>8 DEF EnqueueFile, MarkDirty, AtUse, Under, RequestFits
  <2> QED
      BY <2>1, Advances, GoingFits DEF GoesTo, UsagePCs, DirectPCs, Measured
<1> QED
    BY <1>2, <1>3, <1>4, <1>5, <1>6, <1>7, <1>8 DEF RequestStep

\* A request changes the other maps within their types.
LEMMA MapTypes ==
    ASSUME UsageTypes, NEW r \in Requests, RequestStep(r)
    PROVE /\ size' \in [UserFiles -> Nat] /\ queued' \in [UserFiles -> Nat \cup {NoTask}]
          /\ row' \in [UserFiles -> Nat \cup {NoTask}]
          /\ quotaTask' = quotaTask /\ charging' = charging
          /\ syncing' = syncing
<1>1. RequestFits(request[r]) /\ size \in [UserFiles -> Nat] /\ queued \in [UserFiles -> Nat \cup {NoTask}]
      /\ row \in [UserFiles -> Nat \cup {NoTask}]
    BY DEF UsageTypes
<1>2. CASE ChangeFile(r)
  <2> DEFINE q == request[r]
  <2>1. /\ q.file \in UserFiles /\ q.from \in UserFiles /\ q.new \in Nat
        /\ q.kind \in {"write", "stream", "writeAt", "copy", "delete"}
      BY <1>1, <1>2 DEF ChangeFile, AtUse, RequestFits, DirectPCs, AllRequests
  <2>2. /\ size[q.file] \in Nat /\ size[q.from] \in Nat
        /\ q.kind = "writeAt" => Max({size[q.file], q.new}) \in Nat
      BY <1>1, <2>1, LargerOf
  <2>3. size' = size \/ \E n \in Nat : size' = [size EXCEPT ![q.file] = n]
    <3>1. ASSUME NEW n, n = (CASE q.kind \in {"write", "stream"} -> q.new
                               [] q.kind = "writeAt" -> Max({size[q.file], q.new})
                               [] q.kind = "copy" -> size[q.from]
                               [] q.kind = "delete" -> 0)
          PROVE n \in Nat
        BY <2>1, <2>2, <3>1
    <3> QED
        BY <1>2, <2>1, <3>1 DEF ChangeFile
  <2> QED
      BY <1>1, <1>2, <2>3 DEF ChangeFile, indexVars, chargeVars
<1>3. CASE ChangeRow(r)
  <2>1. request[r].file \in UserFiles /\ size[request[r].file] \in Nat /\ queued[request[r].file] \in Nat \cup {NoTask}
      BY <1>1, <1>3 DEF ChangeRow, AtUse, RequestFits, DirectPCs
  <2> QED
      BY <1>1, <1>3, <2>1 DEF ChangeRow, chargeVars
<1>4. CASE EnqueueFile(r)
  <2>1. request[r].file \in UserFiles /\ request[r].new \in Nat
      BY <1>1, <1>4 DEF EnqueueFile, AtUse, RequestFits
  <2> QED
      BY <1>1, <1>4, <2>1 DEF EnqueueFile, indexVars, chargeVars
<1>5. CASE BeginRequest(r) \/ FlushFirst(r) \/ FlushEnded(r) \/ Measure(r) \/ ReadPendingDelta(r) \/ CheckQuota(r)
    BY <1>1, <1>5 DEF BeginRequest, FlushFirst, FlushEnded, Measure, ReadPendingDelta, CheckQuota, indexVars, chargeVars
<1>6. CASE Charge(r) \/ SumRows(r) \/ SetUsed(r) \/ MarkDirty(r) \/ AddIndexTask(r)
    BY <1>1, <1>6 DEF Charge, SumRows, SetUsed, MarkDirty, AddIndexTask, indexVars, chargeVars
<1> QED
    BY <1>2, <1>3, <1>4, <1>5, <1>6 DEF RequestStep

\* What a request does to flushes: it begins one, or overtakes the one of the file it queues.
LEMMA RequestFlushes ==
    ASSUME UsageTypes, NEW r \in Requests, RequestStep(r)
    PROVE \/ flushing' = flushing
          \/ /\ FlushFirst(r) /\ Advance(r, "flushed") /\ UNCHANGED <<slips, size, queued>>
             /\ \E f \in Files(r) : /\ f \in UserFiles /\ queued[f] # NoTask /\ flushing[f].at = "idle"
                                    /\ OtherFlushes(f) /\ flushing'[f] = [Idle EXCEPT !.at = "stat"]
          \/ EnqueueFile(r) /\ \E f \in UserFiles : /\ OtherFlushes(f) /\ KeepsFlush(f) /\ flushing'[f].at = flushing[f].at
                                                   /\ f = request[r].file
<1>1. RequestFits(request[r]) /\ flushing = [g \in UserFiles |-> flushing[g]]
    BY DEF UsageTypes
<1>2. CASE FlushFirst(r)
  <2>1. Files(r) \subseteq UserFiles
      BY <1>1, <1>2 DEF FlushFirst, AtUse, RequestFits, Files, DirectPCs
  <2>2. CASE flushing' # flushing
    <3>1. PICK f \in Files(r) : /\ queued[f] # NoTask /\ flushing[f].at = "idle" /\ UNCHANGED <<slips, size, queued>>
                                /\ flushing' = [flushing EXCEPT ![f] = [Idle EXCEPT !.at = "stat"]]
                                /\ Advance(r, "flushed")
        BY <1>2, <2>2 DEF FlushFirst
    <3>2. f \in UserFiles
        BY <2>1
    <3> DEFINE me == [Idle EXCEPT !.at = "stat"]
    <3>3. flushing' = [flushing EXCEPT ![f] = me]
        BY <3>1
    <3> HIDE DEF me
    <3>4. OtherFlushes(f) /\ flushing'[f] = me
        BY <3>2, <3>3, FlushNew
    <3> USE DEF me
    <3> QED
        BY <1>2, <3>1, <3>2, <3>4
  <2> QED
      BY <2>2
<1>3. CASE EnqueueFile(r)
  <2> DEFINE f == request[r].file
             current == flushing[f].current /\ flushing[f].at = "idle"
             me == [flushing[f] EXCEPT !.current = current]
  <2>1. f \in UserFiles
      BY <1>1, <1>3 DEF EnqueueFile, AtUse, RequestFits
  <2>2. flushing' = [flushing EXCEPT ![f] = me]
      BY <1>1, <1>3, <2>1 DEF EnqueueFile
  <2>3. /\ me.at = flushing[f].at /\ me.prev = flushing[f].prev /\ me.content = flushing[f].content
        /\ DOMAIN me = FlushFields /\ me = [x \in FlushFields |-> me[x]]
    <3>1. DOMAIN flushing[f] = FlushFields /\ flushing[f] = [x \in FlushFields |-> flushing[f][x]]
        BY <2>1 DEF UsageTypes, FlushFits
    <3> HIDE DEF current, f
    <3> QED
        BY <3>1 DEF FlushFields
  <2> HIDE DEF me
  <2>4. OtherFlushes(f) /\ flushing'[f] = me
      BY <2>1, <2>2, FlushNew
  <2>5. KeepsFlush(f) /\ flushing'[f].at = flushing[f].at
      BY <2>3, <2>4 DEF KeepsFlush
  <2> QED
      BY <1>3, <2>1, <2>4, <2>5
<1>4. CASE ~FlushFirst(r) /\ ~EnqueueFile(r)
    BY <1>4 DEF RequestStep, BeginRequest, FlushEnded, Measure, ReadPendingDelta, CheckQuota, ChangeFile, ChangeRow,
                Charge, SumRows, SetUsed, MarkDirty, AddIndexTask
<1> QED
    BY <1>2, <1>3, <1>4

LEMMA QueuedLonger ==
    ASSUME UsageTypes, NEW r \in Requests, RequestStep(r)
    PROVE \A f \in UserFiles : queued[f] # NoTask => queued'[f] # NoTask
<1>1. CASE EnqueueFile(r)
  <2>1. request[r].new \in Nat
      BY <1>1 DEF UsageTypes, EnqueueFile, AtUse, RequestFits
  <2> QED
      BY <1>1, <2>1, UsageAssumption DEF UsageTypes, EnqueueFile
<1>2. CASE ~EnqueueFile(r)
    BY <1>2 DEF RequestStep, BeginRequest, FlushFirst, FlushEnded, Measure, ReadPendingDelta, CheckQuota, ChangeFile,
                ChangeRow, Charge, SumRows, SetUsed, MarkDirty, AddIndexTask
<1> QED
    BY <1>1, <1>2

LEMMA RequestKeepsTypes == ASSUME UsageTypes, NEW r \in Requests, RequestStep(r) PROVE UsageTypes'
<1>1. /\ request' = [q \in Requests |-> request'[q]] /\ \A q \in Requests : RequestFits(request'[q])
      /\ size' \in [UserFiles -> Nat] /\ queued' \in [UserFiles -> Nat \cup {NoTask}]
      /\ row' \in [UserFiles -> Nat \cup {NoTask}]
      /\ quotaTask' = quotaTask /\ charging' = charging /\ syncing' = syncing
    BY RequestTypes, MapTypes
<1>2. flushing' = [f \in UserFiles |-> flushing'[f]] /\ \A f \in UserFiles : FlushFits(f)'
  <2>1. \A f \in UserFiles : FlushFits(f)
      BY DEF UsageTypes
  <2>2. CASE flushing' = flushing
    <3>1. \A f \in UserFiles : queued[f] # NoTask => queued'[f] # NoTask
        BY QueuedLonger
    <3> QED
        BY <2>1, <2>2, <3>1 DEF FlushFits, UsageTypes
  <2>3. CASE FlushFirst(r) /\ queued' = queued
             /\ \E f \in Files(r) : /\ f \in UserFiles /\ queued[f] # NoTask /\ flushing[f].at = "idle"
                                    /\ OtherFlushes(f) /\ flushing'[f] = [Idle EXCEPT !.at = "stat"]
    <3>1. PICK f \in UserFiles : queued[f] # NoTask /\ OtherFlushes(f) /\ flushing'[f] = [Idle EXCEPT !.at = "stat"]
        BY <2>3
    <3>2. FlushFits(f)'
        BY <2>3, <3>1, IdleFits DEF FlushFits, Turns
    <3> QED
      <4>1. \A g \in UserFiles \ {f} : FlushFits(g)'
        <5> SUFFICES ASSUME NEW g \in UserFiles \ {f} PROVE FlushFits(g)'
            OBVIOUS
        <5>1. flushing'[g] = flushing[g] /\ queued'[g] = queued[g]
            BY <2>3, <3>1 DEF OtherFlushes
        <5> QED
            BY <2>1, <5>1 DEF FlushFits
      <4> QED
          BY <3>1, <3>2, <4>1 DEF OtherFlushes
  <2>4. CASE EnqueueFile(r) /\ \E f \in UserFiles : /\ OtherFlushes(f) /\ KeepsFlush(f) /\ flushing'[f].at = flushing[f].at
                                                   /\ f = request[r].file
    <3>1. PICK f \in UserFiles : OtherFlushes(f) /\ KeepsFlush(f) /\ flushing'[f].at = flushing[f].at
        BY <2>4
    <3>2. \A g \in UserFiles : queued[g] # NoTask => queued'[g] # NoTask
        BY QueuedLonger
    <3>3. FlushFits(f)'
        BY <2>1, <3>1, <3>2 DEF FlushFits, KeepsFlush
    <3> QED
        BY <2>1, <3>1, <3>2, <3>3 DEF OtherFlushes, FlushFits
  <2> QED
      BY <2>2, <2>3, <2>4, RequestFlushes
<1> QED
    BY <1>1, <1>2 DEF UsageTypes

\* What a step of a flush is, of those that are not merely a turn further.
LEMMA FlushKeepsTypes == ASSUME UsageTypes, NEW f \in UserFiles, FlushStep(f) PROVE UsageTypes' /\ OtherFlushes(f)
<1>1. FlushFits(f) /\ flushing = [g \in UserFiles |-> flushing[g]] /\ \A g \in UserFiles : FlushFits(g)
    BY DEF UsageTypes
<1>2. UNCHANGED <<row, request, syncing, charging>>
    BY DEF FlushStep, BeginFileFlush, StatPrevious, FlushFile, LeaveQueue, ScheduleIndexSync, ScheduleQuotaSync,
           InsertQuotaTask, DropQuotaTask, indexVars, chargeVars
<1>3. ASSUME OtherFlushes(f), DOMAIN flushing'[f] = FlushFields, flushing'[f] = [x \in FlushFields |-> flushing'[f][x]],
             flushing'[f].at \in {"idle", "stat", "write", "drop"} \cup Turns,
             flushing'[f].prev \in Nat, flushing'[f].content \in Nat,
             flushing'[f].at \in {"stat", "write", "leave"} => queued'[f] # NoTask,
             \A g \in UserFiles \ {f} : queued'[g] = queued[g],
             size' \in [UserFiles -> Nat], queued' \in [UserFiles -> Nat \cup {NoTask}],
             quotaTask' \in Int \cup {NoTask}
      PROVE UsageTypes'
  <2>1. FlushFits(f)'
      BY <1>3 DEF FlushFits
  <2>2. \A g \in UserFiles \ {f} : FlushFits(g)'
    <3> SUFFICES ASSUME NEW g \in UserFiles \ {f} PROVE FlushFits(g)'
        OBVIOUS
    <3> QED
        BY <1>1, <1>3 DEF FlushFits, OtherFlushes
  <2> QED
      BY <1>2, <1>3, <2>1, <2>2 DEF UsageTypes, OtherFlushes
<1>4. /\ size \in [UserFiles -> Nat] /\ queued \in [UserFiles -> Nat \cup {NoTask}] /\ quotaTask \in Int \cup {NoTask}
      /\ flushing[f].prev \in Nat /\ flushing[f].content \in Nat
    BY <1>1 DEF UsageTypes, FlushFits
<1>5. CASE BeginFileFlush(f)
  <2>1. OtherFlushes(f) /\ flushing'[f] = [Idle EXCEPT !.at = "stat"]
    <3> DEFINE me == [Idle EXCEPT !.at = "stat"]
    <3>1. flushing' = [flushing EXCEPT ![f] = me]
        BY <1>5 DEF BeginFileFlush
    <3> HIDE DEF me
    <3>2. OtherFlushes(f) /\ flushing'[f] = me
        BY <3>1, FlushNew
    <3> USE DEF me
    <3> QED
        BY <3>2
  <2> QED
      BY <1>3, <1>4, <1>5, <2>1, IdleFits DEF BeginFileFlush, chargeVars
<1>6. CASE StatPrevious(f)
  <2> DEFINE me == [at |-> "write", prev |-> size[f], content |-> queued[f], current |-> TRUE]
  <2>1. flushing' = [flushing EXCEPT ![f] = me]
      BY <1>6 DEF StatPrevious
  <2>2. /\ DOMAIN me = FlushFields /\ me = [x \in FlushFields |-> me[x]] /\ me.at = "write"
        /\ me.prev = size[f] /\ me.content = queued[f]
      BY DEF FlushFields
  <2>3. queued[f] \in Nat /\ size[f] \in Nat /\ queued[f] # NoTask
      BY <1>1, <1>4, <1>6 DEF StatPrevious, FlushFits
  <2> HIDE DEF me
  <2>4. OtherFlushes(f) /\ flushing'[f] = me
      BY <2>1, FlushNew
  <2> QED
    <3>1. UNCHANGED <<size, queued, quotaTask>>
        BY <1>6 DEF StatPrevious, chargeVars
    <3>2. /\ DOMAIN flushing'[f] = FlushFields /\ flushing'[f] = [x \in FlushFields |-> flushing'[f][x]]
          /\ flushing'[f].at = "write" /\ flushing'[f].prev \in Nat /\ flushing'[f].content \in Nat
        BY <2>2, <2>3, <2>4
    <3> QED
        BY <1>3, <1>4, <2>3, <2>4, <3>1, <3>2
<1>7. CASE FlushFile(f) \/ LeaveQueue(f) \/ ScheduleIndexSync(f) \/ ScheduleQuotaSync(f) \/ InsertQuotaTask(f) \/ DropQuotaTask(f)
  <2>1. \/ flushing' = [flushing EXCEPT ![f] = Idle]
        \/ \E at \in {"leave", "index", "quota", "insert", "drop"} :
              /\ flushing' = [flushing EXCEPT ![f].at = at]
              /\ at = "leave" => flushing[f].at = "write" /\ queued' = queued
    <3>1. CASE ScheduleQuotaSync(f)
      <4>1. CASE quotaTask = NoTask
          BY <3>1, <4>1 DEF ScheduleQuotaSync
      <4>2. CASE quotaTask # NoTask
        <5>1. flushing' = [flushing EXCEPT ![f] = IF quotaTask' = 0 THEN [@ EXCEPT !.at = "drop"] ELSE Idle]
            BY <3>1, <4>2 DEF ScheduleQuotaSync
        <5>2. CASE quotaTask' = 0
            BY <1>1, <5>1, <5>2
        <5>3. CASE quotaTask' # 0
            BY <5>1, <5>3
        <5> QED
            BY <5>2, <5>3
      <4> QED
          BY <4>1, <4>2
    <3>2. CASE ScheduleIndexSync(f)
      <4>1. flushing' = [flushing EXCEPT ![f] = IF size[f] = flushing[f].prev THEN Idle ELSE [flushing[f] EXCEPT !.at = "quota"]]
          BY <1>1, <3>2 DEF ScheduleIndexSync
      <4>2. CASE size[f] = flushing[f].prev
          BY <4>1, <4>2
      <4>3. CASE size[f] # flushing[f].prev
          BY <1>1, <4>1, <4>3
      <4> QED
          BY <4>2, <4>3
    <3>3. CASE FlushFile(f)
        BY <3>3 DEF FlushFile
    <3>4. CASE LeaveQueue(f)
        BY <3>4 DEF LeaveQueue
    <3> QED
        BY <1>7, <3>1, <3>2, <3>3, <3>4 DEF InsertQuotaTask, DropQuotaTask
  <2>2. /\ size' \in [UserFiles -> Nat] /\ queued' \in [UserFiles -> Nat \cup {NoTask}] /\ quotaTask' \in Int \cup {NoTask}
        /\ \A g \in UserFiles \ {f} : queued'[g] = queued[g]
    <3>1. CASE FlushFile(f) \/ LeaveQueue(f) \/ ScheduleIndexSync(f)
        BY <1>4, <3>1 DEF FlushFile, LeaveQueue, ScheduleIndexSync, chargeVars, indexVars
    <3>2. CASE ScheduleQuotaSync(f) \/ InsertQuotaTask(f) \/ DropQuotaTask(f)
      <4>1. UNCHANGED <<size, queued>> /\ quotaTask' \in Int \cup {NoTask}
          BY <1>4, <3>2 DEF ScheduleQuotaSync, InsertQuotaTask, DropQuotaTask
      <4> QED
          BY <1>4, <4>1
    <3> QED
        BY <1>7, <3>1, <3>2
  <2>3. CASE flushing' = [flushing EXCEPT ![f] = Idle]
    <3>1. OtherFlushes(f) /\ flushing'[f] = Idle
        BY <2>3, FlushNew
    <3> QED
        BY <1>3, <2>2, <3>1, IdleFits
  <2>4. ASSUME NEW at \in {"leave", "index", "quota", "insert", "drop"}, flushing' = [flushing EXCEPT ![f].at = at],
               at = "leave" => flushing[f].at = "write" /\ queued' = queued
        PROVE UsageTypes' /\ OtherFlushes(f)
    <3>1. OtherFlushes(f) /\ KeepsFlush(f) /\ flushing'[f].at = at
        BY <2>4, FlushGoes
    <3>2. at = "leave" => queued'[f] # NoTask
        BY <1>1, <2>4 DEF FlushFits
    <3> QED
        BY <1>3, <1>4, <2>2, <3>1, <3>2 DEF KeepsFlush, Turns
  <2> QED
      BY <2>1, <2>3, <2>4
<1> QED
    BY <1>5, <1>6, <1>7 DEF FlushStep

SyncsOn(s) ==
    \E me : /\ syncing' = [syncing EXCEPT ![s] = me]
           /\ DOMAIN me = {"at", "listed"} /\ me = [x \in {"at", "listed"} |-> me[x]]
           /\ me.at \in {"idle", "list", "commit", "check", "clear"} /\ me.listed \in [UserFiles -> Nat]

\* What a run of a sync and the worker of the quota change.
LEMMA SyncKeepsTypes == ASSUME UsageTypes, NEW s \in Syncers, SyncStep(s) PROVE UsageTypes'
<1>1. UNCHANGED <<size, queued, request, flushing, quotaTask, charging, used>>
    BY DEF SyncStep, TakeIndexTask, ListFiles, CommitRows, CheckNewTask, ClearDirtyMarkers, chargeVars
<1>2. row' \in [UserFiles -> Nat \cup {NoTask}]
    BY DEF UsageTypes, SyncStep, TakeIndexTask, ListFiles, CommitRows, CheckNewTask, ClearDirtyMarkers
<1>3. SyncsOn(s)
  <2>1. /\ syncing = [q \in Syncers |-> syncing[q]] /\ size \in [UserFiles -> Nat]
        /\ DOMAIN syncing[s] = {"at", "listed"} /\ syncing[s] = [x \in {"at", "listed"} |-> syncing[s][x]]
        /\ syncing[s].listed \in [UserFiles -> Nat]
      BY DEF UsageTypes
  <2>2. ASSUME NEW at \in {"list", "clear"}, syncing' = [syncing EXCEPT ![s].at = at] PROVE SyncsOn(s)
    <3> DEFINE me == [syncing[s] EXCEPT !.at = at]
    <3>1. syncing' = [syncing EXCEPT ![s] = me]
        BY <2>1, <2>2
    <3>2. DOMAIN me = {"at", "listed"} /\ me = [x \in {"at", "listed"} |-> me[x]] /\ me.at = at
          /\ me.listed = syncing[s].listed
        BY <2>1
    <3> HIDE DEF me
    <3> QED
        BY <2>1, <3>1, <3>2 DEF SyncsOn
  <2>3. ASSUME NEW at \in {"idle", "check", "commit"}, NEW listed \in [UserFiles -> Nat],
               syncing' = [syncing EXCEPT ![s] = [at |-> at, listed |-> listed]] PROVE SyncsOn(s)
    <3> DEFINE me == [at |-> at, listed |-> listed]
    <3>1. DOMAIN me = {"at", "listed"} /\ me = [x \in {"at", "listed"} |-> me[x]] /\ me.at = at /\ me.listed = listed
        OBVIOUS
    <3> HIDE DEF me
    <3> QED
        BY <2>3, <3>1 DEF me, SyncsOn
  <2>4. /\ SyncIdle = [at |-> "idle", listed |-> [f \in UserFiles |-> 0]]
        /\ [SyncIdle EXCEPT !.at = "check"] = [at |-> "check", listed |-> [f \in UserFiles |-> 0]]
      BY DEF SyncIdle
  <2>5. \/ \E at \in {"list", "clear"} : syncing' = [syncing EXCEPT ![s].at = at]
        \/ \E at \in {"idle", "check", "commit"}, listed \in [UserFiles -> Nat] :
              syncing' = [syncing EXCEPT ![s] = [at |-> at, listed |-> listed]]
    <3>1. CASE TakeIndexTask(s)
        BY <3>1 DEF TakeIndexTask
    <3>2. CASE ListFiles(s) \/ CommitRows(s) \/ ClearDirtyMarkers(s)
      <4>1. [f \in UserFiles |-> 0] \in [UserFiles -> Nat]
          OBVIOUS
      <4> QED
          BY <2>1, <2>4, <3>2, <4>1 DEF ListFiles, CommitRows, ClearDirtyMarkers
    <3>3. CASE CheckNewTask(s)
      <4>1. syncing' = [syncing EXCEPT ![s] = IF indexTask THEN SyncIdle ELSE [syncing[s] EXCEPT !.at = "clear"]]
          BY <2>1, <3>3 DEF CheckNewTask
      <4>2. CASE indexTask
          BY <2>4, <4>1, <4>2
      <4>3. CASE ~indexTask
          BY <2>1, <4>1, <4>3
      <4> QED
          BY <4>2, <4>3
    <3> QED
        BY <3>1, <3>2, <3>3 DEF SyncStep
  <2> QED
      BY <2>2, <2>3, <2>5
<1>4. \A f \in UserFiles : FlushFits(f)'
    BY <1>1 DEF UsageTypes, FlushFits
<1> QED
    BY <1>1, <1>2, <1>3, <1>4 DEF UsageTypes, SyncsOn

LEMMA QuotaKeepsTypes == ASSUME UsageTypes, TakeQuotaTask \/ SyncUserQuota PROVE UsageTypes'
<1>1. UNCHANGED <<size, row, queued, syncing, request, flushing>>
    BY DEF TakeQuotaTask, SyncUserQuota, indexVars
<1>2. quotaTask' \in Int \cup {NoTask} /\ charging' \in Int \cup {NoTask}
    BY DEF UsageTypes, TakeQuotaTask, SyncUserQuota, Delta
<1>3. \A f \in UserFiles : FlushFits(f)'
    BY <1>1 DEF UsageTypes, FlushFits
<1> QED
    BY <1>1, <1>2, <1>3 DEF UsageTypes

LEMMA RestartKeepsTypes == ASSUME UsageTypes, RestartUsage PROVE UsageTypes'
<1>1. UNCHANGED <<size, row, queued>> /\ quotaTask' = NoTask /\ charging' = NoTask
    BY DEF RestartUsage
<1>2. /\ request' = [r \in Requests |-> request'[r]]
      /\ \A r \in Requests : request'[r] = request[r] \/ request'[r] = Ended
    BY DEF RestartUsage, UsageTypes
<1>3. \A r \in Requests : RequestFits(request'[r])
    BY <1>2, EndedFits DEF UsageTypes
<1>4. flushing' = [f \in UserFiles |-> flushing'[f]] /\ \A f \in UserFiles : FlushFits(f)'
    BY IdleFits DEF RestartUsage, FlushFits
<1>5. /\ syncing' = [s \in Syncers |-> syncing'[s]]
      /\ \A s \in Syncers : /\ DOMAIN syncing'[s] = {"at", "listed"} /\ syncing'[s] = [x \in {"at", "listed"} |-> syncing'[s][x]]
                            /\ syncing'[s].at = "idle" /\ syncing'[s].listed \in [UserFiles -> Nat]
    BY DEF RestartUsage, SyncIdle
<1> QED
    BY <1>1, <1>2, <1>3, <1>4, <1>5 DEF UsageTypes

LEMMA UsageTypesStep == ASSUME UsageTypes, UsageNext PROVE UsageTypes'
    BY RequestKeepsTypes, FlushKeepsTypes, SyncKeepsTypes, QuotaKeepsTypes, RestartKeepsTypes DEF UsageNext

LEMMA UsageActions == UsageMoves => UsageNext
    BY DEF UsageMoves, UsageNext, RequestStep, FlushStep, SyncStep

-----------------------------------------------------------------------------
(* Who works beside whom                                                    *)

\* Every step of a request but its first leaves it what it is, or is its last.
LEMMA RequestGoes ==
    ASSUME UsageTypes, NEW r \in Requests, RequestStep(r)
    PROVE /\ Others(r)
          /\ \/ BeginRequest(r)
             \/ Under(r) /\ (request'[r].pc = "end" \/ Keeps(r))
<1>1. CASE BeginRequest(r)
  <2>1. PICK me : request' = [request EXCEPT ![r] = me]
      BY <1>1 DEF BeginRequest
  <2> QED
      BY <1>1, <2>1 DEF Others, UsageTypes
<1>2. CASE Measure(r)
    BY <1>2, Measures, EndedFits DEF Measure, AtUse, Under, Others, UsageTypes
<1>3. CASE ReadPendingDelta(r) \/ SumRows(r)
    BY <1>3, Notes DEF ReadPendingDelta, SumRows, AtUse, Under
<1>4. CASE ~BeginRequest(r) /\ ~Measure(r) /\ ~ReadPendingDelta(r) /\ ~SumRows(r)
  <2>1. Under(r) /\ \E pc : Advance(r, pc)
      BY <1>4 DEF RequestStep, FlushFirst, FlushEnded, CheckQuota, ChangeFile, ChangeRow, Charge, SetUsed, EnqueueFile,
                  MarkDirty, AddIndexTask, AtUse, Under
  <2> QED
      BY <2>1, Advances DEF GoesTo, RequestFits
<1> QED
    BY <1>1, <1>2, <1>3, <1>4

LEMMA SlipsStay == UsageNext => slips \subseteq slips'
<1>1. ASSUME NEW r \in Requests, RequestStep(r) PROVE slips \subseteq slips'
    BY <1>1 DEF RequestStep, BeginRequest, FlushFirst, FlushEnded, Measure, ReadPendingDelta, CheckQuota, ChangeFile,
                ChangeRow, Charge, SumRows, SetUsed, EnqueueFile, MarkDirty, AddIndexTask, Slip
<1>2. ASSUME NEW f \in UserFiles, FlushStep(f) PROVE slips \subseteq slips'
    BY <1>2 DEF FlushStep, BeginFileFlush, StatPrevious, FlushFile, LeaveQueue, ScheduleIndexSync, ScheduleQuotaSync,
                InsertQuotaTask, DropQuotaTask, Slip
<1>3. ASSUME NEW s \in Syncers, SyncStep(s) PROVE slips \subseteq slips'
    BY <1>3 DEF SyncStep, TakeIndexTask, ListFiles, CommitRows, CheckNewTask, ClearDirtyMarkers, Slip
<1>4. ASSUME TakeQuotaTask \/ SyncUserQuota \/ RestartUsage PROVE slips \subseteq slips'
    BY <1>4 DEF TakeQuotaTask, SyncUserQuota, RestartUsage, Slip
<1> QED
    BY <1>1, <1>2, <1>3, <1>4 DEF UsageNext

LEMMA SharedOfRequests == ASSUME UsageTypes, UsageTypes', SharedInv, NEW r \in Requests, RequestStep(r) PROVE SharedInv'
<1> SUFFICES ASSUME ~(Both \subseteq slips') PROVE (Alone /\ TurnsFit)'
    BY DEF SharedInv
<1>1. Alone /\ TurnsFit
    BY SlipsStay DEF SharedInv, UsageNext
<1>2. Others(r) /\ (BeginRequest(r) \/ (Under(r) /\ (request'[r].pc = "end" \/ Keeps(r))))
    BY RequestGoes
<1>3. \A q \in Requests \ {r} : Under(q)' = Under(q) /\ Files(q)' = Files(q) /\ request'[q].pc = request[q].pc
    BY <1>2 DEF Under, Files, Others
<1>4. Keeps(r) => Files(r)' = Files(r)
    BY DEF Keeps, Files
<1>5. Files(r)' \subseteq UserFiles \/ ~Under(r)'
    BY DEF UsageTypes, RequestFits, Files, Under
<1>6. \A q \in Requests \ {r} : Under(r)' /\ Under(q)' => Files(q)' \cap Files(r)' = {}
  <2>1. CASE BeginRequest(r)
    <3>1. ~(\E q \in {p \in Requests \ {r} : Under(p)} : Files(q) \cap Files(r)' # {})
        BY <2>1 DEF BeginRequest
    <3> QED
        BY <1>3, <3>1
  <2>2. CASE Under(r) /\ (request'[r].pc = "end" \/ Keeps(r))
      BY <1>1, <1>3, <1>4, <2>2 DEF Alone, Under
  <2> QED
      BY <1>2, <2>1, <2>2
<1>7. \A p, q \in Requests : p # q /\ Under(p)' /\ Under(q)' => Files(p)' \cap Files(q)' = {}
    BY <1>1, <1>3, <1>6 DEF Alone
\* What it works on is flushed before.
<1>8. ASSUME NEW f \in UserFiles, request'[r].pc \in DirectPCs, f \in Files(r)' PROVE flushing[f].at = "idle"
  <2>1. CASE BeginRequest(r)
    <3>1. PICK kind \in RequestKinds, fl \in UserFiles, g \in UserFiles, n \in FileSizes \cup WriteEnds :
            (kind = "copy" => fl # g) /\ request' = [request EXCEPT ![r] = Issued(kind, fl, g, n)]
        BY <2>1 DEF BeginRequest
    <3>2. request'[r] = Issued(kind, fl, g, n) /\ kind \in AllRequests /\ n \in Nat
        BY <3>1, UsageAssumption DEF UsageTypes
    <3>3. request'[r].kind = kind /\ request'[r].pc = IF kind = "cached" THEN "enqueue" ELSE IF kind = "recount" THEN "sum"
                                                     ELSE IF kind = "stream" THEN "measure" ELSE "flush"
        BY <3>1, <3>2, IssuedFits
    <3>4. request'[r].kind = "stream" /\ f = request'[r].file
        BY <1>8, <3>3 DEF DirectPCs, Files
    <3> QED
        BY <2>1, <3>4 DEF BeginRequest
  <2>2. CASE FlushFirst(r)
    <3>1. Keeps(r)
        BY <1>2, <1>8, <2>2 DEF DirectPCs, BeginRequest, FlushFirst, AtUse
    <3>2. ~Advance(r, "flushed")
        BY <1>8, Advances DEF GoesTo, DirectPCs
    <3> QED
        BY <1>4, <1>8, <2>2, <3>1, <3>2 DEF FlushFirst, Slip
  <2>3. CASE FlushEnded(r)
    <3>1. Keeps(r)
        BY <1>2, <1>8, <2>3 DEF DirectPCs, BeginRequest, FlushEnded, AtUse
    <3> QED
        BY <1>4, <1>8, <2>3, <3>1 DEF FlushEnded
  <2>4. CASE ~BeginRequest(r) /\ ~FlushFirst(r) /\ ~FlushEnded(r)
    <3>1. Keeps(r)
        BY <1>2, <1>8, <2>4 DEF DirectPCs
    <3>2. request[r].pc \in DirectPCs
      <4>1. CASE SumRows(r)
        <5>1. ~ReadPendingDelta(r)
            BY <4>1 DEF ReadPendingDelta, SumRows, AtUse
        <5> QED
            BY <1>8, <4>1, <5>1, Notes DEF DirectPCs
      <4>2. CASE SetUsed(r) \/ EnqueueFile(r) \/ MarkDirty(r) \/ AddIndexTask(r)
        <5>1. Advance(r, "end") \/ Advance(r, "mark") \/ Advance(r, "task")
            BY <4>2 DEF SetUsed, EnqueueFile, MarkDirty, AddIndexTask
        <5> QED
            BY <1>8, <5>1, Advances DEF GoesTo, DirectPCs
      <4> QED
          BY <2>4, <4>1, <4>2 DEF RequestStep, Measure, ReadPendingDelta, CheckQuota, ChangeFile, ChangeRow, Charge,
                                 AtUse, DirectPCs
    <3> QED
        BY <1>1, <1>4, <1>8, <3>1, <3>2 DEF Alone
  <2> QED
      BY <2>1, <2>2, <2>3, <2>4
\* A flush that begins is that of the request's own file.
<1>9. ASSUME NEW q \in Requests, NEW f \in UserFiles, request'[q].pc \in DirectPCs, f \in Files(q)'
      PROVE flushing'[f].at = "idle"
  <2>1. flushing[f].at = "idle"
      BY <1>1, <1>3, <1>8, <1>9 DEF Alone
  <2>2. CASE flushing' = flushing
      BY <2>1, <2>2
  <2>3. CASE FlushFirst(r) /\ Advance(r, "flushed") /\ \E g \in Files(r) : g \in UserFiles /\ OtherFlushes(g)
    <3>1. q # r /\ Under(r) /\ Under(q)
        BY <1>3, <1>9, <2>3, Advances DEF GoesTo, DirectPCs, FlushFirst, AtUse, Under
    <3>2. PICK g \in Files(r) : g \in UserFiles /\ OtherFlushes(g)
        BY <2>3
    <3>3. f # g
        BY <1>1, <1>3, <1>9, <3>1 DEF Alone
    <3> QED
        BY <2>1, <3>2, <3>3 DEF OtherFlushes
  <2>4. CASE \E g \in UserFiles : OtherFlushes(g) /\ flushing'[g].at = flushing[g].at
      BY <2>1, <2>4 DEF OtherFlushes
  <2> QED
      BY <2>2, <2>3, <2>4, RequestFlushes
<1>10. Alone'
    BY <1>7, <1>9 DEF Alone
<1>11. ASSUME NEW f \in UserFiles PROVE TurnFits(f)'
  <2> SUFFICES ASSUME flushing'[f].at \in Turns \cup {"write"} PROVE TurnFits(f)'
      BY DEF TurnFits
  <2>1. /\ flushing[f].at = flushing'[f].at /\ flushing[f].content = flushing'[f].content
        /\ flushing[f].prev = flushing'[f].prev
    <3>1. CASE flushing' = flushing
        BY <3>1
    <3>2. CASE \E g \in UserFiles : OtherFlushes(g) /\ flushing'[g] = [Idle EXCEPT !.at = "stat"]
        BY <3>2, IdleFits DEF OtherFlushes, Turns
    <3>3. CASE \E g \in UserFiles : OtherFlushes(g) /\ KeepsFlush(g) /\ flushing'[g].at = flushing[g].at
        BY <3>3 DEF OtherFlushes, KeepsFlush
    <3> QED
        BY <3>1, <3>2, <3>3, RequestFlushes
  <2>2. size'[f] = size[f]
    <3>1. CASE ChangeFile(r)
      <4>1. request[r].pc \in DirectPCs /\ request[r].file \in Files(r) /\ request[r].file \in UserFiles
          BY <3>1 DEF ChangeFile, AtUse, DirectPCs, Files, UsageTypes, RequestFits
      <4>2. f # request[r].file
          BY <1>1, <2>1, <4>1 DEF Alone, Turns
      <4>3. size' = size \/ \E n : size' = [size EXCEPT ![request[r].file] = n]
          BY <3>1 DEF ChangeFile
      <4> QED
          BY <4>2, <4>3 DEF UsageTypes
    <3>2. CASE ~ChangeFile(r)
        BY <3>2 DEF RequestStep, BeginRequest, FlushFirst, FlushEnded, Measure, ReadPendingDelta, CheckQuota, ChangeRow,
                    Charge, SumRows, SetUsed, EnqueueFile, MarkDirty, AddIndexTask
    <3> QED
        BY <3>1, <3>2
  <2> QED
      BY <1>1, <2>1, <2>2 DEF TurnsFit, TurnFits
<1> QED
    BY <1>10, <1>11 DEF TurnsFit

\* The turns of a flush, with what they make of the sizes and of the task of the quota.
LEMMA FlushCases ==
    ASSUME UsageTypes, NEW f \in UserFiles, FlushStep(f)
    PROVE /\ OtherFlushes(f) /\ UNCHANGED <<request, row, used, charging, syncing>>
          /\ \/ /\ BeginFileFlush(f) /\ flushing[f].at = "idle" /\ flushing'[f].at = "stat" /\ UNCHANGED <<size, quotaTask>>
             \/ /\ flushing[f].at = "stat" /\ flushing'[f].at = "write" /\ flushing'[f].prev = size[f]
                /\ UNCHANGED <<size, quotaTask, slips>>
             \/ /\ FlushFile(f) /\ flushing[f].at = "write" /\ size' = [size EXCEPT ![f] = flushing[f].content]
                /\ KeepsFlush(f) /\ flushing'[f].at = "leave" /\ UNCHANGED <<quotaTask, slips>>
             \/ /\ flushing[f].at = "write" /\ flushing'[f].at = "idle" /\ UNCHANGED <<size, quotaTask, slips>>
             \/ /\ flushing[f].at \in {"leave", "index"} /\ UNCHANGED <<size, quotaTask>>
                /\ \/ KeepsFlush(f) /\ flushing'[f].at \in {"index", "quota"} /\ slips' = slips
                   \/ flushing'[f].at = "idle" /\ Slip(size[f] # flushing[f].prev, OfCharge)
             \/ /\ flushing[f].at = "quota" /\ UNCHANGED <<size, slips>>
                /\ \/ /\ quotaTask = NoTask /\ quotaTask' = quotaTask /\ KeepsFlush(f) /\ flushing'[f].at = "insert"
                   \/ /\ quotaTask # NoTask /\ quotaTask' = quotaTask + (flushing[f].content - flushing[f].prev)
                      /\ flushing'[f].at \in {"drop", "idle"}
             \/ /\ flushing[f].at = "insert" /\ flushing'[f].at = "idle" /\ size' = size
                /\ quotaTask' = flushing[f].content - flushing[f].prev /\ Slip(Delta # 0, OfCharge)
             \/ /\ flushing[f].at = "drop" /\ flushing'[f].at = "idle" /\ size' = size
                /\ quotaTask' = NoTask /\ Slip(Delta # 0, OfCharge)
<1>1. OtherFlushes(f) /\ FlushFits(f) /\ flushing = [g \in UserFiles |-> flushing[g]]
    BY FlushKeepsTypes DEF UsageTypes
<1>2. UNCHANGED <<request, row, used, charging, syncing>>
    BY DEF FlushStep, BeginFileFlush, StatPrevious, FlushFile, LeaveQueue, ScheduleIndexSync, ScheduleQuotaSync,
           InsertQuotaTask, DropQuotaTask, indexVars, chargeVars
<1>3. Idle.at = "idle" /\ (flushing' = [flushing EXCEPT ![f] = Idle] => flushing'[f].at = "idle")
  <2>1. flushing' = [flushing EXCEPT ![f] = Idle] => flushing'[f] = Idle
      BY <1>1
  <2> QED
      BY <2>1, IdleFits
<1>4. \A at : flushing' = [flushing EXCEPT ![f].at = at] => KeepsFlush(f) /\ flushing'[f].at = at
    BY FlushGoes
<1>5. CASE BeginFileFlush(f)
  <2> DEFINE me == [Idle EXCEPT !.at = "stat"]
  <2>1. flushing' = [flushing EXCEPT ![f] = me] /\ me.at = "stat"
      BY <1>5, IdleFits DEF BeginFileFlush
  <2> HIDE DEF me
  <2>2. flushing'[f].at = "stat"
      BY <1>1, <2>1
  <2> QED
      BY <1>1, <1>2, <1>5, <2>2 DEF BeginFileFlush, chargeVars
<1>6. CASE StatPrevious(f)
  <2>1. flushing'[f] = [at |-> "write", prev |-> size[f], content |-> queued[f], current |-> TRUE]
      BY <1>1, <1>6 DEF StatPrevious
  <2> QED
      BY <1>1, <1>2, <1>6, <2>1 DEF StatPrevious, chargeVars
<1>7. CASE FlushFile(f)
    BY <1>1, <1>2, <1>3, <1>4, <1>7 DEF FlushFile, chargeVars
<1>8. CASE LeaveQueue(f)
    BY <1>1, <1>2, <1>3, <1>4, <1>8 DEF LeaveQueue, chargeVars
<1>9. CASE ScheduleIndexSync(f)
  <2>1. flushing' = [flushing EXCEPT ![f] = IF size[f] = flushing[f].prev THEN Idle ELSE [flushing[f] EXCEPT !.at = "quota"]]
      BY <1>1, <1>9 DEF ScheduleIndexSync
  <2>2. CASE size[f] = flushing[f].prev
      BY <1>1, <1>2, <1>3, <1>9, <2>1, <2>2 DEF ScheduleIndexSync, chargeVars, Slip
  <2>3. CASE size[f] # flushing[f].prev
    <3>1. flushing' = [flushing EXCEPT ![f].at = "quota"]
        BY <1>1, <2>1, <2>3
    <3> QED
        BY <1>1, <1>2, <1>4, <1>9, <3>1 DEF ScheduleIndexSync, chargeVars
  <2> QED
      BY <2>2, <2>3
<1>10. CASE ScheduleQuotaSync(f)
  <2>1. CASE quotaTask = NoTask
      BY <1>1, <1>2, <1>4, <1>10, <2>1 DEF ScheduleQuotaSync
  <2>2. CASE quotaTask # NoTask
    <3>1. flushing' = [flushing EXCEPT ![f] = IF quotaTask' = 0 THEN [@ EXCEPT !.at = "drop"] ELSE Idle]
        BY <1>10, <2>2 DEF ScheduleQuotaSync
    <3>2. flushing'[f].at \in {"drop", "idle"}
      <4>1. CASE quotaTask' = 0
        <5>1. flushing' = [flushing EXCEPT ![f].at = "drop"]
            BY <1>1, <3>1, <4>1
        <5> QED
            BY <1>4, <5>1
      <4>2. CASE quotaTask' # 0
          BY <1>3, <3>1, <4>2
      <4> QED
          BY <4>1, <4>2
    <3> QED
        BY <1>1, <1>2, <1>10, <2>2, <3>2 DEF ScheduleQuotaSync
  <2> QED
      BY <2>1, <2>2
<1>11. CASE InsertQuotaTask(f) \/ DropQuotaTask(f)
    BY <1>1, <1>2, <1>3, <1>11 DEF InsertQuotaTask, DropQuotaTask
<1> QED
    BY <1>5, <1>6, <1>7, <1>8, <1>9, <1>10, <1>11 DEF FlushStep

LEMMA SharedOfFlushes == ASSUME UsageTypes, UsageTypes', SharedInv, NEW f \in UserFiles, FlushStep(f) PROVE SharedInv'
<1> SUFFICES ASSUME ~(Both \subseteq slips') PROVE (Alone /\ TurnsFit)'
    BY DEF SharedInv
<1>1. Alone /\ TurnsFit
    BY SlipsStay DEF SharedInv, UsageNext
<1>2. OtherFlushes(f) /\ request' = request
    BY FlushCases
<1>3. ASSUME NEW r \in Requests, request[r].pc \in DirectPCs, f \in Files(r) PROVE flushing'[f].at = "idle"
  <2>1. flushing[f].at = "idle"
      BY <1>1, <1>3 DEF Alone
  <2>2. BeginFileFlush(f)
      BY <2>1, FlushCases
  <2>3. Under(r) /\ request[r].kind # "cached"
      BY <1>3 DEF Under, DirectPCs, UsageTypes, RequestFits
  <2> QED
      BY <1>3, <2>2, <2>3 DEF BeginFileFlush
<1>4. Alone'
    BY <1>1, <1>2, <1>3 DEF Alone, Files, Under, OtherFlushes
<1>5. \A g \in UserFiles \ {f} : TurnFits(g)'
  <2> SUFFICES ASSUME NEW g \in UserFiles \ {f} PROVE TurnFits(g)'
      OBVIOUS
  <2>1. size'[g] = size[g]
      BY FlushCases DEF UsageTypes
  <2> QED
      BY <1>1, <1>2, <2>1 DEF TurnsFit, TurnFits, OtherFlushes
<1>6. TurnFits(f)'
  <2>1. TurnFits(f) /\ size \in [UserFiles -> Nat] /\ FlushFits(f)
      BY <1>1 DEF TurnsFit, UsageTypes
  <2> QED
      BY <2>1, FlushCases DEF TurnFits, Turns, KeepsFlush
<1> QED
    BY <1>4, <1>5, <1>6 DEF TurnsFit

LEMMA SharedStep == ASSUME UsageTypes, SharedInv, UsageNext PROVE SharedInv'
<1>1. UsageTypes' /\ slips \subseteq slips'
    BY UsageTypesStep, SlipsStay
<1>2. CASE UNCHANGED <<size, request, flushing>>
    BY <1>1, <1>2 DEF SharedInv, Alone, TurnsFit, TurnFits, Files, Under
<1>3. ASSUME NEW s \in Syncers, SyncStep(s) PROVE UNCHANGED <<size, request, flushing>>
    BY <1>3 DEF SyncStep, TakeIndexTask, ListFiles, CommitRows, CheckNewTask, ClearDirtyMarkers
<1>4. CASE TakeQuotaTask \/ SyncUserQuota
    BY <1>2, <1>4 DEF TakeQuotaTask, SyncUserQuota
<1>5. CASE RestartUsage
  <2>1. \A r \in Requests : request'[r].pc \in {"new", "end"}
    <3>1. \A r \in Requests : request'[r] = IF Under(r) THEN Ended ELSE request[r]
        BY <1>5 DEF RestartUsage
    <3> QED
        BY <3>1, EndedFits DEF Under
  <2>2. \A f \in UserFiles : flushing'[f].at = "idle"
      BY <1>5, IdleFits DEF RestartUsage
  <2> QED
      BY <2>1, <2>2 DEF SharedInv, Alone, TurnsFit, TurnFits, Turns, Under, DirectPCs
<1> QED
    BY <1>1, <1>2, <1>3, <1>4, <1>5, SharedOfRequests, SharedOfFlushes DEF UsageNext

-----------------------------------------------------------------------------
(* The charge                                                               *)

LEMMA StoredIsSum == Stored = SumOf(size, UserFiles) /\ Stored' = SumOf(size', UserFiles)
    BY DEF Stored, SumOf, MapThenSumSet, MapThenFoldSet

LEMMA StoredChanges ==
    ASSUME UsageTypes, UsageTypes', NEW f \in UserFiles, \A g \in UserFiles \ {f} : size'[g] = size[g]
    PROVE Stored' = Stored - size[f] + size'[f] /\ Stored \in Int
<1>1. \A g \in UserFiles : size[g] \in Int /\ size'[g] \in Int
    BY DEF UsageTypes
<1> QED
    BY <1>1, StoredIsSum, SumsChange, SumsAreIntegers, UsageAssumption

\* What is owed are numbers, and what one flush or one request owes makes its difference.
LEMMA OwingTypes ==
    ASSUME UsageTypes
    PROVE /\ \A f \in UserFiles : OwedByFlush[f] = FlushOwes(f) /\ FlushOwes(f) \in Int
          /\ \A r \in Requests : OwedByRequest[r] = RequestOwes(r) /\ RequestOwes(r) \in Int
          /\ SumOf(OwedByFlush, UserFiles) \in Int /\ SumOf(OwedByRequest, Requests) \in Int /\ Owed \in Int
<1>1. \A f \in UserFiles : OwedByFlush[f] = FlushOwes(f) /\ FlushOwes(f) \in Int
    BY DEF UsageTypes, FlushFits, FlushOwes, OwedByFlush
<1>2. \A r \in Requests : OwedByRequest[r] = RequestOwes(r) /\ RequestOwes(r) \in Int
    BY DEF UsageTypes, RequestFits, RequestOwes, OwedByRequest, Measured
<1> QED
    BY <1>1, <1>2, SumsAreIntegers, UsageAssumption DEF Owed

LEMMA OwedOfFlush ==
    ASSUME UsageTypes, UsageTypes', NEW f \in UserFiles, OtherFlushes(f),
           \A r \in Requests : RequestOwes(r)' = RequestOwes(r)
    PROVE Owed' = Owed - FlushOwes(f) + FlushOwes(f)'
<1>1. /\ \A g \in UserFiles : OwedByFlush[g] = FlushOwes(g) /\ FlushOwes(g) \in Int
      /\ \A g \in UserFiles : OwedByFlush'[g] = FlushOwes(g)' /\ FlushOwes(g)' \in Int
      /\ \A r \in Requests : OwedByRequest[r] = RequestOwes(r) /\ RequestOwes(r) \in Int
      /\ \A r \in Requests : OwedByRequest'[r] = RequestOwes(r)'
      /\ SumOf(OwedByFlush, UserFiles) \in Int /\ SumOf(OwedByRequest, Requests) \in Int
    BY OwingTypes DEF UsageTypes, FlushFits, FlushOwes, OwedByFlush, RequestOwes, OwedByRequest
<1>2. \A g \in UserFiles \ {f} : FlushOwes(g)' = FlushOwes(g)
    BY DEF OtherFlushes, FlushOwes
<1>3. SumOf(OwedByFlush', UserFiles) = SumOf(OwedByFlush, UserFiles) - FlushOwes(f) + FlushOwes(f)'
    BY <1>1, <1>2, SumsChange, UsageAssumption
<1>4. SumOf(OwedByRequest', Requests) = SumOf(OwedByRequest, Requests)
    BY <1>1, SumsAgree, UsageAssumption
<1>5. Owed' = SumOf(OwedByFlush', UserFiles) + SumOf(OwedByRequest', Requests)
    BY DEF Owed
<1> QED
    BY <1>1, <1>3, <1>4, <1>5 DEF Owed

LEMMA OwedOfRequest ==
    ASSUME UsageTypes, UsageTypes', NEW r \in Requests, Others(r),
           \A f \in UserFiles : FlushOwes(f)' = FlushOwes(f)
    PROVE Owed' = Owed - RequestOwes(r) + RequestOwes(r)'
<1>1. /\ \A g \in UserFiles : OwedByFlush[g] = FlushOwes(g) /\ FlushOwes(g) \in Int
      /\ \A g \in UserFiles : OwedByFlush'[g] = FlushOwes(g)'
      /\ \A q \in Requests : OwedByRequest[q] = RequestOwes(q) /\ RequestOwes(q) \in Int
      /\ \A q \in Requests : OwedByRequest'[q] = RequestOwes(q)' /\ RequestOwes(q)' \in Int
      /\ SumOf(OwedByFlush, UserFiles) \in Int /\ SumOf(OwedByRequest, Requests) \in Int
    BY OwingTypes DEF UsageTypes, RequestFits, Measured, FlushOwes, OwedByFlush, RequestOwes, OwedByRequest
<1>2. \A q \in Requests \ {r} : RequestOwes(q)' = RequestOwes(q)
    BY DEF Others, RequestOwes
<1>3. SumOf(OwedByRequest', Requests) = SumOf(OwedByRequest, Requests) - RequestOwes(r) + RequestOwes(r)'
    BY <1>1, <1>2, SumsChange, UsageAssumption
<1>4. SumOf(OwedByFlush', UserFiles) = SumOf(OwedByFlush, UserFiles)
    BY <1>1, SumsAgree, UsageAssumption
<1>5. Owed' = SumOf(OwedByFlush', UserFiles) + SumOf(OwedByRequest', Requests)
    BY DEF Owed
<1> QED
    BY <1>1, <1>3, <1>4, <1>5 DEF Owed

LEMMA NothingOwed ==
    ASSUME UsageTypes, \A f \in UserFiles : flushing[f].at = "idle", \A r \in Requests : RequestOwes(r) = 0
    PROVE Owed = 0
<1>1. /\ \A f \in UserFiles : OwedByFlush[f] = 0
      /\ \A r \in Requests : OwedByRequest[r] = 0
    BY OwingTypes DEF FlushOwes, Turns
<1>2. SumOf(OwedByFlush, UserFiles) = 0 /\ SumOf(OwedByRequest, Requests) = 0
    BY <1>1, SumOfZeros, UsageAssumption
<1> QED
    BY <1>2 DEF Owed

\* What a request measured stays right while its files stay.
LEMMA SameGrowth ==
    ASSUME UsageTypes, NEW r \in Requests, request[r].pc \in DirectPCs, request'[r] = request[r],
           \A g \in Files(r) : size'[g] = size[g]
    PROVE GrowthOf(request[r])' = GrowthOf(request[r])
<1>1. request[r].file \in Files(r) /\ (request[r].kind = "copy" => request[r].from \in Files(r))
      /\ request[r].kind \in {"write", "stream", "writeAt", "copy", "delete"}
    BY DEF Files, UsageTypes, RequestFits, AllRequests, DirectPCs
<1> QED
    BY <1>1 DEF GrowthOf

\* A flush takes what it owes to the task of the quota.
LEMMA ChargeOfFlushes ==
    ASSUME UsageTypes, UsageTypes', SharedInv, ChargeInv, NEW f \in UserFiles, FlushStep(f) PROVE ChargeInv'
<1> SUFFICES ASSUME "charge" \notin slips' PROVE ChargeInv'
    BY DEF ChargeInv
<1>1. "charge" \notin slips /\ Alone /\ TurnFits(f)
    BY SlipsStay DEF SharedInv, UsageNext, TurnsFit, Both, OfCharge
<1>2. /\ MeasuresFit /\ used \in Int /\ Stored = used + Amount(quotaTask) + Amount(charging) + Owed
    BY <1>1 DEF ChargeInv
<1>3. UNCHANGED <<request, used, charging>> /\ OtherFlushes(f)
    BY FlushCases
<1>4. \A g \in UserFiles \ {f} : size'[g] = size[g]
    BY FlushCases DEF UsageTypes
<1>5. Stored' = Stored - size[f] + size'[f] /\ Stored \in Int
    BY <1>4, StoredChanges
<1>6. Owed' = Owed - FlushOwes(f) + FlushOwes(f)' /\ Owed \in Int /\ FlushOwes(f) \in Int /\ FlushOwes(f)' \in Int
  <2>1. \A r \in Requests : RequestOwes(r)' = RequestOwes(r)
      BY <1>3 DEF RequestOwes
  <2>2. FlushOwes(f)' \in Int
      BY DEF UsageTypes, FlushFits, FlushOwes
  <2> QED
      BY <1>3, <2>1, <2>2, OwedOfFlush, OwingTypes
<1>7. /\ size[f] \in Nat /\ size'[f] \in Nat /\ flushing[f].prev \in Nat /\ flushing[f].content \in Nat
      /\ Amount(quotaTask) \in Int /\ Amount(quotaTask') \in Int /\ Amount(charging) \in Int
    BY DEF UsageTypes, FlushFits, Amount
<1>8. size'[f] - size[f] = Amount(quotaTask') - Amount(quotaTask) + FlushOwes(f)' - FlushOwes(f)
  <2>1. /\ "leave" \in Turns /\ "index" \in Turns /\ "quota" \in Turns /\ "insert" \in Turns
        /\ "idle" \notin Turns /\ "stat" \notin Turns /\ "write" \notin Turns /\ "drop" \notin Turns
      BY DEF Turns
  <2>2. /\ flushing[f].at \in Turns => FlushOwes(f) = flushing[f].content - flushing[f].prev /\ size[f] = flushing[f].content
        /\ flushing[f].at \notin Turns => FlushOwes(f) = 0
        /\ flushing'[f].at \in Turns => FlushOwes(f)' = flushing'[f].content - flushing'[f].prev
        /\ flushing'[f].at \notin Turns => FlushOwes(f)' = 0
        /\ flushing[f].at = "write" => size[f] = flushing[f].prev
      BY <1>1 DEF TurnFits, FlushOwes
  <2>3. Delta = Amount(quotaTask) /\ (quotaTask' \in Int => Amount(quotaTask') = quotaTask')
        /\ (quotaTask \in Int => Amount(quotaTask) = quotaTask) /\ Amount(NoTask) = 0
      BY UsageAssumption DEF Delta, Amount
  <2>4. /\ Slip(size[f] # flushing[f].prev, OfCharge) => size[f] = flushing[f].prev
        /\ Slip(Delta # 0, OfCharge) => Delta = 0
      BY DEF Slip, OfCharge
  <2>5. CASE /\ flushing[f].at = "write" /\ size' = [size EXCEPT ![f] = flushing[f].content]
             /\ KeepsFlush(f) /\ flushing'[f].at = "leave" /\ quotaTask' = quotaTask
    <3>1. size'[f] = flushing[f].content
        BY <2>5 DEF UsageTypes
    <3> QED
        BY <1>7, <2>1, <2>2, <2>5, <3>1 DEF KeepsFlush
  <2>6. CASE flushing[f].at \notin Turns /\ flushing'[f].at \notin Turns /\ UNCHANGED <<size, quotaTask>>
      BY <1>7, <2>2, <2>6
  <2>7. CASE /\ flushing[f].at \in {"leave", "index"} /\ UNCHANGED <<size, quotaTask>>
             /\ \/ KeepsFlush(f) /\ flushing'[f].at \in {"index", "quota"} /\ slips' = slips
                \/ flushing'[f].at = "idle" /\ Slip(size[f] # flushing[f].prev, OfCharge)
    <3>1. flushing[f].at \in Turns /\ FlushOwes(f) = flushing[f].content - flushing[f].prev
          /\ size[f] = flushing[f].content /\ size'[f] = size[f]
        BY <2>1, <2>2, <2>7
    <3>2. CASE KeepsFlush(f) /\ flushing'[f].at \in {"index", "quota"}
      <4>1. FlushOwes(f)' = FlushOwes(f)
          BY <2>1, <2>2, <3>1, <3>2 DEF KeepsFlush
      <4> QED
          BY <1>7, <2>7, <3>1, <4>1
    <3>3. CASE flushing'[f].at = "idle" /\ Slip(size[f] # flushing[f].prev, OfCharge)
      <4>1. FlushOwes(f)' = 0 /\ FlushOwes(f) = 0
          BY <1>7, <2>1, <2>2, <2>4, <3>1, <3>3
      <4> QED
          BY <1>7, <2>7, <3>1, <4>1
    <3> QED
        BY <2>7, <3>2, <3>3
  <2>8. CASE /\ flushing[f].at = "quota" /\ UNCHANGED <<size, slips>>
             /\ \/ /\ quotaTask = NoTask /\ quotaTask' = quotaTask /\ KeepsFlush(f) /\ flushing'[f].at = "insert"
                \/ /\ quotaTask # NoTask /\ quotaTask' = quotaTask + (flushing[f].content - flushing[f].prev)
                   /\ flushing'[f].at \in {"drop", "idle"}
    <3>1. CASE KeepsFlush(f) /\ flushing'[f].at = "insert" /\ quotaTask' = quotaTask
        BY <1>7, <2>1, <2>2, <2>8, <3>1 DEF KeepsFlush
    <3>2. CASE /\ quotaTask # NoTask /\ quotaTask' = quotaTask + (flushing[f].content - flushing[f].prev)
               /\ flushing'[f].at \in {"drop", "idle"}
      <4>1. quotaTask \in Int /\ quotaTask' \in Int
          BY <1>7, <3>2 DEF UsageTypes
      <4> QED
          BY <1>7, <2>1, <2>2, <2>3, <2>8, <3>2, <4>1
    <3> QED
        BY <2>8, <3>1, <3>2
  <2>9. CASE /\ flushing[f].at = "insert" /\ flushing'[f].at = "idle" /\ size' = size
             /\ quotaTask' = flushing[f].content - flushing[f].prev /\ Slip(Delta # 0, OfCharge)
      BY <1>7, <2>1, <2>2, <2>3, <2>4, <2>9
  <2>10. CASE /\ flushing[f].at = "drop" /\ flushing'[f].at = "idle" /\ size' = size
              /\ quotaTask' = NoTask /\ Slip(Delta # 0, OfCharge)
      BY <1>7, <2>1, <2>2, <2>3, <2>4, <2>10
  <2> QED
      BY <2>1, <2>5, <2>6, <2>7, <2>8, <2>9, <2>10, FlushCases
<1>9. Stored' = used' + Amount(quotaTask') + Amount(charging') + Owed'
    BY <1>2, <1>3, <1>5, <1>6, <1>7, <1>8
\* Who has measured works on files that are flushed.
<1>10. MeasuresFit'
  <2> SUFFICES ASSUME NEW r \in Requests, request[r].pc \in {"pending", "quota", "store"}
               PROVE GrowthOf(request[r])' = GrowthOf(request[r])
      BY <1>2, <1>3 DEF MeasuresFit
  <2>1. size' # size => f \notin Files(r)
      BY <1>1, FlushCases DEF Alone, DirectPCs
  <2> QED
    <3>1. \A g \in Files(r) : size'[g] = size[g]
      <4>1. Files(r) \subseteq UserFiles
          BY DEF Files, UsageTypes, RequestFits
      <4> QED
          BY <1>4, <2>1, <4>1
    <3> QED
        BY <1>3, <3>1, SameGrowth DEF DirectPCs
<1> QED
    BY <1>2, <1>3, <1>9, <1>10 DEF ChargeInv

\* What the change of a file makes, and what a request has measured.
LEMMA ChangeGrows ==
    ASSUME UsageTypes, UsageTypes', "charge" \notin slips', MeasuresFit, NEW r \in Requests, ChangeFile(r)
    PROVE \/ size' = size /\ Advance(r, "end")
          \/ /\ Advance(r, "chargeFirst") \/ Advance(r, "index")
             /\ \A g \in UserFiles \ {request[r].file} : size'[g] = size[g]
             /\ size'[request[r].file] = size[request[r].file] + request[r].diff
<1> DEFINE q == request[r]
           f == request[r].file
<1>1. /\ q.kind \in {"write", "stream", "writeAt", "copy", "delete"} /\ f \in UserFiles /\ q.from \in UserFiles
      /\ q.new \in Nat /\ size \in [UserFiles -> Nat]
    BY DEF ChangeFile, AtUse, UsageTypes, RequestFits, DirectPCs, AllRequests
<1>2. q.diff = GrowthOf(q)
    BY DEF MeasuresFit, ChangeFile, AtUse
<1>3. q.kind = "writeAt" => Max({size[f], q.new}) = size[f] + GrowthOf(q)
  <2>1. size[f] \in Int /\ q.new \in Int
      BY <1>1
  <2>2. Max({size[f], q.new}) = IF size[f] >= q.new THEN size[f] ELSE q.new
      BY <2>1, LargerOf
  <2>3. q.kind = "writeAt" => GrowthOf(q) = IF q.new > size[f] THEN q.new - size[f] ELSE 0
      BY DEF GrowthOf
  <2> QED
      BY <2>1, <2>2, <2>3
<1>4. CASE size' = size /\ Advance(r, "end")
    BY <1>4
<1>5. CASE /\ size' = [size EXCEPT ![f] = CASE q.kind \in {"write", "stream"} -> q.new
                                            [] q.kind = "writeAt" -> Max({size[f], q.new})
                                            [] q.kind = "copy" -> size[q.from]
                                            [] q.kind = "delete" -> 0]
           /\ Advance(r, "chargeFirst") \/ Advance(r, "index")
  <2>1. (CASE q.kind \in {"write", "stream"} -> q.new [] q.kind = "writeAt" -> Max({size[f], q.new})
           [] q.kind = "copy" -> size[q.from] [] q.kind = "delete" -> 0) = size[f] + GrowthOf(q)
    <3>1. CASE q.kind \in {"write", "stream"}
        BY <1>1, <3>1 DEF GrowthOf
    <3>2. CASE q.kind = "writeAt"
        BY <1>1, <1>3, <3>2
    <3>3. CASE q.kind = "copy"
        BY <1>1, <3>3 DEF GrowthOf
    <3>4. CASE q.kind = "delete"
        BY <1>1, <3>4 DEF GrowthOf
    <3> QED
        BY <1>1, <3>1, <3>2, <3>3, <3>4
  <2>2. size' = [size EXCEPT ![f] = size[f] + GrowthOf(q)]
      BY <1>5, <2>1
  <2> QED
      BY <1>1, <1>2, <1>5, <2>2
<1>6. ~(slips' = slips \cup Both)
    BY DEF Both, OfCharge
<1> QED
    BY <1>4, <1>5, <1>6 DEF ChangeFile

LEMMA ChargeOfRequests ==
    ASSUME UsageTypes, UsageTypes', SharedInv, ChargeInv, NEW r \in Requests, RequestStep(r) PROVE ChargeInv'
<1> SUFFICES ASSUME "charge" \notin slips' PROVE ChargeInv'
    BY DEF ChargeInv
<1>1. "charge" \notin slips /\ Alone /\ TurnsFit
    BY SlipsStay DEF SharedInv, UsageNext, Both, OfCharge
<1>2. /\ MeasuresFit /\ used \in Int /\ Stored = used + Amount(quotaTask) + Amount(charging) + Owed
    BY <1>1 DEF ChargeInv
<1>3. Others(r) /\ quotaTask' = quotaTask /\ charging' = charging
    BY RequestGoes, MapTypes
<1>4. \A f \in UserFiles : FlushOwes(f)' = FlushOwes(f)
  <2>1. CASE flushing' = flushing
      BY <2>1 DEF FlushOwes
  <2>2. CASE \E f \in UserFiles : flushing[f].at = "idle" /\ OtherFlushes(f) /\ flushing'[f] = [Idle EXCEPT !.at = "stat"]
      BY <2>2, IdleFits DEF FlushOwes, OtherFlushes, Turns
  <2>3. CASE \E f \in UserFiles : OtherFlushes(f) /\ KeepsFlush(f) /\ flushing'[f].at = flushing[f].at
      BY <2>3 DEF FlushOwes, OtherFlushes, KeepsFlush
  <2> QED
      BY <2>1, <2>2, <2>3, RequestFlushes
<1>5. /\ Owed' = Owed - RequestOwes(r) + RequestOwes(r)' /\ Owed \in Int /\ RequestOwes(r) \in Int /\ RequestOwes(r)' \in Int
  <2>1. RequestOwes(r)' \in Int
      BY DEF UsageTypes, RequestFits, RequestOwes, Measured
  <2> QED
      BY <1>3, <1>4, <2>1, OwedOfRequest, OwingTypes
<1>6. Amount(quotaTask) \in Int /\ Amount(charging) \in Int /\ Stored \in Int
  <2>1. Stored \in Int
      BY StoredIsSum, SumsAreIntegers, UsageAssumption DEF UsageTypes
  <2> QED
      BY <2>1 DEF UsageTypes, Amount
\* The other requests have measured their own files.
<1>7. ASSUME \A g \in UserFiles : size'[g] # size[g] => g \in Files(r) /\ Under(r),
             request'[r].pc \in {"pending", "quota", "store"} => request'[r].diff = GrowthOf(request[r])'
      PROVE MeasuresFit'
  <2> SUFFICES ASSUME NEW q \in Requests \ {r}, request[q].pc \in {"pending", "quota", "store"}
               PROVE GrowthOf(request[q])' = request[q].diff
      BY <1>3, <1>7 DEF MeasuresFit, Others
  <2>1. Files(q) \subseteq UserFiles /\ request'[q] = request[q]
      BY <1>3 DEF Files, UsageTypes, RequestFits, Others
  <2>2. \A g \in Files(q) : size'[g] = size[g]
      BY <1>1, <1>7, <2>1 DEF Alone, Under
  <2>3. GrowthOf(request[q])' = GrowthOf(request[q])
      BY <2>1, <2>2, SameGrowth DEF DirectPCs
  <2> QED
      BY <1>2, <2>3 DEF MeasuresFit
\* Most leave the files and the charge alone.
<1>8. ASSUME UNCHANGED <<size, used>>, RequestOwes(r)' = RequestOwes(r),
             request'[r].pc \in {"pending", "quota", "store"} => request'[r].diff = GrowthOf(request'[r])
      PROVE ChargeInv'
  <2>1. Stored' = Stored
      BY <1>8, StoredIsSum
  <2>2. GrowthOf(request[r])' = GrowthOf(request'[r])
      BY <1>8 DEF GrowthOf
  <2>3. MeasuresFit'
      BY <1>7, <1>8, <2>2
  <2> QED
      BY <1>2, <1>3, <1>5, <1>6, <1>8, <2>1, <2>3 DEF ChargeInv
<1>9. CASE BeginRequest(r)
  <2>1. PICK kind \in RequestKinds, f \in UserFiles, g \in UserFiles, n \in FileSizes \cup WriteEnds :
          (kind = "copy" => f # g) /\ request' = [request EXCEPT ![r] = Issued(kind, f, g, n)]
      BY <1>9 DEF BeginRequest
  <2>2. request'[r] = Issued(kind, f, g, n) /\ kind \in AllRequests /\ n \in Nat
      BY <2>1, UsageAssumption DEF UsageTypes
  <2>3. request'[r].pc \in {"enqueue", "sum", "measure", "flush"}
      BY <2>1, <2>2, IssuedFits
  <2>4. UNCHANGED <<size, used>> /\ request[r].pc = "new"
      BY <1>9 DEF BeginRequest, AtUse, chargeVars
  <2> QED
      BY <1>8, <2>3, <2>4 DEF RequestOwes
<1>10. CASE FlushFirst(r) \/ FlushEnded(r) \/ EnqueueFile(r) \/ MarkDirty(r) \/ AddIndexTask(r)
  <2>1. \E pc \in {"flushed", "measure", "end", "mark", "task"} : Advance(r, pc)
      BY <1>10 DEF FlushFirst, FlushEnded, EnqueueFile, MarkDirty, AddIndexTask
  <2>2. request'[r].pc \in {"flushed", "measure", "end", "mark", "task"}
      BY <2>1, Advances DEF GoesTo
  <2>3. UNCHANGED <<size, used>> /\ request[r].pc \in {"flush", "flushed", "enqueue", "mark", "task"}
      BY <1>10 DEF FlushFirst, FlushEnded, EnqueueFile, MarkDirty, AddIndexTask, AtUse, chargeVars
  <2> QED
      BY <1>8, <2>2, <2>3 DEF RequestOwes
<1>11. CASE Measure(r)
  <2>1. UNCHANGED <<size, used>> /\ request[r].pc = "measure"
      BY <1>11 DEF Measure, AtUse, chargeVars
  <2>2. CASE request' = [request EXCEPT ![r] = Ended]
    <3>1. request'[r].pc = "end"
        BY <2>2, EndedFits DEF UsageTypes
    <3> QED
        BY <1>8, <2>1, <3>1 DEF RequestOwes
  <2>3. CASE Others(r) /\ Keeps(r) /\ request'[r].diff = Growth(r) /\ request'[r].pc \in {"pending", "store"}
    <3>1. request[r].kind \in {"write", "stream", "writeAt", "copy", "delete"} /\ request[r].new \in Nat
          /\ request[r].file \in UserFiles /\ request[r].from \in UserFiles
        BY <2>1 DEF UsageTypes, RequestFits, DirectPCs, AllRequests
    <3>2. /\ \A f \in Files(r) : SizeOf(f) = size[f]
          /\ request[r].kind = "copy" => size[request[r].file] = 0
        BY <1>11 DEF Measure, Slip, OfCharge
    <3>3. request[r].file \in Files(r) /\ (request[r].kind = "copy" => request[r].from \in Files(r))
        BY <3>1 DEF Files
    <3>4. size[request[r].file] \in Nat /\ size[request[r].from] \in Nat
        BY <3>1 DEF UsageTypes
    <3>5. Growth(r) = GrowthOf(request[r])
      <4>1. CASE request[r].kind = "writeAt"
        <5>1. Growth(r) = Max({0, request[r].new - size[request[r].file]})
            BY <3>2, <3>3, <4>1 DEF Growth
        <5> QED
          <6>1. request[r].new - size[request[r].file] \in Int /\ 0 \in Int
              BY <3>1, <3>4
          <6>2. Growth(r) = IF 0 >= request[r].new - size[request[r].file] THEN 0 ELSE request[r].new - size[request[r].file]
              BY <5>1, <6>1, LargerOf
          <6>3. GrowthOf(request[r]) = IF request[r].new > size[request[r].file]
                                       THEN request[r].new - size[request[r].file] ELSE 0
              BY <4>1 DEF GrowthOf
          <6> QED
              BY <3>1, <3>4, <6>2, <6>3
      <4>2. CASE request[r].kind # "writeAt"
          BY <3>1, <3>2, <3>3, <3>4, <4>2 DEF Growth, GrowthOf
      <4> QED
          BY <4>1, <4>2
    <3>6. GrowthOf(request'[r]) = GrowthOf(request[r])
        BY <2>3 DEF GrowthOf, Keeps
    <3> QED
        BY <1>8, <2>1, <2>3, <3>5, <3>6 DEF RequestOwes
  <2> QED
      BY <1>11, <2>2, <2>3, Measures
<1>12. CASE ReadPendingDelta(r) \/ SumRows(r) \/ CheckQuota(r)
  <2>1. UNCHANGED <<size, used>> /\ request[r].pc \in {"pending", "sum", "quota"}
      BY <1>12 DEF ReadPendingDelta, SumRows, CheckQuota, AtUse, chargeVars
  <2>2. \/ request'[r].pc \in {"set", "end"}
        \/ /\ request'[r].pc \in {"quota", "store"} /\ Keeps(r) /\ request'[r].diff = request[r].diff
           /\ request[r].pc \in {"pending", "quota"}
    <3>1. CASE CheckQuota(r)
      <4>1. Advance(r, "end") \/ Advance(r, "store")
          BY <3>1 DEF CheckQuota
      <4> QED
          BY <3>1, <4>1, Advances DEF GoesTo, CheckQuota, AtUse
    <3>2. CASE ReadPendingDelta(r)
        BY <3>2, Notes DEF ReadPendingDelta, AtUse
    <3>3. CASE SumRows(r)
      <4>1. ~ReadPendingDelta(r)
          BY <3>3 DEF ReadPendingDelta, SumRows, AtUse
      <4> QED
          BY <3>3, <4>1, Notes
    <3> QED
        BY <1>12, <3>1, <3>2, <3>3
  <2>3. RequestOwes(r)' = RequestOwes(r)
      BY <2>1, <2>2 DEF RequestOwes
  <2>4. request'[r].pc \in {"pending", "quota", "store"} => request'[r].diff = GrowthOf(request'[r])
      BY <1>2, <2>2 DEF MeasuresFit, GrowthOf, Keeps
  <2> QED
      BY <1>8, <2>1, <2>3, <2>4
<1>13. CASE ChangeFile(r)
  <2>1. request[r].pc = "store" /\ used' = used /\ request[r].file \in UserFiles /\ request[r].file \in Files(r)
      BY <1>13 DEF ChangeFile, AtUse, chargeVars, UsageTypes, RequestFits, DirectPCs, Files
  <2>2. CASE size' = size /\ Advance(r, "end")
      BY <1>8, <2>1, <2>2, Advances DEF GoesTo, RequestOwes
  <2>3. CASE /\ Advance(r, "chargeFirst") \/ Advance(r, "index")
             /\ \A g \in UserFiles \ {request[r].file} : size'[g] = size[g]
             /\ size'[request[r].file] = size[request[r].file] + request[r].diff
    <3>1. request'[r].pc \in {"chargeFirst", "index"} /\ request'[r].diff = request[r].diff
        BY <2>3, Advances DEF GoesTo
    <3>2. Stored' = Stored - size[request[r].file] + size'[request[r].file]
        BY <2>1, <2>3, StoredChanges
    <3>3. request[r].diff \in Int /\ size[request[r].file] \in Int
        BY <2>1 DEF UsageTypes, RequestFits, Measured
    <3>4. RequestOwes(r) = 0 /\ RequestOwes(r)' = request[r].diff
        BY <2>1, <3>1 DEF RequestOwes
    <3>5. MeasuresFit'
        BY <1>7, <2>1, <2>3, <3>1 DEF Under
    <3>6. Stored' = used' + Amount(quotaTask') + Amount(charging') + Owed'
        BY <1>2, <1>3, <1>5, <1>6, <2>1, <2>3, <3>2, <3>3, <3>4
    <3> QED
        BY <1>2, <2>1, <3>5, <3>6 DEF ChargeInv
  <2> QED
      BY <1>2, <1>13, <2>2, <2>3, ChangeGrows
<1>14. CASE ChangeRow(r)
  <2>1. UNCHANGED <<size, used>> /\ ~(slips' = slips \cup Both)
      BY <1>14 DEF ChangeRow, chargeVars, Both, OfCharge
  <2>2. \/ request[r].pc = "index" /\ Advance(r, "charge")
        \/ request[r].pc = "indexLast" /\ Advance(r, "end")
      BY <1>14, <2>1 DEF ChangeRow, AtUse
  <2> QED
      BY <1>8, <2>1, <2>2, Advances DEF GoesTo, RequestOwes
<1>15. CASE Charge(r)
  <2>1. size' = size /\ used' = used + request[r].diff /\ request[r].diff \in Int
        /\ request[r].pc \in {"charge", "chargeFirst"}
      BY <1>15 DEF Charge, AtUse, OfCharge, UsageTypes, RequestFits, Measured
  <2>2. request'[r].pc \in {"end", "indexLast"}
    <3>1. Advance(r, "end") \/ Advance(r, "indexLast")
        BY <1>15 DEF Charge
    <3> QED
        BY <3>1, Advances DEF GoesTo
  <2>3. RequestOwes(r) = request[r].diff /\ RequestOwes(r)' = 0
      BY <2>1, <2>2 DEF RequestOwes
  <2>4. Stored' = Stored
      BY <2>1, StoredIsSum
  <2>5. MeasuresFit'
      BY <1>7, <2>1, <2>2
  <2>6. Stored' = used' + Amount(quotaTask') + Amount(charging') + Owed'
      BY <1>2, <1>3, <1>5, <1>6, <2>1, <2>3, <2>4
  <2> QED
      BY <1>2, <2>1, <2>5, <2>6 DEF ChargeInv
<1>16. CASE SetUsed(r)
  <2>1. /\ quotaTask = NoTask /\ charging = NoTask /\ size' = size /\ used' = Stored'
        /\ \A f \in UserFiles : flushing[f].at = "idle"
        /\ request[r].pc = "set" /\ Advance(r, "end")
    <3>1. ~(~ChargesQuiet \/ \E f \in UserFiles : flushing[f].at # "idle" \/ used' # Stored)
        BY <1>16 DEF SetUsed, Slip, OfCharge
    <3>2. size' = size /\ flushing' = flushing /\ request[r].pc = "set" /\ Advance(r, "end")
        BY <1>16 DEF SetUsed, AtUse
    <3>3. Stored' = Stored
        BY <3>2, StoredIsSum
    <3>4. \E f \in UserFiles : TRUE
        BY <3>2 DEF UsageTypes, RequestFits
    <3> QED
        BY <3>1, <3>2, <3>3, <3>4 DEF ChargesQuiet
  <2>2. request[r].kind = "recount" /\ Files(r) = UserFiles /\ Under(r)
      BY <2>1 DEF UsageTypes, RequestFits, Files, Under
  <2>3. \A q \in Requests \ {r} : ~Under(q)
    <3> SUFFICES ASSUME NEW q \in Requests \ {r}, Under(q) PROVE FALSE
        OBVIOUS
    <3>1. request[q].file \in UserFiles /\ request[q].file \in Files(q)
        BY DEF UsageTypes, RequestFits, Under, Files
    <3> QED
        BY <1>1, <2>2, <3>1 DEF Alone
  <2>4. \A q \in Requests : RequestOwes(q) = 0
      BY <2>1, <2>3 DEF RequestOwes, Under
  <2>5. Owed = 0
      BY <2>1, <2>4, NothingOwed
  <2>6. request'[r].pc = "end" /\ RequestOwes(r)' = 0
      BY <2>1, Advances DEF GoesTo, RequestOwes
  <2>7. Amount(quotaTask') = 0 /\ Amount(charging') = 0 /\ Owed' = 0
      BY <1>3, <1>5, <2>1, <2>4, <2>5, <2>6 DEF Amount
  <2>8. MeasuresFit'
      BY <1>7, <2>1, <2>6
  <2>9. Stored' \in Int
      BY <1>6, <2>1, StoredIsSum
  <2> QED
    <3>1. Stored' = used' + Amount(quotaTask') + Amount(charging') + Owed'
        BY <2>1, <2>7, <2>9
    <3> QED
        BY <2>1, <2>8, <2>9, <3>1 DEF ChargeInv
<1> QED
    BY <1>9, <1>10, <1>11, <1>12, <1>13, <1>14, <1>15, <1>16 DEF RequestStep

LEMMA ChargeOfTasks ==
    ASSUME UsageTypes, UsageTypes', ChargeInv, TakeQuotaTask \/ SyncUserQuota PROVE ChargeInv'
<1> SUFFICES ASSUME "charge" \notin slips' PROVE ChargeInv'
    BY DEF ChargeInv
<1>1. UNCHANGED <<size, request, flushing, slips>>
    BY DEF TakeQuotaTask, SyncUserQuota
<1>2. Owed' = Owed /\ Owed \in Int /\ Stored' = Stored /\ MeasuresFit' = MeasuresFit
    BY <1>1, OwingTypes, StoredIsSum DEF Owed, OwedByFlush, OwedByRequest, FlushOwes, RequestOwes, MeasuresFit, GrowthOf
<1>3. MeasuresFit /\ used \in Int /\ Stored = used + Amount(quotaTask) + Amount(charging) + Owed
    BY <1>1 DEF ChargeInv
<1>4. /\ quotaTask \in Int \cup {NoTask} /\ charging \in Int \cup {NoTask} /\ Amount(NoTask) = 0
      /\ \A n \in Int : Amount(n) = n
    BY UsageAssumption DEF UsageTypes, Amount
<1>5. used' \in Int /\ used' + Amount(quotaTask') + Amount(charging') = used + Amount(quotaTask) + Amount(charging)
  <2>1. CASE TakeQuotaTask
      BY <1>3, <1>4, <2>1 DEF TakeQuotaTask
  <2>2. CASE SyncUserQuota
    <3>1. charging \in Int /\ charging' = NoTask /\ Delta \in Int /\ Delta = Amount(quotaTask)
        BY <1>4, <2>2 DEF SyncUserQuota, Delta, Amount
    <3>2. \/ used' = used + charging /\ quotaTask' = quotaTask
          \/ used' = used /\ quotaTask' = Delta + charging
        BY <2>2 DEF SyncUserQuota
    <3>3. Amount(quotaTask) \in Int
        BY <3>1
    <3> QED
        BY <1>3, <1>4, <3>1, <3>2, <3>3
  <2> QED
      BY <2>1, <2>2
<1>6. Stored' = used' + Amount(quotaTask') + Amount(charging') + Owed'
    BY <1>2, <1>3, <1>5
<1> QED
    BY <1>2, <1>3, <1>5, <1>6 DEF ChargeInv

LEMMA ChargeOfRestarts == ASSUME UsageTypes, UsageTypes', ChargeInv, RestartUsage PROVE ChargeInv'
<1> SUFFICES ASSUME "charge" \notin slips' PROVE ChargeInv'
    BY DEF ChargeInv
<1>1. FilesQuiet /\ ChargesQuiet /\ "charge" \notin slips
    BY DEF RestartUsage, Slip, Both, OfCharge
<1>2. used \in Int /\ Stored = used + Amount(quotaTask) + Amount(charging) + Owed
    BY <1>1 DEF ChargeInv
<1>3. UNCHANGED <<size, used, request, quotaTask, charging>>
    BY <1>1 DEF RestartUsage, FilesQuiet, ChargesQuiet, UsageTypes
<1>4. Stored' = Stored
    BY <1>3, StoredIsSum
<1>5. \A r \in Requests : RequestOwes(r) = 0 /\ RequestOwes(r)' = 0 /\ request'[r].pc \in {"new", "end"}
    BY <1>1, <1>3 DEF FilesQuiet, Under, RequestOwes
<1>6. \A f \in UserFiles : flushing[f].at = "idle" /\ flushing'[f].at = "idle"
    BY <1>1, IdleFits DEF FilesQuiet, RestartUsage
<1>7. Owed = 0
    BY <1>5, <1>6, NothingOwed
<1>8. Owed' = 0
  <2>1. \A f \in UserFiles : FlushOwes(f)' = 0
      BY <1>6 DEF FlushOwes, Turns
  <2>2. (\A f \in UserFiles : OwedByFlush'[f] = 0) /\ (\A r \in Requests : OwedByRequest'[r] = 0)
      BY <1>5, <2>1 DEF OwedByFlush, OwedByRequest
  <2>3. SumOf(OwedByFlush', UserFiles) = 0 /\ SumOf(OwedByRequest', Requests) = 0
      BY <2>2, SumOfZeros, UsageAssumption
  <2> QED
      BY <2>3 DEF Owed
<1>9. Stored' = used' + Amount(quotaTask') + Amount(charging') + Owed'
    BY <1>2, <1>3, <1>4, <1>7, <1>8
<1> QED
    BY <1>2, <1>3, <1>5, <1>9 DEF ChargeInv, MeasuresFit

LEMMA ChargeKept == ASSUME UsageTypes, SharedInv, ChargeInv, UsageNext PROVE ChargeInv'
<1>1. UsageTypes' /\ slips \subseteq slips'
    BY UsageTypesStep, SlipsStay
<1>2. ASSUME NEW s \in Syncers, SyncStep(s) PROVE ChargeInv'
  <2>1. UNCHANGED <<size, request, flushing, quotaTask, charging, used>>
      BY <1>2 DEF SyncStep, TakeIndexTask, ListFiles, CommitRows, CheckNewTask, ClearDirtyMarkers, chargeVars
  <2>2. Owed' = Owed /\ Stored' = Stored /\ MeasuresFit' = MeasuresFit
      BY <2>1, StoredIsSum DEF Owed, OwedByFlush, OwedByRequest, FlushOwes, RequestOwes, MeasuresFit, GrowthOf
  <2> QED
      BY <1>1, <2>1, <2>2 DEF ChargeInv
<1> QED
    BY <1>1, <1>2, ChargeOfRequests, ChargeOfFlushes, ChargeOfTasks, ChargeOfRestarts DEF UsageNext

-----------------------------------------------------------------------------
(* The quota                                                                *)

\* What a request that passed the check will store is within the quota.
LEMMA QuotaStep == ASSUME UsageTypes, SharedInv, ChargeInv, QuotaInv, UsageNext PROVE QuotaInv'
<1> SUFFICES ASSUME slips' \cap {"charge", "quota"} = {} PROVE QuotaInv'
    BY DEF QuotaInv
<1>1. UsageTypes' /\ SharedInv' /\ ChargeInv' /\ slips \cap {"charge", "quota"} = {}
    BY UsageTypesStep, SharedStep, ChargeKept, SlipsStay
<1>2. /\ \A q, r \in Requests : Under(q) /\ Under(r) => q = r
      /\ \A r \in Requests : Checked(r) =>
            /\ \A f \in UserFiles : flushing[f].at = "idle"
            /\ request[r].pc = "store" => Stored + request[r].diff <= Quota
    BY <1>1 DEF QuotaInv
<1>3. CASE UNCHANGED <<size, request, flushing>>
    BY <1>2, <1>3, StoredIsSum DEF QuotaInv, Under, Checked
<1>4. ASSUME NEW s \in Syncers, SyncStep(s) PROVE UNCHANGED <<size, request, flushing>>
    BY <1>4 DEF SyncStep, TakeIndexTask, ListFiles, CommitRows, CheckNewTask, ClearDirtyMarkers
<1>5. CASE TakeQuotaTask \/ SyncUserQuota
    BY <1>3, <1>5 DEF TakeQuotaTask, SyncUserQuota
<1>6. CASE RestartUsage
  <2>1. \A r \in Requests : request'[r] = IF Under(r) THEN Ended ELSE request[r]
      BY <1>6 DEF RestartUsage
  <2>2. \A r \in Requests : request'[r].pc \in {"new", "end"}
      BY <2>1, EndedFits DEF Under
  <2> QED
      BY <2>2 DEF QuotaInv, Under, Checked
<1>7. ASSUME NEW f \in UserFiles, FlushStep(f) PROVE QuotaInv'
  <2>1. request' = request
      BY <1>7, FlushCases
  <2>2. \A r \in Requests : ~Checked(r)
    <3> SUFFICES ASSUME NEW r \in Requests, Checked(r) PROVE FALSE
        OBVIOUS
    <3>1. flushing[f].at = "idle"
        BY <1>2
    <3>2. BeginFileFlush(f)
        BY <1>7, <3>1, FlushCases
    <3>3. Under(r) /\ request[r].kind # "cached"
        BY DEF Checked, Under, UsageTypes, RequestFits, DirectPCs
    <3> QED
        BY <3>2, <3>3 DEF BeginFileFlush, OfQuota
  <2> QED
      BY <1>2, <2>1, <2>2 DEF QuotaInv, Under, Checked
<1>8. ASSUME NEW r \in Requests, RequestStep(r) PROVE QuotaInv'
  <2>1. Others(r) /\ (BeginRequest(r) \/ Under(r))
      BY <1>8, RequestGoes
  <2>2. \A q \in Requests \ {r} : Under(q)' = Under(q) /\ Checked(q)' = Checked(q)
      BY <2>1 DEF Others, Under, Checked
  <2>3. \A q \in Requests \ {r} : ~Under(q)
    <3>1. CASE BeginRequest(r)
        BY <3>1 DEF BeginRequest, OfQuota
    <3>2. CASE Under(r)
        BY <1>2, <3>2
    <3> QED
        BY <2>1, <3>1, <3>2
  <2>4. \A p, q \in Requests : Under(p)' /\ Under(q)' => p = q
      BY <2>2, <2>3
  <2>5. \A q \in Requests \ {r} : ~Checked(q)'
      BY <2>2, <2>3 DEF Checked, Under
  <2>6. ASSUME Checked(r)'
        PROVE /\ \A f \in UserFiles : flushing'[f].at = "idle"
              /\ request'[r].pc = "store" => Stored' + request'[r].diff <= Quota
    <3>1. ReadPendingDelta(r) \/ CheckQuota(r)
      <4>1. request'[r].pc \in {"quota", "store"}
          BY <2>6 DEF Checked
      <4>2. CASE Measure(r)
        <5>1. /\ request'[r].pc = "store" /\ request'[r].diff = Growth(r) /\ request'[r].diff > 0 /\ Quota > 0
              /\ request[r].kind \notin {"stream", "copy"} /\ ~(Growth(r) > 0)
          <6>1. ~(request' = [request EXCEPT ![r] = Ended])
              BY <4>1, EndedFits DEF UsageTypes
          <6>2. Others(r) /\ request'[r].diff = Growth(r) /\ request'[r].pc \in {"pending", "store"}
                /\ (request'[r].pc = "store" => Quota = 0 \/ (request[r].kind \notin {"stream", "copy"} /\ ~(Growth(r) > 0)))
              BY <4>2, <6>1, Measures
          <6> QED
              BY <2>6, <4>1, <6>2 DEF Checked
        <5> QED
            BY <5>1
      <4>3. CASE BeginRequest(r)
        <5>1. PICK kind \in RequestKinds, f \in UserFiles, g \in UserFiles, n \in FileSizes \cup WriteEnds :
                (kind = "copy" => f # g) /\ request' = [request EXCEPT ![r] = Issued(kind, f, g, n)]
            BY <4>3 DEF BeginRequest
        <5>2. request'[r] = Issued(kind, f, g, n) /\ kind \in AllRequests /\ n \in Nat
            BY <5>1, UsageAssumption DEF UsageTypes
        <5> QED
            BY <4>1, <5>1, <5>2, IssuedFits
      <4>4. CASE SumRows(r)
        <5>1. ~ReadPendingDelta(r)
            BY <4>4 DEF ReadPendingDelta, SumRows, AtUse
        <5> QED
            BY <4>1, <4>4, <5>1, Notes
      <4>5. CASE ~Measure(r) /\ ~BeginRequest(r) /\ ~SumRows(r) /\ ~ReadPendingDelta(r) /\ ~CheckQuota(r)
        <5>1. \E pc \in UsagePCs \ {"quota", "store"} : Advance(r, pc)
            BY <1>8, <4>5 DEF RequestStep, FlushFirst, FlushEnded, ChangeFile, ChangeRow, Charge, SetUsed, EnqueueFile,
                              MarkDirty, AddIndexTask, UsagePCs, DirectPCs
        <5> QED
            BY <4>1, <5>1, Advances DEF GoesTo
      <4> QED
          BY <4>2, <4>3, <4>4, <4>5
    <3>2. CASE ReadPendingDelta(r)
      <4>1. \A f \in UserFiles : flushing[f].at = "idle" /\ flushing' = flushing
          BY <3>2 DEF ReadPendingDelta, Slip, OfQuota
      <4>2. request'[r].pc = "quota"
          BY <3>2, Notes
      <4> QED
          BY <4>1, <4>2
    <3>3. CASE CheckQuota(r)
      <4>1. Checked(r)
          BY <2>6, <3>3 DEF CheckQuota, AtUse, Checked
      <4>2. /\ charging = NoTask /\ Delta = request[r].seen /\ UNCHANGED <<flushing, size>>
            /\ Advance(r, IF request[r].diff > 0 /\ used + request[r].seen + request[r].diff > Quota THEN "end" ELSE "store")
          BY <3>3 DEF CheckQuota, Slip, OfQuota
      <4>3. request'[r].pc = "store" /\ request'[r].diff = request[r].diff /\ request'[r].diff > 0
            /\ ~(request[r].diff > 0 /\ used + request[r].seen + request[r].diff > Quota)
        <5>1. ~Advance(r, "end")
            BY <2>6, Advances DEF GoesTo, Checked
        <5>2. Advance(r, "store")
            BY <4>2, <5>1
        <5>3. request'[r].pc = "store" /\ request'[r].diff = request[r].diff
            BY <5>2, Advances DEF GoesTo
        <5> QED
            BY <2>6, <4>2, <5>1, <5>3 DEF Checked
      <4>4. Owed = 0
        <5>1. \A q \in Requests : RequestOwes(q) = 0
            BY <2>3, <3>3 DEF RequestOwes, Under, CheckQuota, AtUse
        <5> QED
            BY <1>2, <4>1, <5>1, NothingOwed
      <4>5. Stored = used + request[r].seen /\ used \in Int /\ request[r].seen \in Int /\ request[r].diff \in Int
        <5>1. Stored = used + Amount(quotaTask) + Amount(charging) + Owed /\ used \in Int
            BY <1>1 DEF ChargeInv
        <5>2. Amount(quotaTask) = Delta /\ Delta \in Int /\ Amount(charging) = 0
            BY <4>2 DEF Amount, Delta, UsageTypes
        <5>3. request[r].diff \in Int
            BY <3>3 DEF UsageTypes, RequestFits, Measured, CheckQuota, AtUse
        <5> QED
            BY <4>2, <4>4, <5>1, <5>2, <5>3
      <4>6. Stored' = Stored
          BY <4>2, StoredIsSum
      <4>7. Stored' + request'[r].diff <= Quota
          BY <4>3, <4>5, <4>6, UsageAssumption
      <4> QED
          BY <1>2, <4>1, <4>2, <4>7
    <3> QED
        BY <3>1, <3>2, <3>3
  <2> QED
      BY <2>4, <2>5, <2>6 DEF QuotaInv
<1> QED
    BY <1>3, <1>4, <1>5, <1>6, <1>7, <1>8 DEF UsageNext

-----------------------------------------------------------------------------
(* The index                                                                *)

\* Only the change of a file brings a request to its row.
LEMMA RowsLater ==
    ASSUME UsageTypes, NEW r \in Requests, RequestStep(r), ~ChangeFile(r)
    PROVE /\ request'[r].pc # "index"
          /\ request[r].pc \in WritesRow => ChangeRow(r) \/ (Keeps(r) /\ request'[r].pc = "indexLast")
<1>1. CASE BeginRequest(r)
  <2>1. PICK kind \in RequestKinds, f \in UserFiles, g \in UserFiles, n \in FileSizes \cup WriteEnds :
          (kind = "copy" => f # g) /\ request' = [request EXCEPT ![r] = Issued(kind, f, g, n)]
      BY <1>1 DEF BeginRequest
  <2>2. request'[r] = Issued(kind, f, g, n) /\ kind \in AllRequests /\ n \in Nat
      BY <2>1, UsageAssumption DEF UsageTypes
  <2> QED
      BY <1>1, <2>1, <2>2, IssuedFits DEF BeginRequest, AtUse, WritesRow
<1>2. CASE Measure(r)
    BY <1>2, Measures, EndedFits DEF Measure, AtUse, WritesRow, UsageTypes
<1>3. CASE ReadPendingDelta(r) \/ SumRows(r)
    BY <1>3, Notes DEF ReadPendingDelta, SumRows, AtUse, WritesRow
<1>4. CASE Charge(r)
    BY <1>4, Advances DEF Charge, AtUse, WritesRow, GoesTo
<1>5. CASE ChangeRow(r)
  <2>1. Advance(r, "charge") \/ Advance(r, "end")
      BY <1>5 DEF ChangeRow
  <2> QED
      BY <1>5, <2>1, Advances DEF GoesTo
<1>6. CASE FlushFirst(r) \/ FlushEnded(r) \/ CheckQuota(r) \/ SetUsed(r) \/ EnqueueFile(r) \/ MarkDirty(r) \/ AddIndexTask(r)
  <2>1. request[r].pc \notin WritesRow /\ \E pc \in UsagePCs \ {"index"} : Advance(r, pc)
      BY <1>6 DEF FlushFirst, FlushEnded, CheckQuota, SetUsed, EnqueueFile, MarkDirty, AddIndexTask, AtUse, WritesRow,
                  UsagePCs, DirectPCs
  <2> QED
      BY <2>1, Advances DEF GoesTo
<1> QED
    BY <1>1, <1>2, <1>3, <1>4, <1>5, <1>6 DEF RequestStep

\* What is noticed stays so while sizes, rows and syncs stay.
LEMMA StaysNoticed ==
    ASSUME RowsFollow, UNCHANGED <<size, row, syncing>>, \A f \in UserFiles : Noticed(f) => Noticed(f)'
    PROVE RowsFollow'
    BY DEF RowsFollow, Crowded, Reads, Followed, RowOf

LEMMA IndexOfRequests ==
    ASSUME UsageTypes, UsageTypes', SharedInv, IndexInv, NEW r \in Requests, RequestStep(r) PROVE IndexInv'
<1> SUFFICES ASSUME "index" \notin slips' PROVE DeletesDone' /\ RowsFollow'
    BY DEF IndexInv
<1>1. "index" \notin slips /\ Alone /\ DeletesDone /\ RowsFollow
    BY SlipsStay DEF SharedInv, UsageNext, Both, OfIndex, IndexInv
<1>2. Others(r) /\ syncing' = syncing
    BY RequestGoes, MapTypes
<1>3. ASSUME NEW f \in UserFiles, ByFlush(f) PROVE ByFlush(f)'
  <2>1. queued[f] # NoTask => queued'[f] # NoTask
      BY QueuedLonger
  <2>2. flushing[f].at \in {"leave", "index"} => flushing'[f].at = flushing[f].at
    <3>1. CASE flushing' = flushing
        BY <3>1
    <3>2. CASE \E g \in UserFiles : flushing[g].at = "idle" /\ OtherFlushes(g)
        BY <3>2 DEF OtherFlushes
    <3>3. CASE \E g \in UserFiles : OtherFlushes(g) /\ flushing'[g].at = flushing[g].at
        BY <3>3 DEF OtherFlushes
    <3> QED
        BY <3>1, <3>2, <3>3, RequestFlushes
  <2> QED
      BY <1>3, <2>1, <2>2 DEF ByFlush
<1>4. indexTask => indexTask'
    BY DEF RequestStep, BeginRequest, FlushFirst, FlushEnded, Measure, ReadPendingDelta, CheckQuota, ChangeFile, ChangeRow,
           Charge, SumRows, SetUsed, EnqueueFile, MarkDirty, AddIndexTask, indexVars
<1>5. BySync => BySync'
    BY <1>2, <1>4 DEF BySync
<1>6. ASSUME ~ChangeFile(r), ~ChangeRow(r) PROVE DeletesDone' /\ RowsFollow'
  <2>1. UNCHANGED <<size, row>>
      BY <1>6 DEF RequestStep, BeginRequest, FlushFirst, FlushEnded, Measure, ReadPendingDelta, CheckQuota,
                  Charge, SumRows, SetUsed, EnqueueFile, MarkDirty, AddIndexTask, indexVars
  <2>2. request'[r].pc # "index" /\ (request[r].pc \in WritesRow => Keeps(r) /\ request'[r].pc = "indexLast")
      BY <1>6, RowsLater
  <2>3. DeletesDone'
      BY <1>1, <1>2, <2>1, <2>2 DEF DeletesDone, Others, AtUse
  <2>4. ASSUME NEW f \in UserFiles, ByRequest(f) PROVE ByRequest(f)'
      BY <1>2, <2>2, <2>4 DEF ByRequest, Others, Keeps, WritesRow
  <2> QED
      BY <1>1, <1>2, <1>3, <1>5, <2>1, <2>3, <2>4, StaysNoticed DEF Noticed
<1>f. PICK file : file = request[r].file
    OBVIOUS
<1> USE <1>f
<1>7. CASE ChangeFile(r)
  <2>1. UNCHANGED <<row, flushing, queued, indexTask>> /\ size \in [UserFiles -> Nat] /\ file \in UserFiles
        /\ request[r].kind \notin {"recount", "cached"} /\ request[r].kind \in AllRequests
      BY <1>7 DEF ChangeFile, indexVars, UsageTypes, RequestFits, AtUse, DirectPCs
  <2>2. CASE size' = size /\ Advance(r, "end")
    <3>1. request'[r].pc = "end" /\ request[r].pc = "store"
        BY <1>7, <2>2, Advances DEF GoesTo, ChangeFile, AtUse
    <3>2. DeletesDone'
        BY <1>1, <1>2, <2>2, <3>1 DEF DeletesDone, Others, AtUse
    <3>3. ASSUME NEW f \in UserFiles, ByRequest(f) PROVE ByRequest(f)'
        BY <1>2, <3>1, <3>3 DEF ByRequest, Others, WritesRow
    <3> QED
        BY <1>1, <1>2, <1>3, <1>5, <2>1, <2>2, <3>2, <3>3, StaysNoticed DEF Noticed
  <2>3. CASE /\ \E n : /\ size' = [size EXCEPT ![file] = n] /\ (request[r].kind = "delete" => n = 0)
             /\ Advance(r, IF request[r].kind \in {"writeAt", "stream"} THEN "chargeFirst" ELSE "index")
             /\ Slip(\E s \in Syncers : syncing[s].at # "idle", OfIndex)
    <3>1. Keeps(r) /\ request'[r].pc \in WritesRow /\ request'[r].file = file
      <4>1. Advance(r, "chargeFirst") \/ Advance(r, "index")
          BY <2>3
      <4> QED
          BY <4>1, Advances DEF GoesTo, WritesRow, Keeps
    <3>2. \A s \in Syncers : syncing[s].at = "idle"
        BY <2>3 DEF Slip, OfIndex
    <3>3. /\ \A g \in UserFiles \ {file} : size'[g] = size[g]
          /\ request[r].kind = "delete" => size'[file] = 0
      <4>1. PICK n : size' = [size EXCEPT ![file] = n] /\ (request[r].kind = "delete" => n = 0)
          BY <2>3
      <4> QED
          BY <2>1, <4>1
    <3>4. DeletesDone'
      <4>1. ASSUME NEW q \in Requests \ {r}, AtUse(q, "index") PROVE request[q].file # file /\ request[q].file \in UserFiles
        <5>1. Under(q) /\ Under(r) /\ request[q].file \in Files(q) /\ file \in Files(r) /\ request[q].file \in UserFiles
            BY <1>7, <4>1 DEF AtUse, Under, Files, ChangeFile, UsageTypes, RequestFits, DirectPCs
        <5> QED
            BY <1>1, <5>1 DEF Alone
      <4>2. ASSUME NEW q \in Requests \ {r}, AtUse(q, "index")', request'[q].kind = "delete" PROVE size'[request'[q].file] = 0
          BY <1>1, <1>2, <3>3, <4>1, <4>2 DEF DeletesDone, Others, AtUse
      <4>3. AtUse(r, "index")' /\ request'[r].kind = "delete" => size'[request'[r].file] = 0
          BY <3>1, <3>3 DEF Keeps
      <4> QED
          BY <4>2, <4>3 DEF DeletesDone
    <3>5. (Noticed(file) \/ Followed(file))'
        BY <3>1 DEF ByRequest, Noticed
    <3>6. ASSUME NEW f \in UserFiles \ {file} PROVE (Noticed(f) \/ Followed(f))'
      <4>1. Noticed(f) \/ Followed(f)
          BY <1>1, <3>2 DEF RowsFollow, Crowded, Reads
      <4>2. ByRequest(f) => ByRequest(f)'
          BY <1>2, <1>7 DEF ByRequest, Others, ChangeFile, AtUse, WritesRow
      <4>3. Followed(f) => Followed(f)'
          BY <1>2, <2>1, <3>3 DEF Followed, RowOf
      <4> QED
          BY <1>3, <1>5, <4>1, <4>2, <4>3 DEF Noticed
    <3> QED
      <4>1. \A f \in UserFiles : (Noticed(f) \/ Followed(f))'
          BY <3>5, <3>6
      <4> QED
          BY <3>4, <4>1 DEF RowsFollow
  <2>4. ~(slips' = slips \cup Both)
      BY DEF Both, OfIndex
  <2>5. \/ size' = size /\ Advance(r, "end")
        \/ /\ \E n : /\ size' = [size EXCEPT ![file] = n] /\ (request[r].kind = "delete" => n = 0)
           /\ Advance(r, IF request[r].kind \in {"writeAt", "stream"} THEN "chargeFirst" ELSE "index")
           /\ Slip(\E s \in Syncers : syncing[s].at # "idle", OfIndex)
    <3> DEFINE n == CASE request[r].kind \in {"write", "stream"} -> request[r].new
                      [] request[r].kind = "writeAt" -> Max({size[file], request[r].new})
                      [] request[r].kind = "copy" -> size[request[r].from]
                      [] request[r].kind = "delete" -> 0
    <3>1. request[r].kind = "delete" => n = 0
        OBVIOUS
    <3>2. \/ /\ size' = [size EXCEPT ![file] = n]
             /\ Advance(r, IF request[r].kind \in {"writeAt", "stream"} THEN "chargeFirst" ELSE "index")
             /\ Slip(\E s \in Syncers : syncing[s].at # "idle", OfIndex)
          \/ size' = size /\ Advance(r, "end")
        BY <1>7, <2>4 DEF ChangeFile
    <3> HIDE DEF n
    <3> QED
        BY <3>1, <3>2
  <2> QED
      BY <2>2, <2>3, <2>5
<1>8. CASE ChangeRow(r)
  <2>1. UNCHANGED <<size, flushing, queued, indexTask>> /\ row \in [UserFiles -> Nat \cup {NoTask}] /\ file \in UserFiles
      BY <1>8 DEF ChangeRow, UsageTypes, RequestFits, AtUse, DirectPCs
  <2>2. ~(slips' = slips \cup Both)
      BY DEF Both, OfIndex
  <2>3. /\ row' = [row EXCEPT ![file] = IF request[r].kind = "delete" THEN NoTask
                                         ELSE IF request[r].kind = "stream" /\ queued[file] # NoTask THEN queued[file]
                                         ELSE size[file]]
        /\ Slip(\E s \in Syncers : syncing[s].at # "idle", OfIndex)
      BY <1>8, <2>2 DEF ChangeRow
  <2>4. \A s \in Syncers : syncing[s].at = "idle"
      BY <2>3 DEF Slip, OfIndex
  <2>5. DeletesDone'
    <3>1. request'[r].pc # "index"
        BY <1>8, RowsLater DEF ChangeFile, ChangeRow, AtUse
    <3> QED
        BY <1>1, <1>2, <2>1, <3>1 DEF DeletesDone, Others, AtUse
  <2>6. ByFlush(file) \/ size[file] = RowOf(file)'
    <3>1. size[file] \in Nat /\ (request[r].kind = "delete" => size[file] = 0)
      <4>1. request[r].kind = "delete" => AtUse(r, "index")
          BY <1>8 DEF ChangeRow, AtUse, UsageTypes, RequestFits
      <4> QED
          BY <1>1, <2>1, <4>1 DEF DeletesDone, UsageTypes
    <3> QED
      <4>1. row'[file] = IF request[r].kind = "delete" THEN NoTask
                         ELSE IF request[r].kind = "stream" /\ queued[file] # NoTask THEN queued[file] ELSE size[file]
          BY <2>1, <2>3
      <4>2. NoTask # size[file] /\ RowOf(file)' = IF row'[file] = NoTask THEN 0 ELSE row'[file]
          BY <3>1, UsageAssumption DEF RowOf
      <4>3. CASE request[r].kind = "delete"
          BY <3>1, <4>1, <4>2, <4>3
      <4>4. CASE request[r].kind # "delete"
          BY <4>1, <4>2, <4>4 DEF ByFlush
      <4> QED
          BY <4>3, <4>4
  <2>7. (Noticed(file) \/ Followed(file))'
    <3>1. CASE ByFlush(file)
        BY <1>3, <2>1, <3>1 DEF Noticed
    <3>2. CASE size[file] = RowOf(file)'
        BY <1>2, <2>1, <2>4, <3>2 DEF Followed
    <3> QED
        BY <2>6, <3>1, <3>2
  <2>8. ASSUME NEW f \in UserFiles \ {file} PROVE (Noticed(f) \/ Followed(f))'
    <3>1. Noticed(f) \/ Followed(f)
        BY <1>1, <2>4 DEF RowsFollow, Crowded, Reads
    <3>2. ByRequest(f) => ByRequest(f)'
        BY <1>2, <2>8 DEF ByRequest, Others
    <3>3. row'[f] = row[f]
        BY <2>1, <2>3
    <3>4. Followed(f) => Followed(f)'
        BY <1>2, <2>1, <3>3 DEF Followed, RowOf
    <3> QED
        BY <1>3, <1>5, <3>1, <3>2, <3>4 DEF Noticed
  <2> QED
    <3>1. \A f \in UserFiles : (Noticed(f) \/ Followed(f))'
        BY <2>7, <2>8
    <3> QED
        BY <2>5, <3>1 DEF RowsFollow
<1> QED
    BY <1>6, <1>7, <1>8

LEMMA IndexOfFlushes ==
    ASSUME UsageTypes, UsageTypes', SharedInv, IndexInv, NEW f \in UserFiles, FlushStep(f) PROVE IndexInv'
<1> SUFFICES ASSUME "index" \notin slips' PROVE DeletesDone' /\ RowsFollow'
    BY DEF IndexInv
<1>1. "index" \notin slips /\ Alone /\ DeletesDone /\ RowsFollow
    BY SlipsStay DEF SharedInv, UsageNext, Both, OfIndex, IndexInv
<1>2. OtherFlushes(f) /\ UNCHANGED <<request, row, syncing>> /\ FlushFits(f)
    BY FlushCases DEF UsageTypes
<1>3. /\ indexTask => indexTask'
      /\ \A g \in UserFiles \ {f} : queued'[g] = queued[g]
    BY DEF FlushStep, BeginFileFlush, StatPrevious, FlushFile, LeaveQueue, ScheduleIndexSync, ScheduleQuotaSync,
           InsertQuotaTask, DropQuotaTask, indexVars, UsageTypes
<1>4. BySync => BySync'
    BY <1>2, <1>3 DEF BySync
<1>5. \A g \in UserFiles : ByRequest(g) => ByRequest(g)'
    BY <1>2 DEF ByRequest
<1>6. \A g \in UserFiles \ {f} : ByFlush(g) => ByFlush(g)'
    BY <1>2, <1>3 DEF ByFlush, OtherFlushes
\* A flush that ends without a task for the index leaves a file that waits.
<1>7. ByFlush(f) => ByFlush(f)' \/ BySync'
  <2>1. CASE LeaveQueue(f)
    <3>1. CASE flushing[f].current
      <4>1. flushing' = [flushing EXCEPT ![f].at = "index"]
          BY <2>1, <3>1 DEF LeaveQueue
      <4>2. flushing'[f].at = "index"
          BY <4>1, FlushGoes
      <4> QED
          BY <4>2 DEF ByFlush
    <3>2. CASE ~flushing[f].current
      <4>1. queued'[f] = queued[f] /\ queued[f] # NoTask
          BY <1>2, <2>1, <3>2 DEF LeaveQueue, FlushFits
      <4> QED
          BY <4>1 DEF ByFlush
    <3> QED
        BY <3>1, <3>2
  <2>2. CASE ScheduleIndexSync(f)
      BY <2>2 DEF ScheduleIndexSync, BySync
  <2>3. CASE ~LeaveQueue(f) /\ ~ScheduleIndexSync(f)
      BY <2>3 DEF FlushStep, BeginFileFlush, StatPrevious, FlushFile, ScheduleQuotaSync, InsertQuotaTask, DropQuotaTask,
                  ByFlush
  <2> QED
      BY <2>1, <2>2, <2>3
<1>8. \A g \in UserFiles : Noticed(g) => Noticed(g)'
    BY <1>4, <1>5, <1>6, <1>7 DEF Noticed
<1>9. CASE size' = size
  <2>1. DeletesDone'
      BY <1>1, <1>2, <1>9 DEF DeletesDone, AtUse
  <2> QED
      BY <1>1, <1>2, <1>8, <1>9, <2>1, StaysNoticed
<1>10. CASE FlushFile(f) /\ flushing[f].at = "write" /\ size' = [size EXCEPT ![f] = flushing[f].content] /\ flushing'[f].at = "leave"
  <2>1. \A g \in UserFiles \ {f} : size'[g] = size[g]
      BY <1>10 DEF UsageTypes
  <2>2. DeletesDone'
    <3>1. ASSUME NEW r \in Requests, AtUse(r, "index") PROVE request[r].file # f /\ request[r].file \in UserFiles
      <4>1. request[r].pc \in DirectPCs /\ request[r].file \in Files(r) /\ request[r].file \in UserFiles
          BY <3>1 DEF AtUse, DirectPCs, Files, UsageTypes, RequestFits
      <4> QED
          BY <1>1, <1>10, <4>1 DEF Alone
    <3> QED
        BY <1>1, <1>2, <2>1, <3>1 DEF DeletesDone, AtUse
  <2>3. (Noticed(f) \/ Followed(f))'
      BY <1>10 DEF Noticed, ByFlush
  <2>4. ASSUME NEW g \in UserFiles \ {f}, ~Crowded PROVE (Noticed(g) \/ Followed(g))'
    <3>1. Noticed(g) \/ Followed(g)
        BY <1>1, <2>4 DEF RowsFollow
    <3>2. Followed(g) => Followed(g)'
        BY <1>2, <2>1, <2>4 DEF Followed, RowOf
    <3> QED
        BY <1>8, <3>1, <3>2
  <2>5. CASE Crowded
      BY <1>2, <2>2, <2>5 DEF RowsFollow, Crowded, Reads
  <2>6. CASE ~Crowded
    <3>1. \A g \in UserFiles : (Noticed(g) \/ Followed(g))'
        BY <2>3, <2>4, <2>6
    <3> QED
        BY <2>2, <3>1 DEF RowsFollow
  <2> QED
      BY <2>5, <2>6
<1> QED
    BY <1>9, <1>10, FlushCases

LEMMA IndexOfSyncs ==
    ASSUME UsageTypes, UsageTypes', IndexInv, NEW s \in Syncers, SyncStep(s) PROVE IndexInv'
<1> SUFFICES ASSUME "index" \notin slips' PROVE DeletesDone' /\ RowsFollow'
    BY DEF IndexInv
<1>1. "index" \notin slips /\ DeletesDone /\ RowsFollow
    BY SlipsStay DEF UsageNext, IndexInv
<1>2. UNCHANGED <<size, queued, request, flushing>>
    BY DEF SyncStep, TakeIndexTask, ListFiles, CommitRows, CheckNewTask, ClearDirtyMarkers
<1>3. DeletesDone'
    BY <1>1, <1>2 DEF DeletesDone, AtUse
<1>4. \A f \in UserFiles : (ByFlush(f) => ByFlush(f)') /\ (ByRequest(f) => ByRequest(f)')
    BY <1>2 DEF ByFlush, ByRequest
<1>5. ASSUME NEW me, syncing' = [syncing EXCEPT ![s] = me]
      PROVE syncing'[s] = me /\ \A q \in Syncers \ {s} : syncing'[q] = syncing[q]
    BY <1>5 DEF UsageTypes
<1>6. CASE TakeIndexTask(s)
  <2> DEFINE me == [syncing[s] EXCEPT !.at = "list"]
  <2>1. syncing' = [syncing EXCEPT ![s] = me] /\ me.at = "list"
      BY <1>6 DEF TakeIndexTask, UsageTypes
  <2> HIDE DEF me
  <2>2. BySync'
      BY <1>5, <2>1 DEF BySync
  <2> QED
      BY <1>3, <2>2 DEF RowsFollow, Noticed
<1>7. CASE ListFiles(s)
  <2> DEFINE me == [at |-> "commit", listed |-> size]
  <2>1. syncing' = [syncing EXCEPT ![s] = me] /\ syncing[s].at = "list"
      BY <1>7 DEF ListFiles, OfIndex
  <2>2. syncing'[s] = me /\ me.at = "commit" /\ me.listed = size /\ \A q \in Syncers \ {s} : syncing'[q] = syncing[q]
      BY <1>5, <2>1
  <2> HIDE DEF me
  <2>3. CASE \E q \in Syncers \ {s} : syncing[q].at \in {"list", "commit"}
      BY <1>3, <2>2, <2>3 DEF RowsFollow, Crowded, Reads
  <2>4. CASE ~ \E q \in Syncers \ {s} : syncing[q].at \in {"list", "commit"}
    <3>1. ASSUME NEW f \in UserFiles PROVE Followed(f)'
      <4>1. \A q \in Syncers : syncing'[q].at = "commit" => syncing'[q].listed[f] = size[f]
          BY <2>2, <2>4
      <4> QED
          BY <1>2, <2>2, <4>1 DEF Followed
    <3> QED
        BY <1>3, <3>1 DEF RowsFollow
  <2> QED
      BY <2>3, <2>4
<1>8. CASE CommitRows(s)
  <2>1. syncing[s].at = "commit" /\ \A q \in Syncers \ {s} : syncing[q].at = "idle"
      BY <1>8 DEF CommitRows, Slip, OfIndex
  <2>2. CASE indexTask'
      BY <1>3, <2>2 DEF RowsFollow, Noticed, BySync
  <2>3. CASE ~indexTask'
    <3> DEFINE me == [SyncIdle EXCEPT !.at = "check"]
    <3>1. /\ row' = [f \in UserFiles |-> IF syncing[s].listed[f] = 0 THEN NoTask ELSE syncing[s].listed[f]]
          /\ syncing' = [syncing EXCEPT ![s] = me] /\ me.at = "check" /\ indexTask' = indexTask
      <4>1. me.at = "check"
          BY DEF SyncIdle
      <4> HIDE DEF me
      <4>2. indexTask' = indexTask /\ row' = [f \in UserFiles |-> IF syncing[s].listed[f] = 0 THEN NoTask ELSE syncing[s].listed[f]]
          BY <1>8, <2>3 DEF CommitRows
      <4>3. syncing' = [syncing EXCEPT ![s] = me]
          BY <1>8, <2>3 DEF CommitRows, me
      <4> QED
          BY <4>1, <4>2, <4>3
    <3> HIDE DEF me
    <3>2. \A q \in Syncers : syncing'[q].at \in {"idle", "check"}
        BY <1>5, <2>1, <3>1
    <3>3. ASSUME NEW f \in UserFiles PROVE (Noticed(f) \/ Followed(f))'
      <4>1. Noticed(f) \/ syncing[s].listed[f] = size[f]
          BY <1>1, <2>1 DEF RowsFollow, Crowded, Reads, Followed
      <4>2. ~BySync
          BY <2>1, <2>3, <3>1 DEF BySync
      <4>3. CASE syncing[s].listed[f] = size[f]
        <5>1. size[f] \in Nat /\ NoTask # size[f]
            BY UsageAssumption DEF UsageTypes
        <5>2. RowOf(f)' = size[f]
            BY <3>1, <4>3, <5>1 DEF RowOf
        <5> QED
            BY <1>2, <3>2, <5>2 DEF Followed
      <4> QED
          BY <1>4, <4>1, <4>2, <4>3 DEF Noticed
    <3> QED
        BY <1>3, <3>3 DEF RowsFollow
  <2> QED
      BY <2>2, <2>3
<1>9. CASE CheckNewTask(s) \/ ClearDirtyMarkers(s)
  <2>1. syncing[s].at \in {"check", "clear"} /\ UNCHANGED <<row, indexTask>>
      BY <1>9 DEF CheckNewTask, ClearDirtyMarkers
  <2>2. \E me : syncing' = [syncing EXCEPT ![s] = me] /\ me.at \in {"idle", "clear"}
    <3>1. CASE syncing' = [syncing EXCEPT ![s] = SyncIdle]
      <4>1. SyncIdle.at = "idle"
          BY DEF SyncIdle
      <4> QED
          BY <3>1, <4>1
    <3>2. CASE syncing' = [syncing EXCEPT ![s].at = "clear"]
      <4> DEFINE me == [syncing[s] EXCEPT !.at = "clear"]
      <4>1. me.at = "clear" /\ syncing' = [syncing EXCEPT ![s] = me]
          BY <3>2 DEF UsageTypes
      <4> QED
          BY <4>1
    <3> QED
      <4>1. CheckNewTask(s) => syncing' = [syncing EXCEPT ![s] = IF indexTask THEN SyncIdle ELSE [syncing[s] EXCEPT !.at = "clear"]]
          BY DEF CheckNewTask, UsageTypes
      <4>2. CheckNewTask(s) => syncing' = [syncing EXCEPT ![s] = SyncIdle] \/ syncing' = [syncing EXCEPT ![s].at = "clear"]
          BY <4>1 DEF UsageTypes
      <4> QED
          BY <1>9, <3>1, <3>2, <4>2 DEF ClearDirtyMarkers
  <2>3. syncing'[s].at \in {"idle", "clear"} /\ \A q \in Syncers \ {s} : syncing'[q] = syncing[q]
      BY <1>5, <2>2
  <2>4. BySync' = BySync /\ Crowded' = Crowded
      BY <2>1, <2>3 DEF BySync, Crowded, Reads
  <2>5. \A f \in UserFiles : Followed(f) => Followed(f)'
      BY <1>2, <2>1, <2>3 DEF Followed, RowOf
  <2> QED
      BY <1>1, <1>3, <1>4, <2>4, <2>5 DEF RowsFollow, Noticed
<1> QED
    BY <1>6, <1>7, <1>8, <1>9 DEF SyncStep

LEMMA IndexStep == ASSUME UsageTypes, SharedInv, IndexInv, UsageNext PROVE IndexInv'
<1>1. UsageTypes' /\ slips \subseteq slips'
    BY UsageTypesStep, SlipsStay
<1>2. CASE TakeQuotaTask \/ SyncUserQuota
  <2>1. UNCHANGED <<size, row, queued, syncing, indexTask, request, flushing, slips>>
      BY <1>2 DEF TakeQuotaTask, SyncUserQuota, indexVars
  <2>2. \A f \in UserFiles : Noticed(f) => Noticed(f)'
      BY <2>1 DEF Noticed, ByFlush, BySync, ByRequest
  <2>3. DeletesDone' = DeletesDone
      BY <2>1 DEF DeletesDone, AtUse
  <2> QED
      BY <2>1, <2>2, <2>3, StaysNoticed DEF IndexInv
<1>3. CASE RestartUsage
  <2> SUFFICES ASSUME "index" \notin slips' PROVE DeletesDone' /\ RowsFollow'
      BY DEF IndexInv
  <2>1. FilesQuiet /\ IndexQuiet /\ "index" \notin slips
      BY <1>3 DEF RestartUsage, Slip, Both, OfIndex
  <2>2. \A s \in Syncers : syncing'[s].at = "idle"
      BY <1>3 DEF RestartUsage, SyncIdle
  <2>3. request' = request /\ UNCHANGED <<size, row>>
      BY <1>3, <2>1 DEF RestartUsage, FilesQuiet, UsageTypes
  <2>4. DeletesDone'
      BY <2>1, <2>3 DEF DeletesDone, AtUse, FilesQuiet, Under
  <2>5. \A f \in UserFiles : ~Noticed(f)
      BY <2>1 DEF Noticed, ByFlush, BySync, ByRequest, FilesQuiet, IndexQuiet, Under, WritesRow
  <2>6. \A f \in UserFiles : size[f] = RowOf(f)
      BY <2>1, <2>5 DEF IndexInv, RowsFollow, Crowded, Reads, Followed, IndexQuiet
  <2>7. \A f \in UserFiles : Followed(f)'
      BY <2>2, <2>3, <2>6 DEF Followed, RowOf
  <2> QED
      BY <2>4, <2>7 DEF RowsFollow
<1> QED
    BY <1>1, <1>2, <1>3, IndexOfRequests, IndexOfFlushes, IndexOfSyncs DEF UsageNext

-----------------------------------------------------------------------------
(* What follows                                                             *)

LEMMA UsageStart == Init => UInv
<1> SUFFICES ASSUME UsageInit PROVE UInv
    BY DEF Init
<1>1. size = StartSize /\ size \in [UserFiles -> Nat]
    BY UsageAssumption DEF UsageInit
<1>2. request = [r \in Requests |-> FreshRequest] /\ \A r \in Requests : request[r].pc = "new" /\ ~Under(r)
    BY DEF UsageInit, FreshRequest, Under
<1>3. flushing = [f \in UserFiles |-> Idle] /\ \A f \in UserFiles : flushing[f] = Idle /\ flushing[f].at = "idle"
    BY IdleFits DEF UsageInit
<1>4. \A s \in Syncers : syncing[s] = SyncIdle /\ SyncIdle.at = "idle"
    BY DEF UsageInit, SyncIdle
<1>5. UsageTypes
  <2>1. RequestFits(FreshRequest)
      BY DEF FreshRequest, RequestFits, RequestFields, UsagePCs, DirectPCs, Measured, AllRequests
  <2>2. \A f \in UserFiles : FlushFits(f)
      BY <1>3, IdleFits DEF FlushFits
  <2>3. /\ DOMAIN SyncIdle = {"at", "listed"} /\ SyncIdle = [x \in {"at", "listed"} |-> SyncIdle[x]]
        /\ SyncIdle.listed \in [UserFiles -> Nat]
      BY DEF SyncIdle
  <2>4. row \in [UserFiles -> Nat \cup {NoTask}] /\ queued \in [UserFiles -> Nat \cup {NoTask}]
      BY <1>1 DEF UsageInit
  <2>5. syncing = [s \in Syncers |-> syncing[s]] /\ quotaTask = NoTask /\ charging = NoTask
      BY DEF UsageInit
  <2>6. request = [r \in Requests |-> request[r]] /\ \A r \in Requests : RequestFits(request[r])
      BY <1>2, <2>1
  <2>7. flushing = [f \in UserFiles |-> flushing[f]]
      BY <1>3
  <2> QED
      BY <1>1, <1>4, <2>2, <2>3, <2>4, <2>5, <2>6, <2>7 DEF UsageTypes
<1>6. SharedInv
    BY <1>2, <1>3 DEF SharedInv, Alone, TurnsFit, TurnFits, Turns, DirectPCs
<1>7. ChargeInv
  <2>1. Owed = 0
      BY <1>2, <1>3, <1>5, NothingOwed DEF RequestOwes
  <2>2. Stored \in Int
      BY <1>1, StoredIsSum, SumsAreIntegers, UsageAssumption
  <2>3. used = Stored /\ Amount(quotaTask) = 0 /\ Amount(charging) = 0
      BY DEF UsageInit, Amount
  <2>4. MeasuresFit
      BY <1>2 DEF MeasuresFit
  <2> QED
      BY <2>1, <2>2, <2>3, <2>4 DEF ChargeInv
<1>8. QuotaInv
    BY <1>2 DEF QuotaInv, Checked
<1>9. IndexInv
  <2>1. \A f \in UserFiles : size[f] = RowOf(f)
    <3>1. \A f \in UserFiles : row[f] = (IF size[f] = 0 THEN NoTask ELSE size[f]) /\ size[f] \in Nat /\ size[f] # NoTask
        BY <1>1, UsageAssumption DEF UsageInit
    <3> QED
        BY <3>1 DEF RowOf
  <2> QED
      BY <1>2, <1>4, <2>1 DEF IndexInv, DeletesDone, AtUse, RowsFollow, Followed
<1> QED
    BY <1>5, <1>6, <1>7, <1>8, <1>9 DEF UInv

LEMMA UsageKeeps == UInv /\ [Next]_storageVars => UInv'
<1>1. ASSUME UInv, UsageNext PROVE UInv'
    BY <1>1, UsageTypesStep, SharedStep, ChargeKept, QuotaStep, IndexStep DEF UInv
<1>2. ASSUME UInv, UNCHANGED usageVars PROVE UInv'
  <2>1. UNCHANGED <<size, row, queued, indexTask, syncing, quotaTask, charging, flushing, used, request, slips>>
      BY <1>2 DEF usageVars
  <2>2. UsageTypes'
    <3>1. \A f \in UserFiles : FlushFits(f)'
        BY <1>2, <2>1 DEF UInv, UsageTypes, FlushFits
    <3> QED
        BY <1>2, <2>1, <3>1 DEF UInv, UsageTypes
  <2>3. SharedInv'
      BY <1>2, <2>1 DEF UInv, SharedInv, Alone, TurnsFit, TurnFits, Files, Under
  <2>4. Stored' = Stored /\ Owed' = Owed
      BY <2>1, StoredIsSum DEF Owed, OwedByFlush, OwedByRequest, FlushOwes, RequestOwes
  <2>5. ChargeInv'
      BY <1>2, <2>1, <2>4 DEF UInv, ChargeInv, MeasuresFit, GrowthOf
  <2>6. QuotaInv'
      BY <1>2, <2>1, <2>4 DEF UInv, QuotaInv, Under, Checked
  <2>7. DeletesDone' = DeletesDone /\ (RowsFollow => RowsFollow')
    <3>1. \A f \in UserFiles : Noticed(f) => Noticed(f)'
        BY <2>1 DEF Noticed, ByFlush, BySync, ByRequest
    <3> QED
        BY <2>1, <3>1, StaysNoticed DEF DeletesDone, AtUse
  <2> QED
      BY <1>2, <2>1, <2>2, <2>3, <2>5, <2>6, <2>7 DEF UInv, IndexInv
<1> QED
    BY <1>1, <1>2, UsageSteps, UsageActions

THEOREM UsageInvariant == Spec => []UInv
    BY UsageStart, UsageKeeps, PTL DEF Spec

\* What a user is charged (storage_used) is what the user has stored, whenever nothing is
\* under way and nothing happened that the code does not account for: for any number of
\* files and requests, whatever the sizes, and however flushes, the task of the quota and
\* its failed charges interleave.
THEOREM ChargedIsStored == Spec => []ChargesAreExact
<1>1. UInv => ChargesAreExact
  <2> SUFFICES ASSUME UInv, FilesQuiet, ChargesQuiet, "charge" \notin slips PROVE used = Stored
      BY DEF ChargesAreExact
  <2>1. Owed = 0
      BY NothingOwed DEF UInv, FilesQuiet, Under, RequestOwes
  <2>2. used \in Int /\ Stored = used + 0 + 0 + 0
      BY <2>1 DEF UInv, ChargeInv, ChargesQuiet, Amount
  <2> QED
      BY <2>2
<1> QED
    BY <1>1, UsageInvariant, PTL

\* The rows of the index agree with the store (sync_directory_index, index_sync_dirs),
\* whenever nothing is under way and nothing happened that the code does not account
\* for: no flush is forgotten, and no sync writes what it listed too early.
THEOREM RowsAgree == Spec => []IndexAgrees
<1>1. UInv => IndexAgrees
  <2> SUFFICES ASSUME UInv, FilesQuiet, IndexQuiet, "index" \notin slips, NEW f \in UserFiles PROVE size[f] = RowOf(f)
      BY DEF IndexAgrees, RowOf
  <2>1. ~Noticed(f)
      BY DEF Noticed, ByFlush, BySync, ByRequest, FilesQuiet, IndexQuiet, Under, WritesRow
  <2> QED
      BY <2>1 DEF UInv, IndexInv, RowsFollow, Crowded, Reads, Followed, IndexQuiet
<1> QED
    BY <1>1, UsageInvariant, PTL

\* What passed check_quota alone leaves what is stored within the quota, and a charge
\* that waits in the write cache is part of what is checked.
THEOREM GrowthFits == Spec => GrowthIsChecked
<1> DEFINE GrowthKept == \A r \in Requests :
         /\ Quota > 0 /\ AtUse(r, "store") /\ ~AtUse(r, "store")' /\ Stored' > Stored
         /\ slips \cap {"charge", "quota"} = {}
         => Stored' <= Quota
<1>1. UInv /\ UInv' /\ [Next]_storageVars => [GrowthKept]_usageVars
  <2> SUFFICES ASSUME UInv, UInv', UsageNext, NEW r \in Requests, Quota > 0, AtUse(r, "store"), ~AtUse(r, "store")',
                      Stored' > Stored, slips \cap {"charge", "quota"} = {}
               PROVE Stored' <= Quota
      BY UsageSteps, UsageActions
  <2>1. UsageTypes /\ UsageTypes' /\ MeasuresFit
      BY DEF UInv, ChargeInv
  <2>2. ~(size' = size)
    <3>1. Stored \in Int
        BY <2>1, StoredIsSum, SumsAreIntegers, UsageAssumption DEF UsageTypes
    <3> QED
        BY <3>1, StoredIsSum
  <2>3. ChangeFile(r)
    <3>1. ASSUME request'[r] = request[r] PROVE FALSE
        BY <3>1 DEF AtUse
    <3>2. ASSUME NEW q \in Requests, RequestStep(q) PROVE q = r
        BY <2>1, <3>1, <3>2, RequestGoes DEF Others
    <3>3. RequestStep(r) => ChangeFile(r)
        BY <2>2 DEF RequestStep, BeginRequest, FlushFirst, FlushEnded, Measure, ReadPendingDelta, CheckQuota, ChangeRow,
                    Charge, SumRows, SetUsed, EnqueueFile, MarkDirty, AddIndexTask
    <3>4. ASSUME NEW f \in UserFiles, FlushStep(f) PROVE FALSE
        BY <2>1, <3>1, <3>4, FlushCases
    <3>5. ASSUME NEW s \in Syncers, SyncStep(s) PROVE FALSE
        BY <2>2, <3>5 DEF SyncStep, TakeIndexTask, ListFiles, CommitRows, CheckNewTask, ClearDirtyMarkers
    <3>6. ~TakeQuotaTask /\ ~SyncUserQuota /\ ~RestartUsage
        BY <2>2 DEF TakeQuotaTask, SyncUserQuota, RestartUsage
    <3> QED
        BY <3>2, <3>3, <3>4, <3>5, <3>6 DEF UsageNext
  <2>4. PICK file : file = request[r].file
      OBVIOUS
  <2>5. /\ request[r].pc = "store" /\ file \in UserFiles /\ request[r].new \in Nat /\ request[r].diff \in Int
        /\ size \in [UserFiles -> Nat] /\ size' \in [UserFiles -> Nat] /\ request[r].diff = GrowthOf(request[r])
      BY <2>1, <2>4 DEF AtUse, UsageTypes, RequestFits, DirectPCs, Measured, MeasuresFit
  <2>6. /\ \A g \in UserFiles \ {file} : size'[g] = size[g]
        /\ \/ size'[file] = size[file] + request[r].diff
           \/ request[r].kind = "writeAt" /\ size'[file] = request[r].new
    <3>1. CASE request[r].kind = "writeAt" /\ size' = [size EXCEPT ![file] = request[r].new]
        BY <2>5, <3>1
    <3>2. CASE ~(request[r].kind = "writeAt" /\ size' = [size EXCEPT ![file] = request[r].new])
      <4>1. "charge" \notin slips'
          BY <2>3, <2>4, <3>2 DEF ChangeFile, Slip, OfIndex
      <4> QED
          BY <2>1, <2>2, <2>3, <2>4, <4>1, ChangeGrows
    <3> QED
        BY <3>1, <3>2
  <2>7. Stored' = Stored - size[file] + size'[file] /\ Stored \in Int
      BY <2>1, <2>5, <2>6, StoredChanges
  <2>8. size'[file] > size[file] /\ size[file] \in Int /\ size'[file] \in Int
      BY <2>5, <2>7
  <2>9. size'[file] = size[file] + request[r].diff
    <3>1. request[r].kind = "writeAt" =>
            request[r].diff = IF request[r].new > size[file] THEN request[r].new - size[file] ELSE 0
        BY <2>4, <2>5 DEF GrowthOf
    <3> QED
        BY <2>5, <2>6, <2>8, <3>1
  <2>10. request[r].diff > 0 /\ Stored' = Stored + request[r].diff
      BY <2>5, <2>7, <2>8, <2>9
  <2>11. Stored + request[r].diff <= Quota
      BY <2>5, <2>10 DEF UInv, QuotaInv, Checked
  <2> QED
      BY <2>10, <2>11
<1> QED
    BY <1>1, UsageInvariant, PTL DEF Spec, GrowthIsChecked
=============================================================================
