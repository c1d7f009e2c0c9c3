------------------------------ MODULE Startup ------------------------------
(***************************************************************************)
(* Platform start-up: features are registered, their graph is resolved and *)
(* MigrationEngine brings the database to what the build declares, one     *)
(* transaction for each migration.  Builds change between runs, processes  *)
(* crash, statements fail and two processes may start over one database.   *)
(***************************************************************************)
EXTENDS Naturals, Sequences, FiniteSets, SequencesExt

CONSTANTS Platforms,   \* Platform objects over one database
          Manifests,   \* FeatureManifest records; one feature may have several
          CoreScripts, \* the migrations of the core schema, owner "platform"
          MaxFeatures  \* bound on the features of a build

IsList(s) == s \in Seq(ToSet(s))
Distinct(s) == IsInjective(s)
Versions(m) == [i \in DOMAIN m.scripts |-> m.scripts[i].version]
Versioned(m) ==
    /\ IsList(m.scripts)
    /\ ToSet(Versions(m)) \subseteq Nat \ {0} /\ Distinct(Versions(m))

\* A manifest of the right shape holds lists, and the core's own migrations have
\* a version each.  (Its owner is no feature's: theirs are "feature." and the id.)
ASSUME ManifestsAssumption ==
    /\ \A m \in Manifests : m.wellFormed =>
          /\ IsList(m.dependencies) /\ IsList(m.optional) /\ IsList(m.scripts)
          /\ m.id /= "platform"
    /\ Versioned([scripts |-> CoreScripts])

VARIABLES features,  \* [Platforms -> registered manifests in order]
          initPc,    \* [Platforms -> "registering", "resolve", "read", "apply", "ready"]
          frames,    \* [Platforms -> the resolver's stack: an id, what it has yet to follow]
          ordered,   \* [Platforms -> ids of the features, dependencies first]
          turn,      \* [Platforms -> whose migrations run: 0 the core's, k those of ordered[k]]
          applied,   \* [Platforms -> core_migrations as the owner's run read it]
          next,      \* [Platforms -> position in the owner's scripts]
          history,   \* core_migrations: [owner, version, checksum]
          schema     \* the migrations whose statements took effect, in order

graphVars == <<frames, ordered>>
startVars == <<features, initPc, graphVars, turn, applied, next, history, schema>>

NoneYet == [p \in Platforms |-> <<>>]

StartInit ==
    /\ features = NoneYet /\ frames = NoneYet /\ ordered = NoneYet
    /\ initPc = [p \in Platforms |-> "registering"]
    /\ turn = [p \in Platforms |-> 0]
    /\ applied = [p \in Platforms |-> {}]
    /\ next = [p \in Platforms |-> 1]
    /\ history = {} /\ schema = <<>>

EntityTypes(p) == FlattenSeq([i \in DOMAIN features[p] |-> features[p][i].entityTypes])
Pruners(p) == FlattenSeq([i \in DOMAIN features[p] |-> features[p][i].pruners])

\* ManifestValidator.validate: shapes, then versions and ids without repetition.
ValidManifest(m) ==
    /\ m.wellFormed /\ Versioned(m)
    /\ Distinct(m.entityTypes) /\ Distinct(m.pruners)

\* Platform.registerFeature: what conflicts with a feature registered earlier
\* is refused before anything is changed.
RegisterFeature(p, m) ==
    /\ initPc[p] = "registering"
    /\ Len(features[p]) < MaxFeatures
    /\ ValidManifest(m)
    /\ m.id \notin {f.id : f \in ToSet(features[p])}
    /\ Distinct(EntityTypes(p) \o m.entityTypes)
    /\ Distinct(Pruners(p) \o m.pruners)
    /\ features' = [features EXCEPT ![p] = Append(@, m)]
    /\ UNCHANGED <<initPc, graphVars, turn, applied, next, history, schema>>

----------------------------------------------------------------------------
Installed(build) == {m.id : m \in ToSet(build)}
ManifestOf(build, id) == CHOOSE m \in ToSet(build) : m.id = id

\* The hard dependencies and those of the optional ones that are installed.
DependenciesOf(build, id) ==
    LET m == ManifestOf(build, id)
    IN  ToSet(m.dependencies) \cup (ToSet(m.optional) \cap Installed(build))

Complete(build) ==
    \A m \in ToSet(build) :
        /\ ToSet(m.dependencies) \subseteq Installed(build)
        /\ \A other \in ToSet(build) \ {m} : m.permissions \cap other.permissions = {}

\* Platform.init; a graph with a gap or a collision rejects it.
BeginInit(p) ==
    /\ initPc[p] = "registering"
    /\ Complete(features[p])
    /\ initPc' = [initPc EXCEPT ![p] = "resolve"]
    /\ UNCHANGED <<features, graphVars, turn, applied, next, history, schema>>

Leaves(p, pc) ==
    /\ initPc' = [initPc EXCEPT ![p] = pc]
    /\ applied' = [applied EXCEPT ![p] = {}]
    /\ next' = [next EXCEPT ![p] = 1]

Forgets(p) ==
    /\ frames' = [frames EXCEPT ![p] = <<>>]
    /\ ordered' = [ordered EXCEPT ![p] = <<>>]
    /\ turn' = [turn EXCEPT ![p] = 0]

\* init rejects; it may be called again, and features be added before.
Rejects(p) == Leaves(p, "registering") /\ Forgets(p) /\ UNCHANGED features

----------------------------------------------------------------------------
\* (The optional dependencies forgotten.)
FrameOfHard(build, id) == [id |-> id, left |-> ManifestOf(build, id).dependencies]

\* DependencyResolver.resolve: depth first, with a stack of its own.
Frame(build, id) ==
    [id |-> id, left |-> ManifestOf(build, id).dependencies \o ManifestOf(build, id).optional]

Top(p) == Last(frames[p])
OnPath(p) == {frames[p][i].id : i \in DOMAIN frames[p]}
Unvisited(p) == Installed(features[p]) \ (OnPath(p) \cup ToSet(ordered[p]))

Walks(p) ==
    /\ initPc[p] = "resolve"
    /\ UNCHANGED <<features, turn, applied, next, history, schema>>

\* The outer loop takes the features as they were registered.
VisitFeature(p) ==
    /\ Walks(p) /\ frames[p] = <<>>
    /\ \E i \in DOMAIN features[p] :
          /\ features[p][i].id \in Unvisited(p)
          /\ \A j \in 1 .. i - 1 : features[p][j].id \notin Unvisited(p)
          /\ frames' = [frames EXCEPT ![p] = <<Frame(features[p], features[p][i].id)>>]
    /\ UNCHANGED <<initPc, ordered>>

Follows(p) == initPc[p] = "resolve" /\ frames[p] /= <<>> /\ Top(p).left /= <<>>
Cyclic(p) == Follows(p) /\ Head(Top(p).left) \in OnPath(p)

\* A dependency not visited gets a frame; one in order, and an optional one that
\* is not installed, is passed by.
FollowDependency(p) ==
    LET d == Head(Top(p).left)
        rest == Append(Front(frames[p]), [Top(p) EXCEPT !.left = Tail(@)])
    IN  /\ Follows(p) /\ ~Cyclic(p) /\ Walks(p)
        /\ frames' = [frames EXCEPT
              ![p] = IF d \in Unvisited(p) THEN Append(rest, Frame(features[p], d)) ELSE rest]
        /\ UNCHANGED <<initPc, ordered>>

\* A dependency met on the path to it is a cycle.
RejectCycle(p) == Cyclic(p) /\ Rejects(p) /\ UNCHANGED <<history, schema>>

LeaveFeature(p) ==
    /\ Walks(p) /\ frames[p] /= <<>> /\ Top(p).left = <<>>
    /\ ordered' = [ordered EXCEPT ![p] = Append(@, Top(p).id)]
    /\ frames' = [frames EXCEPT ![p] = Front(@)]
    /\ UNCHANGED initPc

EndWalk(p) ==
    /\ Walks(p) /\ frames[p] = <<>> /\ Unvisited(p) = {}
    /\ initPc' = [initPc EXCEPT ![p] = "read"]
    /\ UNCHANGED graphVars

----------------------------------------------------------------------------
\* By version, as the engine sorts what it is given.
Rank(scripts, s) == Cardinality({t \in ToSet(scripts) : t.version < s.version})
Sorted(scripts) ==
    [i \in DOMAIN scripts |-> CHOOSE s \in ToSet(scripts) : Rank(scripts, s) = i - 1]

\* Platform.init gives the engine the core's migrations, then each feature's.
OwnerAt(p, k) == IF k = 0 THEN "platform" ELSE ordered[p][k]
ScriptsAt(p, k) == IF k = 0 THEN CoreScripts ELSE ManifestOf(features[p], ordered[p][k]).scripts
Group(p) == [owner |-> OwnerAt(p, turn[p]), scripts |-> Sorted(ScriptsAt(p, turn[p]))]
Script(p) == Group(p).scripts[next[p]]
Record(owner, s) == [owner |-> owner, version |-> s.version, checksum |-> s.checksum]
Identified(records, owner, version) == {r \in records : r.owner = owner /\ r.version = version}

\* applyMigrations: versions 1, 2, 3 ... and every applied one among them.
Sequential(scripts) == \A i \in DOMAIN scripts : scripts[i].version = i
NothingRemoved(owner, scripts) ==
    \A r \in history : r.owner = owner => \E i \in DOMAIN scripts : scripts[i].version = r.version

ReadApplied(p) ==
    /\ initPc[p] = "read" /\ Group(p).scripts /= <<>>
    /\ IF Sequential(Group(p).scripts) /\ NothingRemoved(Group(p).owner, Group(p).scripts)
       THEN /\ initPc' = [initPc EXCEPT ![p] = "apply"]
            /\ applied' = [applied EXCEPT ![p] = history]
            /\ UNCHANGED <<features, graphVars, turn, next>>
       ELSE Rejects(p)
    /\ UNCHANGED <<history, schema>>

Due(p) == initPc[p] = "apply" /\ next[p] \in DOMAIN Group(p).scripts
Recorded(p) == Identified(applied[p], Group(p).owner, Script(p).version)

\* A migration that was recorded is skipped, or refused if it has changed.
Recognise(p) ==
    /\ Due(p) /\ Recorded(p) /= {}
    /\ IF Record(Group(p).owner, Script(p)) \in Recorded(p)
       THEN /\ next' = [next EXCEPT ![p] = @ + 1]
            /\ UNCHANGED <<features, initPc, graphVars, turn, applied>>
       ELSE Rejects(p)
    /\ UNCHANGED <<history, schema>>

\* The statements and the record in one transaction.
ApplyMigration(p) ==
    LET record == Record(Group(p).owner, Script(p)) IN
    /\ Due(p) /\ Recorded(p) = {}
    /\ Identified(history, record.owner, record.version) = {}
    /\ history' = history \cup {record}
    /\ schema' = Append(schema, record)
    /\ next' = [next EXCEPT ![p] = @ + 1]
    /\ UNCHANGED <<features, initPc, graphVars, turn, applied>>

\* (The statements stay when the record cannot be inserted.)
MigrationFailsHalfway(p) ==
    /\ Due(p) /\ Recorded(p) = {}
    /\ schema' = Append(schema, Record(Group(p).owner, Script(p)))
    /\ Rejects(p)
    /\ UNCHANGED history

\* A statement fails, or the record is there by now: all of it is undone.
MigrationFails(p) ==
    /\ Due(p) /\ Recorded(p) = {}
    /\ Rejects(p)
    /\ UNCHANGED <<history, schema>>

\* The next feature in order, or the end; one without migrations is passed by.
NextOwner(p) ==
    /\ ~Due(p)
    /\ initPc[p] = "apply" \/ (initPc[p] = "read" /\ Group(p).scripts = <<>>)
    /\ IF turn[p] = Len(ordered[p])
       THEN Leaves(p, "ready") /\ UNCHANGED turn
       ELSE Leaves(p, "read") /\ turn' = [turn EXCEPT ![p] = @ + 1]
    /\ UNCHANGED <<features, graphVars, history, schema>>

\* The process ends; the next one may be of another build.
EndProcess(p) ==
    /\ features' = [features EXCEPT ![p] = <<>>]
    /\ Leaves(p, "registering") /\ Forgets(p)
    /\ UNCHANGED <<history, schema>>

StartStep(p) ==
    \/ \E m \in Manifests : RegisterFeature(p, m)
    \/ BeginInit(p) \/ VisitFeature(p) \/ FollowDependency(p) \/ RejectCycle(p)
    \/ LeaveFeature(p) \/ EndWalk(p)
    \/ ReadApplied(p) \/ Recognise(p) \/ ApplyMigration(p) \/ MigrationFails(p)
    \/ NextOwner(p) \/ EndProcess(p)

StartNext == \E p \in Platforms : StartStep(p)

StartSpec == StartInit /\ [][StartNext]_startVars

----------------------------------------------------------------------------
\* The database is what its history says, whichever builds ran, competed,
\* failed or crashed: each recorded migration took effect once and nothing else
\* did, and no owner misses an earlier version.
SchemaIsHistory ==
    /\ Distinct(schema) /\ ToSet(schema) = history
    /\ \A r \in history :
          /\ Cardinality(Identified(history, r.owner, r.version)) = 1
          /\ r.version > 1 => Identified(history, r.owner, r.version - 1) /= {}

AllRecorded(owner, scripts) == \A i \in DOMAIN scripts : Record(owner, scripts[i]) \in history

\* A platform that is ready finds every migration of the core and of its build
\* recorded, as the build has it: none left out, none of another build under its
\* version.
ReadyIsMigrated ==
    \A p \in Platforms : initPc[p] = "ready" =>
        /\ AllRecorded("platform", CoreScripts)
        /\ \A m \in ToSet(features[p]) : AllRecorded(m.id, m.scripts)

\* A feature's migrations run when those of the core and of all it depends on
\* have run, however the features were registered and named; and a complete build
\* is refused only if some features each depend on another of them.
DependenciesFirst ==
    \A p \in Platforms :
        /\ initPc[p] = "apply" /\ turn[p] > 0 =>
              /\ AllRecorded("platform", CoreScripts)
              /\ \A d \in DependenciesOf(features[p], ordered[p][turn[p]]) :
                    AllRecorded(d, ManifestOf(features[p], d).scripts)
        /\ Cyclic(p) =>
              \E C \in (SUBSET Installed(features[p])) \ {{}} :
                  \A c \in C : DependenciesOf(features[p], c) \cap C /= {}

\* A build is migrated as it is declared and in the order its dependencies ask
\* for, or not at all.
BuildIsMigrated == ReadyIsMigrated /\ DependenciesFirst
============================================================================
