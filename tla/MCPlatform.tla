----------------------------- MODULE MCPlatform -----------------------------
(***************************************************************************)
(* Instances of the modules under the applications for TLC: clocks,        *)
(* conflicts, transactions, records, transport, start-up, maintenance and  *)
(* import.  They share no state: a behaviour picks one, its focus, and the *)
(* others stand still.                                                     *)
(***************************************************************************)
EXTENDS Convergence, Connection, Records, Endpoint, Startup, Maintenance, Import

CONSTANTS nil, undefined, nothing, n1, w1, w2, o1, p1, Focus

VARIABLE focus

Script_(v, c) == [version |-> v, checksum |-> c]
Manifest(id, deps, scripts) ==
    [id |-> id, wellFormed |-> TRUE, dependencies |-> deps, optional |-> <<>>,
     permissions |-> {id}, scripts |-> scripts, entityTypes |-> <<id>>, pruners |-> <<id>>]

\* Two builds of a and of b: a needs b or changed its first migration; b may use
\* a.  One c skips a version, one takes names of a and b, another is no manifest.
MCManifests ==
    {Manifest("a", <<"b">>, <<Script_(2, 1), Script_(1, 1)>>),
     Manifest("a", <<>>, <<Script_(1, 2)>>),
     Manifest("b", <<>>, <<Script_(1, 1)>>),
     [Manifest("b", <<>>, <<Script_(1, 1)>>) EXCEPT !.optional = <<"a">>],
     Manifest("c", <<"b">>, <<Script_(1, 1), Script_(3, 1)>>),
     [Manifest("c", <<"b">>, <<>>) EXCEPT !.entityTypes = <<"b">>, !.permissions = {"a"}],
     [Manifest("c", <<"a">>, <<>>) EXCEPT !.wellFormed = FALSE]}
MCCoreScripts == <<Script_(1, 1)>>

\* With MaxRows = 3: files at the limit, one and two rows past it and more, one
\* with a bad row, one with too many cells, one of another format.
File == [format |-> "csv", bytes |-> 1, sheets |-> 1, rows |-> 3, columns |-> 1, longest |-> 1,
         repeatedHeading |-> FALSE, slow |-> FALSE, badRow |-> 0]
MCFiles == {[File EXCEPT !.rows = 4], [File EXCEPT !.rows = 5], [File EXCEPT !.rows = 6],
            [File EXCEPT !.badRow = 2], [File EXCEPT !.columns = 9], [File EXCEPT !.format = "xls"]}

MCHandlers == <<"tombstones", "outbox">>
MCTableOf == <<"outbox", "outbox">>

replicas == <<clockVars, replicaVars>>

\* The initial states of the other modules are fixed: only the focus chooses.
Standing ==
    /\ focus \notin {"clock", "replicas"} => wall = [n \in Nodes |-> 0]
    /\ focus /= "connection" => connection = "memory"
    /\ focus /= "maintenance" => \A h \in DOMAIN retention : retention[h] = 1
    /\ focus /= "import" => \A i \in Imports : imports[i].file.rows = 4

Init == /\ focus \in Focus
        /\ ClockInit /\ ReplicaInit /\ ConnectionInit /\ RecordsInit /\ EndpointInit
        /\ StartInit /\ MaintenanceInit /\ ImportInit
        /\ Standing

Next ==
    \/ /\ focus = "clock" /\ ClockNext
       /\ UNCHANGED <<focus, replicaVars, connectionVars, recordVars, endpointVars, startVars,
                      maintenanceVars, importVars>>
    \/ /\ focus = "replicas" /\ ReplicaNext
       /\ UNCHANGED <<focus, connectionVars, recordVars, endpointVars, startVars,
                      maintenanceVars, importVars>>
    \/ /\ focus = "connection" /\ ConnectionNext
       /\ UNCHANGED <<focus, replicas, recordVars, endpointVars, startVars, maintenanceVars, importVars>>
    \/ /\ focus = "records" /\ RecordsNext
       /\ UNCHANGED <<focus, replicas, connectionVars, endpointVars, startVars, maintenanceVars, importVars>>
    \/ /\ focus = "endpoint" /\ EndpointNext
       /\ UNCHANGED <<focus, replicas, connectionVars, recordVars, startVars, maintenanceVars, importVars>>
    \/ /\ focus = "startup" /\ StartNext
       /\ UNCHANGED <<focus, replicas, connectionVars, recordVars, endpointVars, maintenanceVars, importVars>>
    \/ /\ focus = "maintenance" /\ MaintenanceNext
       /\ UNCHANGED <<focus, replicas, connectionVars, recordVars, endpointVars, startVars, importVars>>
    \/ /\ focus = "import" /\ ImportNext
       /\ UNCHANGED <<focus, replicas, connectionVars, recordVars, endpointVars, startVars, maintenanceVars>>

Spec == Init
        /\ [][Next]_<<focus, replicas, connectionVars, recordVars, endpointVars, startVars,
                      maintenanceVars, importVars>>
=============================================================================
