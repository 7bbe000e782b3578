------------------------------- MODULE ToolPlans -------------------------------
(***************************************************************************)
(* The tool handlers of hermes/tools as plans: what each awaits, in order. *)
(* ToolCalls says what each of these steps does.                           *)
(*                                                                         *)
(*   ask, run   the call without and with a confirmation token             *)
(*   catches    what the handler turns into an answer: "status" is         *)
(*              HAConnectionError, "other" the rest (a transport that      *)
(*              fails under aiohttp, a file that cannot be written)        *)
(*   binds      the token is bound to the resolved id, not to the name     *)
(*   lenient    removing what is not there is a result, not an error       *)
(*   reads      the tool changes nothing                                   *)
(***************************************************************************)
EXTENDS Sequences

Conn == {"status"}
All  == {"status", "other"}

Direct(steps, catches) ==
  [ask |-> Append(steps, "done"), run |-> <<>>, catches |-> catches,
   binds |-> FALSE, lenient |-> FALSE, reads |-> FALSE]

Reading(steps, catches) == [Direct(steps, catches) EXCEPT !.reads = TRUE]

Confirmed(ask, run, catches) ==
  [ask |-> Append(ask, "issue"), run |-> Append(run, "complete"), catches |-> catches,
   binds |-> FALSE, lenient |-> FALSE, reads |-> FALSE]

-------------------------------------------------------------------------------
(* tools/_common.py                                                          *)

StatesList == Reading(<<"ready">>, {})

CollectionGet == Reading(<<"ready", "look">>, All)

CollectionUpdate ==
  Confirmed(<<"ready", "check", "look">>,
            <<"ready", "check", "validate", "fetch", "put">>, All)

CollectionDelete ==
  [Confirmed(<<"ready", "look">>, <<"ready", "validate", "remove">>, All)
     EXCEPT !.lenient = TRUE]

GuardedReload == Confirmed(<<"ready">>, <<"ready", "validate", "invoke">>, {})

(* An entity that is not restricted is invoked at once.                      *)
EntityInvoke == Direct(<<"ready", "exists", "invoke">>, {})

RestrictedInvoke ==
  Confirmed(<<"ready", "exists">>, <<"ready", "exists", "validate", "invoke">>, {})

GuardedInvoke == {EntityInvoke, RestrictedInvoke}

Collection == {CollectionGet, CollectionUpdate, CollectionDelete}

-------------------------------------------------------------------------------
(* One module of helpers each.                                               *)

InputBoolean  == {StatesList, EntityInvoke} \cup Collection
InputButton   == {StatesList, EntityInvoke} \cup Collection
InputDatetime == {StatesList, EntityInvoke} \cup Collection
InputNumber   == {StatesList, EntityInvoke} \cup Collection
InputSelect   == {StatesList, Direct(<<"ready", "check", "exists", "invoke">>, {}),
                  EntityInvoke} \cup Collection
InputText     == {StatesList, EntityInvoke} \cup Collection
Schedule      == {StatesList, GuardedReload} \cup Collection
Zone          == {StatesList, GuardedReload} \cup Collection
Timer         == {StatesList, EntityInvoke, GuardedReload} \cup Collection

(* An increment by more than one reads the state and sets the sum.           *)
CounterAdjust == Direct(<<"ready", "exists", "read", "invoke">>, Conn)
Counter == {StatesList, EntityInvoke, GuardedReload} \cup Collection
CounterSteps == {CounterAdjust, EntityInvoke}

(* The trackers of a person are looked up as part of the validation, before  *)
(* the token is.                                                             *)
PersonCreate == Direct(<<"ready", "check", "create">>, All)

Person == {Reading(<<"ready", "read">>, Conn), PersonCreate} \cup Collection

-------------------------------------------------------------------------------
(* automations.py, scripts.py, scenes.py.  An entity id is resolved to the   *)
(* id of the stored configuration, for the preview and again for the change. *)

AutomationReads == {StatesList, Reading(<<"ready", "resolve", "look">>, All)}

AutomationSave ==
  Confirmed(<<"ready", "check", "resolve", "look">>,
            <<"ready", "check", "validate", "resolve", "save">>, All)

AutomationDelete ==
  [Confirmed(<<"ready", "resolve", "look">>,
             <<"ready", "validate", "resolve", "remove">>, All)
     EXCEPT !.lenient = TRUE]

(* Enable and disable, trigger, reload.                                      *)
AutomationRuns ==
  {Direct(<<"ready", "invoke">>, {}), GuardedReload} \cup GuardedInvoke

Automation == AutomationReads \cup {AutomationSave, AutomationDelete} \cup AutomationRuns

(* A script is stored under its object id: nothing to resolve.               *)
ScriptReads == {StatesList, CollectionGet}

ScriptSave ==
  Confirmed(<<"ready", "check", "look">>, <<"ready", "check", "validate", "save">>, All)

ScriptDelete == CollectionDelete

ScriptRuns == GuardedInvoke \cup {GuardedReload}

Script == ScriptReads \cup {ScriptSave, ScriptDelete} \cup ScriptRuns

SceneReads == AutomationReads

(* Saved at once, without a token, when there is no such scene; refused when *)
(* that cannot be known.                                                     *)
SceneSave ==
  [AutomationSave EXCEPT
     !.ask = <<"ready", "check", "resolve", "read", "unless", "issue">>]

SceneDelete == AutomationDelete

(* Activate, create from the current states, reload.                         *)
SceneRuns == {EntityInvoke, Direct(<<"ready", "create">>, {}), GuardedReload}

Scene == SceneReads \cup {SceneSave, SceneDelete} \cup SceneRuns

-------------------------------------------------------------------------------
(* lovelace.py.                                                              *)

(* Whether the dashboard is kept in a YAML file is looked up first; if it    *)
(* cannot be found it is read all the same.                                  *)
DashboardReads ==
  {Reading(<<"ready">>, All), Reading(<<"ready", "look", "check", "read">>, All)}

DashboardSave ==
  Confirmed(<<"ready", "check", "peek", "check", "look">>,
            <<"ready", "check", "peek", "check", "validate", "save">>, All)

DashboardCreate == Direct(<<"ready", "create">>, All)

(* Title and icon need no token; visibility and access do, and the token is  *)
(* bound to the dashboard's id.                                              *)
DashboardRetitle == Direct(<<"ready", "locate", "change">>, All)

DashboardUpdate ==
  [Confirmed(<<"ready", "locate">>, <<"ready", "locate", "validate", "change">>, All)
     EXCEPT !.binds = TRUE]

DashboardDelete ==
  Confirmed(<<"ready", "find">>, <<"ready", "validate", "find", "remove">>, All)

Dashboard ==
  DashboardReads \cup {DashboardSave, DashboardCreate, DashboardRetitle, DashboardUpdate,
                       DashboardDelete}

ResourceReads == {Reading(<<"ready", "read">>, All)}

ResourceCreate == Confirmed(<<"ready">>, <<"ready", "validate", "create">>, All)

ResourceUpdate == Confirmed(<<"ready">>, <<"ready", "validate", "change">>, All)

ResourceDelete == Confirmed(<<"ready">>, <<"ready", "validate", "remove">>, All)

Resource == ResourceReads \cup {ResourceCreate, ResourceUpdate, ResourceDelete}

-------------------------------------------------------------------------------
(* registry_area.py, registry_device.py, registry_entity.py,                 *)
(* config_entries.py: only HAConnectionError is caught.                      *)

RegistryGet == Reading(<<"ready", "read">>, Conn)

RegistryCreate == Direct(<<"ready", "check", "create">>, Conn)

RegistryUpdate ==
  Confirmed(<<"ready", "check", "look">>, <<"ready", "check", "validate", "change">>, Conn)

(* The preview counts what depends on the item; a count that cannot be had   *)
(* is 0.                                                                     *)
RegistryDelete ==
  Confirmed(<<"ready", "look", "look", "look">>, <<"ready", "validate", "remove">>, Conn)

AreaReads   == {RegistryGet}
AreaCreate  == RegistryCreate
AreaUpdate  == RegistryUpdate
AreaDelete  == RegistryDelete
DeviceReads == {RegistryGet}
DeviceUpdate == RegistryUpdate
DeviceDetach == Confirmed(<<"ready">>, <<"ready", "validate", "change">>, Conn)
EntityReads == {RegistryGet}
EntityUpdate == RegistryUpdate
EntityRemove == Confirmed(<<"ready", "look">>, <<"ready", "validate", "remove">>, Conn)

Registry ==
  AreaReads \cup {AreaCreate, AreaUpdate, AreaDelete} \cup DeviceReads
    \cup {DeviceUpdate, DeviceDetach} \cup EntityReads \cup {EntityUpdate, EntityRemove}

EntryReads == {Reading(<<"ready", "check", "read">>, Conn)}

(* Reload and enable.                                                        *)
EntryReload == Direct(<<"ready", "check", "invoke">>, Conn)
EntryEnable == Direct(<<"ready", "check", "change">>, Conn)

EntryDisable ==
  Confirmed(<<"ready", "check", "look", "look", "look">>,
            <<"ready", "check", "validate", "change">>, Conn)

EntryDelete ==
  Confirmed(<<"ready", "check", "look", "look", "look">>,
            <<"ready", "check", "validate", "remove">>, Conn)

Entry == EntryReads \cup {EntryReload, EntryEnable, EntryDisable, EntryDelete}

-------------------------------------------------------------------------------
(* ha.py: states, services.                                                  *)

ServiceReads == {StatesList, Reading(<<"ready", "look">>, {}), Reading(<<"ready", "read">>, {})}

CallService == Direct(<<"ready", "check", "invoke">>, {})

CallDangerousService ==
  Confirmed(<<"ready", "check">>, <<"ready", "check", "validate", "invoke">>, All)

CallServiceResponse == Direct(<<"ready", "check", "invoke">>, Conn)

Service == ServiceReads \cup {CallService, CallDangerousService, CallServiceResponse}

-------------------------------------------------------------------------------
(* addons.py, backups.py: the Supervisor.  They do not wait for the          *)
(* WebSocket.  A long operation answers a job, which is noted on disk before *)
(* the token is completed; what the Jobs module does with it is its own.     *)

AddonReads == {Reading(<<"check", "read">>, Conn)}

AddonSetOptions ==
  Confirmed(<<"check", "look">>, <<"check", "validate", "replace">>, Conn)

(* Start, stop, restart.                                                     *)
AddonRuns == {Confirmed(<<"check", "look">>, <<"check", "validate", "invoke">>, Conn)}

AddonInstall == Confirmed(<<"check">>, <<"check", "validate", "invoke", "track">>, Conn)

AddonUninstall ==
  Confirmed(<<"check", "look">>, <<"check", "validate", "remove", "track">>, Conn)

AddonUpdate ==
  Confirmed(<<"check", "look">>, <<"check", "validate", "invoke", "track">>, Conn)

Addon ==
  AddonReads \cup {AddonSetOptions} \cup AddonRuns \cup
    {AddonInstall, AddonUninstall, AddonUpdate}

BackupReads == {Reading(<<"check", "read">>, Conn)}

BackupCreate == Direct(<<"check", "invoke", "track">>, Conn)

BackupDelete ==
  Confirmed(<<"check", "look">>, <<"check", "validate", "remove">>, Conn)

BackupRestoreFull ==
  Confirmed(<<"check", "look">>, <<"check", "validate", "invoke", "track">>, Conn)

(* The lists of add-ons and folders are parsed under the token.              *)
BackupRestorePartial ==
  Confirmed(<<"check", "look">>, <<"check", "validate", "check", "invoke", "track">>, Conn)

Backup ==
  BackupReads \cup {BackupCreate, BackupDelete, BackupRestoreFull, BackupRestorePartial}
===============================================================================
