------------------------------ MODULE Settings ------------------------------
(***************************************************************************)
(* The settings page: PUT /api/settings changes the live configuration,    *)
(* saves it as the only row of a table and hands it to the components      *)
(* (config/config.go, and the callback main.go wires); a restart rebuilds  *)
(* everything from the defaults and that row.                              *)
(*                                                                         *)
(* A configuration is four fields, each for the settings treated like it:  *)
(*   on    copied as it is and handed over (here the switch of the         *)
(*         semantic cache; so are thresholds and the other switches)       *)
(*   lam   copied and handed over, but only a positive one is restored or  *)
(*         taken over by the memory store (the recency weight)             *)
(*   key   kept when the request leaves it blank or sends back the mask,   *)
(*         saved as it is live (the embedding key)                         *)
(*   size  copied and saved, but read only where a component is built      *)
(*         (the limits, the response cache's TTL, the loop detector's      *)
(*         settings)                                                       *)
(* Requests that validateSettings refuses change nothing.  Left out are    *)
(* the settings that every request reads from the live configuration, what *)
(* of the last kind a rebuild of the semantic cache reads again (its       *)
(* capacity and sparse weight), and the embedding service: its provider    *)
(* and model are kept as the key is and used at a rebuild, a blank URL is  *)
(* ignored but saved blank.                                                *)
(***************************************************************************)
EXTENDS Integers

CONSTANTS
  Worker,   \* goroutines of PUT /api/settings
  Key,      \* embedding keys a user may enter
  Size,     \* limits a user may enter
  Entered,  \* bound: the requests that are sent
  Limit,    \* the default limit
  None      \* no key, no row, no component; "" in a request

VARIABLES
  cfg,         \* the live Config
  row,         \* the settings table: None or the saved fields
  recall,      \* what the memory store was told, None without a store
  sem,         \* the semantic cache: None or what it was built with
  limit,       \* what the response cache and the loop detector were built with
  lastKey,     \* lastEmbeddingKey
  put,         \* where each PUT is
  overlapped,  \* ghost: two PUTs have overlapped since the last start
  failed       \* ghost: the last save or the last construction failed

vars == <<cfg, row, recall, sem, limit, lastKey, put, overlapped, failed>>

Default == [on |-> FALSE, lam |-> 1, key |-> None, size |-> Limit]
Mask == "mask"
Incoming == [on : BOOLEAN, lam : {0, 2}, key : Key \cup {None, Mask}, size : Size]
Built == [key |-> cfg.key, on |-> cfg.on]   \* the embedder's part
Idle == [pc |-> "idle", data |-> None]

-----------------------------------------------------------------------------
(* LoadFromDB, over the defaults *)
Restored(r) ==
  IF r = None THEN Default
  ELSE [on   |-> r.on,
        lam  |-> IF r.lam > 0 THEN r.lam ELSE Default.lam,
        key  |-> IF r.key # None THEN r.key ELSE Default.key,
        size |-> r.size]

(* main: every component is built from what was restored.  The memory      *)
(* store and the semantic cache need a key, and their construction may     *)
(* fail.                                                                   *)
Start(r) ==
  /\ cfg' = Restored(r)
  /\ recall' \in IF cfg'.key = None THEN {None} ELSE {cfg'.lam, None}
  /\ lastKey' = cfg'.key /\ limit' = cfg'.size
  /\ overlapped' = FALSE
  /\ IF cfg'.on /\ cfg'.key # None
       THEN \/ sem' = Built' /\ failed' = failed \ {"build"}
            \/ sem' = None /\ failed' = failed \cup {"build"}
       ELSE sem' = None /\ failed' = failed \ {"build"}

Init ==
  /\ cfg = Default /\ row = None /\ recall = None /\ sem = None
  /\ lastKey = Default.key /\ limit = Default.size
  /\ put = [e \in Worker |-> Idle]
  /\ overlapped = FALSE /\ failed = {}

Go(e, pc, data) == put' = [put EXCEPT ![e] = [pc |-> pc, data |-> data]]
Quiet == \A e \in Worker : put[e] = Idle

-----------------------------------------------------------------------------
(* HandlePut *)

Apply(e, in) ==
  /\ put[e] = Idle
  /\ cfg' = [in EXCEPT !.key = IF @ \in {None, Mask} THEN cfg.key ELSE @]
  /\ overlapped' = (overlapped \/ ~Quiet)
  /\ Go(e, "snapshot", in)
  /\ UNCHANGED <<row, recall, sem, limit, lastKey, failed>>

(* the request, with the live key in place of what it may have masked *)
\* mutant: the request is saved as it came
Snapshot_Incoming(e) ==
  /\ put[e].pc = "snapshot"
  /\ Go(e, "save", [put[e].data EXCEPT !.key = IF @ = Mask THEN None ELSE @])
  /\ UNCHANGED <<cfg, row, recall, sem, limit, lastKey, overlapped, failed>>
Snapshot(e) ==
  /\ put[e].pc = "snapshot"
  /\ Go(e, "save", [put[e].data EXCEPT !.key = cfg.key])
  /\ UNCHANGED <<cfg, row, recall, sem, limit, lastKey, overlapped, failed>>

(* a failed save is logged and the PUT goes on *)
Save(e) ==
  /\ put[e].pc = "save"
  /\ \/ row' = put[e].data /\ failed' = failed \ {"save"}
     \/ row' = row /\ failed' = failed \cup {"save"}
  /\ Go(e, IF recall = None THEN "embedder" ELSE "read", None)
  /\ UNCHANGED <<cfg, recall, sem, limit, lastKey, overlapped>>

-----------------------------------------------------------------------------
(* onChange: it reads the live configuration without a lock, a field at a  *)
(* time, while other PUTs may be changing it                               *)

ReadLam(e) ==
  /\ put[e].pc = "read"
  /\ Go(e, "tell", cfg.lam)
  /\ UNCHANGED <<cfg, row, recall, sem, limit, lastKey, overlapped, failed>>

(* SetRecencyLambda ignores a zero, which validateSettings lets through *)
TellMemory(e) ==
  /\ put[e].pc = "tell"
  /\ recall' = IF put[e].data > 0 THEN put[e].data ELSE recall
  /\ Go(e, "embedder", None)
  /\ UNCHANGED <<cfg, row, sem, limit, lastKey, overlapped, failed>>

Rebuilds == cfg.key # None /\ (cfg.key # lastKey \/ (cfg.on /\ sem = None))

Build(e) ==
  /\ put[e].pc = "embedder" /\ Rebuilds
  /\ \/ Go(e, "publish", Built) /\ UNCHANGED failed
     \/ put' = [put EXCEPT ![e] = Idle] /\ failed' = failed \cup {"build"}
  /\ UNCHANGED <<cfg, row, recall, sem, limit, lastKey, overlapped>>

Publish(e) ==
  /\ put[e].pc = "publish"
  /\ sem' = put[e].data
  /\ Go(e, "note", put[e].data.key)
  /\ failed' = failed \ {"build"}
  /\ UNCHANGED <<cfg, row, recall, limit, lastKey, overlapped>>

NoteKey(e) ==
  /\ put[e].pc = "note"
  /\ lastKey' = put[e].data
  /\ put' = [put EXCEPT ![e] = Idle]
  /\ UNCHANGED <<cfg, row, recall, sem, limit, overlapped, failed>>

Switch(e) ==
  /\ put[e].pc = "embedder" /\ ~Rebuilds
  /\ sem' = IF sem = None THEN None ELSE [sem EXCEPT !.on = cfg.on]
  /\ put' = [put EXCEPT ![e] = Idle]
  /\ UNCHANGED <<cfg, row, recall, limit, lastKey, overlapped, failed>>

(* A restart, or a crash in the middle of a PUT: the PUT that was not      *)
(* saved is gone, and the one that was is restored                         *)
Restart ==
  /\ put' = [e \in Worker |-> Idle]
  /\ Start(row)
  /\ UNCHANGED row

OnChange(e) ==
  ReadLam(e) \/ TellMemory(e) \/ Build(e) \/ Publish(e) \/ NoteKey(e) \/ Switch(e)

Next ==
  \/ \E e \in Worker : (\E in \in Entered : Apply(e, in)) \/ Snapshot(e) \/ Save(e) \/ OnChange(e)
  \/ Restart

Spec == Init /\ [][Next]_vars

-----------------------------------------------------------------------------
(* "Persist to database so settings survive restarts" (config.go:769), as  *)
(* far as the code keeps it: once every PUT has been answered, and none    *)
(* overlapped another, what a restart would restore is the live            *)
(* configuration, key included, unless the save failed (a weight of zero   *)
(* excepted, which the memory store ignores and a restart forgets).        *)
SavedIsLive ==
  LET r == Restored(row) IN
  "save" \notin failed =>
    /\ r.on = cfg.on /\ r.key = cfg.key /\ r.size = cfg.size
    /\ cfg.lam > 0 => r.lam = cfg.lam

(* ... and what onChange hands over has arrived: the memory store works    *)
(* with its weight, the semantic cache with its key and switch.            *)
HandedOver ==
  /\ recall # None /\ cfg.lam > 0 => recall = cfg.lam
  /\ "build" \notin failed /\ sem # None => sem.key = cfg.key /\ sem.on = cfg.on
  /\ "build" \notin failed /\ cfg.on /\ cfg.key # None => sem # None

SettingsStick == Quiet /\ ~overlapped => SavedIsLive /\ HandedOver

(* The response cache's limits and the loop detector's settings "take      *)
(* effect immediately" (USER_GUIDE.md:453-457, config.go:619): those in    *)
(* use are the live ones once every PUT has been answered.  They are not:  *)
(* onChange hands them to nobody, and only a restart reads them again.     *)
LimitsTakeEffect == Quiet => limit = cfg.size
=============================================================================
