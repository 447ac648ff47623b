------------------------------- MODULE MCAdmin -------------------------------
(***************************************************************************)
(* The five stores behind the management API, which share nothing but the  *)
(* database: each behaviour exercises one of them and leaves the others in *)
(* their initial states.                                                   *)
(***************************************************************************)
EXTENDS Naturals, FiniteSets, TLC

CONSTANTS
  Worker,                            \* goroutines of the management API
  Caller, Key, TTL, MaxNow,          \* of ApiKeys; Key also of Settings
  Name, Setup, MaxProvider,          \* of Providers
  Prefix, Seeds, MaxPrice,           \* of Pricing
  Size, Limit, Entered,              \* of Settings
  Hash, Scope, MaxVectors, MaxWriters, \* of VectorStore
  None

ASSUME AdminAssumption == TTL \in Nat

VARIABLES
  part,                              \* the store this behaviour is about
  now, keys, cached, call, admin, late,
  providers, lastProvider, routes, editing, routesCrossed,
  prices, lastPrice, priceCache, pricing, pricesCrossed,
  cfg, row, recall, sem, limit, lastKey, put, overlapped, failed,
  pg, vectors, vectorRows, writers, user, crossed

K == INSTANCE ApiKeys
R == INSTANCE Providers
P == INSTANCE Pricing
S == INSTANCE Settings
V == INSTANCE VectorStore

\* The built-in prices are a finite list.
ASSUME SeedsAssumption == IsFiniteSet(Seeds)
\* None is told from the settings, a semantic cache, a priced row, a table of them.
ASSUME NoneAssumption ==
  /\ None \notin [on : BOOLEAN, lam : {0, 1, 2}, key : Key \cup {None}, size : Size \cup {Limit}]
  /\ None \notin [key : Key \cup {None}, on : BOOLEAN]
  /\ None \notin P!PriceRow \cup [Prefix -> P!PriceRow \cup {None}]

\* The requests that are sent are some of those validateSettings lets through ...
ASSUME EnteredAssumption == Entered \subseteq S!Incoming
\* ... in the runs any of them, but that a blank key, which is treated as the mask
\* is, stays out, the weight becomes zero only while the key is kept, and the limit
\* goes with the weight.
SomeEntered ==
  {in \in [on : BOOLEAN, lam : {0, 2}, key : Key \cup {"mask"}, size : {Limit, 2 * Limit}] :
     /\ in.lam = 0 => in.key = "mask"
     /\ in.size = Limit <=> in.lam = 0}

keyVars == <<now, keys, cached, call, admin, late>>
routeVars == <<providers, lastProvider, routes, editing, routesCrossed>>
priceVars == <<prices, lastPrice, priceCache, pricing, pricesCrossed>>
settingVars == <<cfg, row, recall, sem, limit, lastKey, put, overlapped, failed>>
vectorVars == <<pg, vectors, vectorRows, writers, user, crossed>>

Init ==
  /\ part \in {"keys", "providers", "prices", "settings", "vectors"}
  /\ K!Init /\ R!Init /\ P!Init /\ S!Init /\ V!Init
  /\ pg => part = "vectors"

Next ==
  /\ UNCHANGED part
  /\ \/ part = "keys" /\ K!Next /\ UNCHANGED <<routeVars, priceVars, settingVars, vectorVars>>
     \/ part = "providers" /\ R!Next /\ UNCHANGED <<keyVars, priceVars, settingVars, vectorVars>>
     \/ part = "prices" /\ P!Next /\ UNCHANGED <<keyVars, routeVars, settingVars, vectorVars>>
     \/ part = "settings" /\ S!Next /\ UNCHANGED <<keyVars, routeVars, priceVars, vectorVars>>
     \/ part = "vectors" /\ V!Next /\ UNCHANGED <<keyVars, routeVars, priceVars, settingVars>>

Spec == Init /\ [][Next]_<<part, keyVars, routeVars, priceVars, settingVars, vectorVars>>

(* A key that was revoked is admitted no longer than the code's caches let it *)
RevokedStaysOut == part = "keys" => K!RevokedStaysOut

(* Requests are routed by the providers' table as it is *)
RoutesFollowTable == part = "providers" => R!RoutesFollowTable

(* Requests are priced by the pricing table as it is *)
PricesFollowTable == part = "prices" => P!PricesFollowTable

(* A refresh makes the catalogue authoritative, and never wipes the table *)
CatalogueIsAuthoritative == part = "prices" => P!CatalogueIsAuthoritative

(* The settings that were put are live and saved, and those that are handed to
   a component are what it works with *)
SettingsStick == part = "settings" => S!SettingsStick

(* Limits that were put are in use at once (they are not) *)
LimitsTakeEffect == part = "settings" => S!LimitsTakeEffect

(* Searches find what the vectors' table holds *)
TableFollows == part = "vectors" => V!TableFollows

Symmetry ==
  UNION {Permutations(s) : s \in {Worker, Key}}
=============================================================================
