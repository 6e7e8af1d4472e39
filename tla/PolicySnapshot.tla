--------------------------- MODULE PolicySnapshot ---------------------------
(***************************************************************************)
(* The classifier's policy snapshot (sdwan/classifier/policy_snapshot.c):  *)
(* which messages replace the active policy, and what it answers.  A       *)
(* message is the parsed JSON document; `parsed` says that it is one and   *)
(* has every field, `lapsed` that its expiry has passed on the wall clock. *)
(***************************************************************************)
EXTENDS Naturals, Sequences, FiniteSets

CONSTANTS
  Site,          \* config->site
  FailOpen,      \* config->fail_open
  PathMask,      \* marks a path may have are 1 .. PathMask
  FallbackMark,
  MaxPaths       \* SDWAN_MAX_PATHS

ASSUME MarkAssumption == PathMask \in Nat /\ FallbackMark \in 1 .. PathMask /\ MaxPaths \in Nat \ {0}

(* The policy in force before any message. *)
InitialPolicy ==
  [generation |-> "", version |-> 1, lapsed |-> FALSE,
   paths |-> [n \in {"fallback"} |-> FallbackMark],
   ranks |-> [c \in {"unknown"} |-> <<"fallback">>],
   unknown |-> "unknown", apps |-> <<>>, categories |-> <<>>]

Named(f) == {f[x] : x \in DOMAIN f}

(* path_mark: 0 for a name that is no path. *)
PathMark(paths, name) == IF name \in DOMAIN paths THEN paths[name] ELSE 0

(* A ranking lists every path exactly once. *)
CompleteRanking(paths, ranking) ==
  /\ Len(ranking) = Cardinality(DOMAIN paths)
  /\ \A i \in DOMAIN ranking :
       LET mark == PathMark(paths, ranking[i])
       IN mark # 0 /\ \A j \in 1 .. i - 1 : PathMark(paths, ranking[j]) # mark

Valid(m) ==
  /\ m.parsed /\ m.schema = 4 /\ m.site = Site
  /\ m.version > 0 /\ m.catalog > 0 /\ m.generation # ""
  /\ m.expires > m.created
  /\ m.failOpen = FailOpen
  /\ DOMAIN m.paths # {} /\ Cardinality(DOMAIN m.paths) <= MaxPaths
  /\ Named(m.paths) \subseteq 1 .. PathMask
  /\ \A p, q \in DOMAIN m.paths : p # q => m.paths[p] # m.paths[q]
  /\ \A c \in DOMAIN m.ranks : CompleteRanking(m.paths, m.ranks[c])
  /\ {m.unknown} \cup Named(m.apps) \cup Named(m.categories) \subseteq DOMAIN m.ranks
  /\ ~m.lapsed

(* Faulty: the version alone is compared, with < for <=. *)
FaultyStale(active, m) == m.generation = active.generation /\ m.version < active.version

Stale(active, m) == m.generation = active.generation /\ m.version <= active.version

Snapshot(m) == [f \in DOMAIN InitialPolicy |-> m[f]]

(* sdwan_policy_update_json: an invalid or stale message changes nothing.  *)
UpdatePolicy(active, m) ==
  IF Valid(m) /\ ~Stale(active, m) THEN Snapshot(m) ELSE active

(* sdwan_policy_choose.  A category counts for an application that is not  *)
(* listed, or is listed in the unknown class.                              *)
Choose(active, app, category, fallback) ==
  LET byApp == IF app \in DOMAIN active.apps THEN active.apps[app] ELSE active.unknown
      class == IF byApp = active.unknown /\ category \in DOMAIN active.categories
               THEN active.categories[category] ELSE byApp
  IN IF active.lapsed THEN fallback ELSE PathMark(active.paths, active.ranks[class][1])
=============================================================================
